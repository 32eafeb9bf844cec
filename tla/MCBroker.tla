------------------------------ MODULE MCBroker ------------------------------
(* Instances of Broker for TLC: which proposals the clients of a run send.  *)
EXTENDS Broker, TLC

Using(tools, ks) == {q \in Proposal : q.inv.tool \in tools /\ q.key \in ks}

OnePrivate       == {CHOOSE p \in Path : TRUE}
OneVouched       == {CHOOSE x \in (Path \ Private) \X Content : TRUE}
\* at a private path, one write only
PrivateRest      == {q \in Using({"write", "delete", "read"}, {None}) :
                        /\ q.inv.path \in Private
                        /\ q.inv.content # CHOOSE c \in Content : TRUE}

MixedProposals   == Using({"write"}, {None}) \cup Using({"delete", "http"}, Key)
FileProposals    == Using({"write", "delete"}, {None})
GateProposals    == Using({"write", "delete", "read"}, {None}) \ PrivateRest
LiveProposals    == Using({"write", "read", "http"}, Key)

RequestsAlike == Permutations(Req)
Symmetry == RequestsAlike \cup Permutations(Content) \cup Permutations(Path)
=============================================================================
