----------------------------- MODULE MCEvidence -----------------------------
(* Instances of Evidence for TLC: an audit beside a broker that serves.     *)
EXTENDS Evidence, TLC

CONSTANTS a, b

Using(tools, contents, ks) ==
    {q \in Proposal : q.inv.tool \in tools /\ q.inv.content \in contents /\ q.key \in ks}

AuditProposals == \* two contents, a delete
    Using({"write"}, {a}, {None}) \cup Using({"write"}, {b}, Key) \cup Using({"delete"}, {None}, {None})
=============================================================================
