------------------------------- MODULE HttpGet -------------------------------
(***************************************************************************)
(* The network side of the http_get tool (darm_guard/http_get.py:fetch and *)
(* _execute_http in broker.py): one GET of a decided URL, step by step,    *)
(* against a resolver that answers differently each time, servers that     *)
(* answer late, partly or not at all, and a process that dies.             *)
(*                                                                         *)
(* Covered: every return of fetch and the outcome it carries, the check of *)
(* all resolved addresses, the choice of the credential, the moment the    *)
(* request counts as sent, interim answers, the limit on the body, and     *)
(* redirects.                                                              *)
(*                                                                         *)
(* Abstracted: a URL is its host and path segments, in normal form or not; *)
(* the text of bodies and headers (and what is withheld of them); a body   *)
(* arrives in a few pieces; TLS accepts exactly the host's own servers.    *)
(* M_ operators are mutated forms of the one that follows.                 *)
(***************************************************************************)
EXTENDS Integers, Sequences, SequencesExt, FiniteSetsExt

CONSTANTS
    Req,
    Url,            \* the URLs of this instance: sequences, the host first
    NormalUrl,      \* those in normal form (normal_url)
    Credential,     \* the principal's credentials: prefixes, in normal form
    None,
    Address,        \* numbers, in the order sorted() gives them
    Private,        \* loopback, link-local, private, ... addresses
    AllowPrivate,   \* cfg.http allow_private: hosts and addresses
    ServersOf(_),   \* the addresses that hold a certificate for a host
    MaxBody         \* pieces of a body that are returned

ASSUME HttpGetAssumption ==
    /\ NormalUrl \subseteq Url /\ \A u \in Url : u \in Seq(Nat) /\ u # <<>>
    /\ Credential \subseteq Seq(Nat) \ {<<>>} /\ None \notin Credential
    /\ Address \subseteq Nat /\ None \notin Address /\ Private \subseteq Address
    /\ MaxBody \in Nat

Host(url) == Head(url)
Outcome   == {"none", "failed", "unknown", "succeeded"}
PC        == {"idle", "decided", "checked", "connected", "sent", "reading", "ended", "lost"}
Request   == [rid : Req, url : Url, address : Address, credential : Credential \cup {None}]

VARIABLES
    pc,
    url,        \* the decided URL
    addrs,      \* what the resolver answered
    cred,       \* the credential attached, or None
    peer,       \* the address connected to
    wire,       \* network: how much of the request has left: none, part or whole
    received,   \* remote: the requests servers have taken, in order
    length,     \* remote: pieces of the answer's body as announced
    got,        \* pieces read of it
    interim,    \* parity of the 100 Continue answers read
    outcome     \* what fetch returned

vars == <<pc, url, addrs, cred, peer, wire, received, length, got, interim, outcome>>
choice == <<url, addrs, cred>>
answer == <<length, got, interim>>

TypeOK ==
    /\ pc \in [Req -> PC] /\ url \in [Req -> Url \cup {None}]
    /\ addrs \in [Req -> SUBSET Address] /\ cred \in [Req -> Credential \cup {None}]
    /\ peer \in [Req -> Address \cup {None}]
    /\ wire \in [Req -> {"none", "part", "whole"}]
    /\ received \in Seq(Request)
    /\ length \in [Req -> Nat] /\ got \in [Req -> Nat] /\ interim \in [Req -> {0, 1}]
    /\ outcome \in [Req -> Outcome]

Init ==
    /\ pc = [r \in Req |-> "idle"] /\ url = [r \in Req |-> None]
    /\ addrs = [r \in Req |-> {}] /\ cred = [r \in Req |-> None]
    /\ peer = [r \in Req |-> None] /\ wire = [r \in Req |-> "none"]
    /\ received = <<>>
    /\ length = [r \in Req |-> 0] /\ got = length /\ interim = length
    /\ outcome = [r \in Req |-> "none"]

-----------------------------------------------------------------------------
Ends(r, how) == /\ pc' = [pc EXCEPT ![r] = "ended"]
                /\ outcome' = [outcome EXCEPT ![r] = how]

\* the broker calls fetch with the decided URL; one out of normal form is refused again
Fetch(r) ==
    /\ pc[r] = "idle"
    /\ \E u \in Url :
          /\ url' = [url EXCEPT ![r] = u]
          /\ IF u \in NormalUrl THEN pc' = [pc EXCEPT ![r] = "decided"] /\ UNCHANGED outcome
                                ELSE Ends(r, "failed")
    /\ UNCHANGED <<addrs, cred, peer, wire, received, answer>>

\* address_refused: a private address, unless the principal names it or the host
Refused(a, host) == a \in Private /\ {a, host} \cap AllowPrivate = {}

\* every answer must pass
AllPass(A, host) == A # {} /\ \A a \in A : ~Refused(a, host)

\* credential_for: the longest prefix of the URL among the principal's credentials
CredentialFor(u) ==
    LET fitting == {c \in Credential : IsPrefix(c, u)}
    IN  IF fitting = {} THEN None
        ELSE CHOOSE c \in fitting : \A d \in fitting : Len(d) <= Len(c)

\* a credential's file that is not text: fetch raises, and the call has no outcome
Raises(r) == CredentialFor(url[r]) # None /\ pc' = [pc EXCEPT ![r] = "lost"]

\* name resolution, the checks of its answer, and the credential's file
Resolve(r) ==
    /\ pc[r] = "decided"
    /\ \/ Ends(r, "failed") /\ UNCHANGED <<addrs, cred>>    \* no answer, or the file is unreadable
       \/ \E A \in SUBSET Address :
             /\ addrs' = [addrs EXCEPT ![r] = A]
             /\ IF AllPass(A, Host(url[r]))
                THEN /\ cred' = [cred EXCEPT ![r] = CredentialFor(url[r])]
                     /\ pc' = [pc EXCEPT ![r] = "checked"] /\ UNCHANGED outcome
                ELSE Ends(r, "failed") /\ UNCHANGED cred
       \/ Raises(r) /\ UNCHANGED <<addrs, cred, outcome>>
    /\ UNCHANGED <<url, peer, wire, received, answer>>

\* the connection is to a checked address, not to whatever the name means by now
ConnectsTo(r) == {Min(addrs[r])}

\* TCP and TLS: refused, unreachable, or a server without the host's certificate
Connect(r) ==
    /\ pc[r] = "checked"
    /\ \/ Ends(r, "failed") /\ UNCHANGED peer
       \/ \E a \in ConnectsTo(r) \cap ServersOf(Host(url[r])) :
             /\ peer' = [peer EXCEPT ![r] = a]
             /\ pc' = [pc EXCEPT ![r] = "connected"] /\ UNCHANGED outcome
    /\ UNCHANGED <<choice, wire, received, answer>>

-----------------------------------------------------------------------------
(* The request and its answer.                                             *)

\* putrequest ... endheaders: everything has left, and only then the call counts as sent
Send(r) ==
    /\ pc[r] = "connected"
    /\ wire' = [wire EXCEPT ![r] = "whole"] /\ pc' = [pc EXCEPT ![r] = "sent"]
    /\ UNCHANGED <<choice, peer, received, answer, outcome>>

\* an exception on the way: nothing has left, or some bytes have
SendRaises(r) ==
    /\ pc[r] = "connected"
    /\ \E part \in {"none", "part"} : wire' = [wire EXCEPT ![r] = part]
    /\ Ends(r, "failed")
    /\ UNCHANGED <<choice, peer, received, answer>>

Message(r) == [rid |-> r, url |-> url[r], address |-> peer[r], credential |-> cred[r]]
Taken(r)   == {i \in DOMAIN received : received[i].rid = r}

\* the server takes a complete request, whether or not somebody still waits
ServerTakes(r) ==
    /\ wire[r] = "whole" /\ Taken(r) = {}
    /\ received' = Append(received, Message(r))
    /\ UNCHANGED <<pc, choice, peer, wire, answer, outcome>>

\* getresponse skips any number of 100 Continue answers
Continue(r) ==
    /\ pc[r] = "sent" /\ Taken(r) # {}
    /\ interim' = [interim EXCEPT ![r] = 1 - @]
    /\ UNCHANGED <<pc, choice, peer, wire, received, length, got, outcome>>

\* the head of the answer: any status, and how long the body will be
ReadHead(r) ==
    /\ pc[r] = "sent" /\ Taken(r) # {}
    /\ \E n \in 0..(MaxBody + 2) : length' = [length EXCEPT ![r] = n]
    /\ pc' = [pc EXCEPT ![r] = "reading"]
    /\ UNCHANGED <<choice, peer, wire, received, got, interim, outcome>>

\* resp.read(max_body + 1): at most one piece more than is returned
ReadPiece(r) ==
    /\ pc[r] = "reading" /\ got[r] < length[r] /\ got[r] < MaxBody + 1
    /\ got' = [got EXCEPT ![r] = @ + 1]
    /\ UNCHANGED <<pc, choice, peer, wire, received, length, interim, outcome>>

\* a redirect is part of the answer: it is reported, not followed
M_FollowsRedirect(r) ==
    \E u \in NormalUrl \ {url[r]} : received' = Append(received, [Message(r) EXCEPT !.url = u])
Follows(r) == UNCHANGED received

\* the read returns: the limit is reached, or the stream has ended. A read with a size
\* does not notice that less came than was announced.
Succeed(r) ==
    /\ pc[r] = "reading" /\ Follows(r) /\ Ends(r, "succeeded")
    /\ UNCHANGED <<choice, peer, wire, answer>>

Truncated(r) == got[r] > MaxBody

\* any exception once the request counts as sent: timeout, reset, not HTTP
M_NoAnswerNoEffect(r) == IF pc[r] = "sent" THEN "failed" ELSE "unknown"
WithoutAnswer(r) == "unknown"

NoAnswer(r) ==
    /\ pc[r] \in {"sent", "reading"}
    /\ Ends(r, WithoutAnswer(r))
    /\ UNCHANGED <<choice, peer, wire, received, answer>>

\* the process dies: the connection is gone, what has left is not
Die(r) ==
    /\ pc[r] \notin {"idle", "ended", "lost"}
    /\ pc' = [pc EXCEPT ![r] = "lost"]
    /\ UNCHANGED <<choice, peer, wire, received, answer, outcome>>

Thread(r) ==
    \/ Fetch(r) \/ Resolve(r) \/ Connect(r) \/ Send(r) \/ SendRaises(r)
    \/ Continue(r) \/ ReadHead(r) \/ ReadPiece(r) \/ Succeed(r) \/ NoAnswer(r)

Next == \E r \in Req : Thread(r) \/ ServerTakes(r) \/ Die(r)

Spec == Init /\ [][Next]_vars

\* each call of the socket returns within the timeout; servers owe nothing
FairSpec == Spec /\ \A r \in Req : WF_vars(Thread(r))

-----------------------------------------------------------------------------
(* Properties.                                                             *)

\* fetch implements the call the broker assumes: "failed" is never said of a request a
\* server took or takes later, "succeeded" only of one it took, and one decided call is
\* at most one request, whatever raises where and also after the process died.
Remote == INSTANCE RemoteCall WITH
    calls <- [r \in Req |-> Cardinality(Taken(r))], said <- outcome
ImplementsRemoteCall == Remote!RSpec

\* What servers ever receive is the decided URL, at an address the principal permits
\* that holds the host's certificate, with a credential registered for that host: a
\* later answer of the resolver and a redirect change nothing.
OnlyTheDecidedCall ==
    \A i \in DOMAIN received :
        LET m == received[i]
        IN  /\ m.url = url[m.rid] /\ m.url \in NormalUrl
            /\ ~Refused(m.address, Host(m.url)) /\ m.address \in ServersOf(Host(m.url))
            /\ m.credential # None => Host(m.credential) = Host(m.url)

\* A call returns, with servers that stall or stop anywhere, unless one sends 100
\* Continue without end: no timeout covers a sequence of answers in time.
EndsUnlessContinued ==
    \A r \in Req : pc[r] = "decided" ~>
        \/ pc[r] \in {"ended", "lost"}
        \/ []<>(interim[r] = 0) /\ []<>(interim[r] = 1)

-----------------------------------------------------------------------------
(* What the documents say and the code does not do: each is refuted.       *)

\* assurance/claims.json:897: a call without a complete answer is recorded as unknown.
SucceededIsComplete ==
    \A r \in Req : outcome[r] = "succeeded" /\ ~Truncated(r) => got[r] = length[r]

\* http_get.py:15: fetch "bounds the body and the time".
EveryFetchEnds == \A r \in Req : pc[r] = "decided" ~> pc[r] \in {"ended", "lost"}

=============================================================================
