---------------------------- MODULE HttpGetProofs ----------------------------
(***************************************************************************)
(* Proofs about HttpGet, for every set of requests, URLs, credentials and  *)
(* addresses, every server, and every limit on the body.                   *)
(***************************************************************************)
EXTENDS HttpGet, TLAPS, SequenceTheorems, FiniteSetTheorems, WellFoundedInduction

-----------------------------------------------------------------------------
(* The inductive invariant.                                                *)

\* the call as it was decided and checked: URL, credential, address
Sound(r) ==
    /\ url[r] \in NormalUrl /\ cred[r] = CredentialFor(url[r])
    /\ peer[r] \in Address /\ ~Refused(peer[r], Host(url[r]))
    /\ peer[r] \in ServersOf(Host(url[r]))

\* Where the call stands says what has been settled: the URL, the addresses, the peer.
ChoiceOf(r) ==
    /\ pc[r] \in {"decided", "checked"} => url[r] \in NormalUrl
    /\ pc[r] = "checked" => /\ AllPass(addrs[r], Host(url[r]))
                            /\ cred[r] = CredentialFor(url[r])
    /\ pc[r] \in {"connected", "sent", "reading"} => Sound(r)

\* What has left the host is the decided call: "failed" is only said of one that has not
\* left whole, and nothing of it changes any more.
WireOf(r) ==
    /\ pc[r] \in {"sent", "reading"} => wire[r] = "whole"
    /\ wire[r] = "whole" => /\ pc[r] \in {"sent", "reading", "ended", "lost"}
                            /\ outcome[r] # "failed" /\ Sound(r)

\* An answer is read of a request that was taken, and one outcome is told.
ToldOf(r) ==
    /\ outcome[r] # "none" <=> pc[r] = "ended"
    /\ pc[r] = "reading" \/ outcome[r] = "succeeded" => Taken(r) # {}

\* Servers take whole requests as they were sent, each one once.
TakenInv ==
    /\ \A i \in DOMAIN received : LET r == received[i].rid
                                  IN  wire[r] = "whole" /\ received[i] = Message(r)
    /\ \A r \in Req : \A i, j \in Taken(r) : i = j

IInv == TypeOK /\ TakenInv /\ \A r \in Req : ChoiceOf(r) /\ WireOf(r) /\ ToldOf(r)

-----------------------------------------------------------------------------
(* What the operators give.                                                *)

\* sorted(addresses)[0]: the address connected to is one of those that were checked.
LEMMA MinIsMember ==
    ASSUME NEW A \in SUBSET Nat, A # {}
    PROVE  Min(A) \in A
<1>1. PICK m \in A : \A y \in A : ~(<<y, m>> \in OpToRel(<, Nat))
  BY NatLessThanWellFounded, WFMin
<1>2. ASSUME NEW y \in A PROVE m <= y
  <2>1. ~(y < m)
    BY <1>1 DEF OpToRel
  <2> QED
    BY <2>1
<1>3. \E x \in A : \A y \in A : x <= y
  BY <1>2
<1> QED
  BY <1>3 DEF Min

\* credential_for: the credential is None or one whose prefix names the URL's host.
LEMMA CredentialNamesHost ==
    ASSUME NEW u \in Url
    PROVE  /\ CredentialFor(u) \in Credential \cup {None}
           /\ CredentialFor(u) # None => Host(CredentialFor(u)) = Host(u)
<1> DEFINE fitting == {c \in Credential : IsPrefix(c, u)}
<1> DEFINE shortfall == {Len(u) - Len(c) : c \in fitting}
<1>0. /\ u \in Seq(Nat) /\ u # <<>> /\ Len(u) \in Nat
      /\ \A c \in fitting : c \in Seq(Nat) /\ c # <<>> /\ Len(c) \in Nat /\ Len(c) > 0 /\ Len(c) <= Len(u)
  BY HttpGetAssumption, EmptySeq DEF IsPrefix
<1>1. CredentialFor(u) = None \/ CredentialFor(u) \in fitting
  <2>1. CASE fitting = {}
    BY <2>1 DEF CredentialFor
  <2>2. CASE fitting # {}
    <3>1. shortfall \subseteq Nat /\ shortfall # {}
      BY <1>0, <2>2
    <3>2. PICK n \in shortfall : \A k \in shortfall : ~(<<k, n>> \in OpToRel(<, Nat))
      BY <3>1, NatLessThanWellFounded, WFMin
    <3>3. PICK c \in fitting : n = Len(u) - Len(c)
      OBVIOUS
    <3>4. ASSUME NEW d \in fitting PROVE Len(d) <= Len(c)
      <4>1. Len(u) - Len(d) \in shortfall /\ Len(u) - Len(d) \in Nat /\ Len(u) - Len(c) \in Nat
        BY <1>0
      <4>2. ~(Len(u) - Len(d) < Len(u) - Len(c))
        BY <3>2, <3>3, <4>1 DEF OpToRel
      <4> QED
        BY <1>0, <4>2
    <3>5. \E x \in fitting : \A d \in fitting : Len(d) <= Len(x)
      BY <3>4
    <3> QED
      BY <2>2, <3>5 DEF CredentialFor
  <2> QED
    BY <2>1, <2>2
<1>2. ASSUME NEW c \in fitting PROVE Host(c) = Host(u)
  <2>1. SubSeq(c, 1, Len(c))[1] = c[1] /\ SubSeq(u, 1, Len(c))[1] = u[1]
    BY <1>0, SubSeqProperties
  <2> QED
    BY <1>0, <2>1 DEF IsPrefix, Host
<1> QED
  BY <1>1, <1>2, HttpGetAssumption

\* What a server's taking a request adds to what was taken.
LEMMA TakenAfter ==
    ASSUME TypeOK, NEW r \in Req, ServerTakes(r), Message(r) \in Request
    PROVE  /\ received' \in Seq(Request) /\ Len(received) \in Nat
           /\ DOMAIN received = 1 .. Len(received) /\ DOMAIN received' = 1 .. Len(received) + 1
           /\ \A i \in DOMAIN received : received'[i] = received[i]
           /\ received'[Len(received) + 1] = Message(r)
           /\ \A s \in Req : Taken(s)' = IF s = r THEN {Len(received) + 1} ELSE Taken(s)
<1>1. /\ received \in Seq(Request) /\ received' = Append(received, Message(r))
      /\ Taken(r) = {} /\ Message(r).rid = r
  BY DEF TypeOK, ServerTakes, Message
<1>2. /\ received' \in Seq(Request) /\ Len(received) \in Nat
      /\ DOMAIN received = 1 .. Len(received) /\ DOMAIN received' = 1 .. Len(received) + 1
      /\ \A i \in DOMAIN received : received'[i] = received[i]
      /\ received'[Len(received) + 1] = Message(r)
  BY <1>1, AppendProperties, LenProperties
<1>3. ASSUME NEW s \in Req
      PROVE  Taken(s)' = IF s = r THEN {Len(received) + 1} ELSE Taken(s)
  BY <1>1, <1>2 DEF Taken
<1> QED
  BY <1>2, <1>3

\* How often a server took a call: never, or once.
LEMMA CallsCounted ==
    ASSUME TakenInv, NEW r \in Req
    PROVE  Cardinality(Taken(r)) = IF Taken(r) = {} THEN 0 ELSE 1
<1>1. CASE Taken(r) = {}
  BY <1>1, FS_EmptySet
<1>2. CASE Taken(r) # {}
  <2>1. PICK i \in Taken(r) : Taken(r) = {i}
    BY <1>2 DEF TakenInv
  <2> QED
    BY <1>2, <2>1, FS_Singleton
<1> QED
  BY <1>1, <1>2

-----------------------------------------------------------------------------
(* Every step keeps the invariant.                                         *)

\* At first no call is under way.
LEMMA InitHolds == Init => IInv
<1> SUFFICES ASSUME Init PROVE IInv
  OBVIOUS
<1>1. received = <<>> /\ received \in Seq(Request) /\ DOMAIN received = {}
  BY EmptySeq DEF Init
<1>2. TypeOK
  BY <1>1 DEF Init, TypeOK, PC, Outcome
<1>3. \A r \in Req : ChoiceOf(r) /\ WireOf(r)
  BY DEF Init, ChoiceOf, WireOf
<1>4. TakenInv /\ \A r \in Req : ToldOf(r)
  BY <1>1 DEF Init, TakenInv, ToldOf, Taken
<1> QED
  BY <1>2, <1>3, <1>4 DEF IInv

\* A step of one request's own: no other request moves, servers take nothing, and what
\* has left whole stays as it is.
OwnStep(r) ==
    /\ received' = received
    /\ \A s \in Req \ {r} :
          /\ pc'[s] = pc[s] /\ url'[s] = url[s] /\ addrs'[s] = addrs[s] /\ cred'[s] = cred[s]
          /\ peer'[s] = peer[s] /\ wire'[s] = wire[s] /\ outcome'[s] = outcome[s]
    /\ wire[r] = "whole" => Message(r)' = Message(r) /\ wire'[r] = "whole"

\* Such a step keeps the invariant when it keeps what concerns its own request.
LEMMA OwnStepKeeps ==
    ASSUME IInv, NEW r \in Req, OwnStep(r), TypeOK',
           ChoiceOf(r)', WireOf(r)', ToldOf(r)'
    PROVE  IInv'
<1>1. \A i \in DOMAIN received : received[i].rid \in Req
  <2>1. received \in Seq(Request)
    BY DEF IInv, TypeOK
  <2>2. \A i \in 1 .. Len(received) : received[i] \in Request
    BY <2>1, ElementOfSeq
  <2> QED
    BY <2>1, <2>2, LenProperties DEF Request
<1>2. \A s \in Req : Taken(s)' = Taken(s)
  BY DEF OwnStep, Taken
<1>3. \A s \in Req : wire[s] = "whole" => Message(s)' = Message(s) /\ wire'[s] = "whole"
  BY DEF OwnStep, Message
<1>4. TakenInv'
  <2>1. ASSUME NEW i \in DOMAIN received
        PROVE  wire'[received[i].rid] = "whole" /\ received[i] = Message(received[i].rid)'
    <3>1. PICK s \in Req : s = received[i].rid /\ wire[s] = "whole" /\ received[i] = Message(s)
      BY <1>1 DEF IInv, TakenInv
    <3>2. Message(s)' = Message(s) /\ wire'[s] = "whole"
      BY <1>3, <3>1
    <3>3. received'[i] = received[i]
      BY DEF OwnStep
    <3> QED
      BY <3>1, <3>2, <3>3 DEF Message
  <2>2. DOMAIN received' = DOMAIN received /\ \A i \in DOMAIN received : received'[i] = received[i]
    BY DEF OwnStep
  <2> QED
    BY <1>2, <2>1, <2>2 DEF IInv, TakenInv, Message
<1>5. ASSUME NEW s \in Req PROVE ChoiceOf(s)' /\ WireOf(s)' /\ ToldOf(s)'
  <2>1. CASE s = r
    BY <2>1
  <2>2. CASE s # r
    BY <1>2, <2>2 DEF IInv, OwnStep, ChoiceOf, WireOf, ToldOf, Sound
  <2> QED
    BY <2>1, <2>2
<1> QED
  BY <1>4, <1>5 DEF IInv

\* The steps up to the connection: nothing has left yet.
LEMMA BeforeSending ==
    ASSUME IInv, NEW r \in Req, Fetch(r) \/ Resolve(r) \/ Connect(r)
    PROVE  IInv'
<1> USE DEF TypeOK, PC, Outcome, Ends, choice, answer
<1>0. TypeOK /\ wire[r] # "whole" /\ url[r] \in Url \cup {None} /\ None \notin Address
      /\ (url[r] \in NormalUrl => url[r] \in Url)
  BY HttpGetAssumption DEF IInv, WireOf, Fetch, Resolve, Connect
<1>1. CASE Fetch(r)
  <2>1. TypeOK'
    <3>1. pc' \in [Req -> PC] /\ outcome' \in [Req -> Outcome]
      BY <1>0, <1>1 DEF Fetch
    <3>2. url' \in [Req -> Url \cup {None}]
      BY <1>0, <1>1 DEF Fetch
    <3> QED
      BY <1>0, <1>1, <3>1, <3>2 DEF Fetch
  <2>2. OwnStep(r)
    BY <1>0, <1>1 DEF Fetch, OwnStep
  <2>3. ChoiceOf(r)' /\ WireOf(r)' /\ ToldOf(r)'
    BY <1>0, <1>1 DEF Fetch, IInv, ChoiceOf, WireOf, ToldOf
  <2> QED
    BY <2>1, <2>2, <2>3, OwnStepKeeps
<1>2. CASE Resolve(r)
  <2>0. url[r] \in NormalUrl /\ CredentialFor(url[r]) \in Credential \cup {None}
    BY <1>0, <1>2, CredentialNamesHost DEF IInv, ChoiceOf, Resolve
  <2>1. TypeOK'
    <3>1. pc' \in [Req -> PC] /\ outcome' \in [Req -> Outcome]
      BY <1>0, <1>2 DEF Resolve, Raises
    <3>2. addrs' \in [Req -> SUBSET Address]
      BY <1>0, <1>2 DEF Resolve
    <3>3. cred' \in [Req -> Credential \cup {None}]
      BY <1>0, <1>2, <2>0 DEF Resolve
    <3> QED
      BY <1>0, <1>2, <3>1, <3>2, <3>3 DEF Resolve
  <2>2. OwnStep(r)
    BY <1>0, <1>2 DEF Resolve, Raises, OwnStep
  <2>3. ChoiceOf(r)' /\ WireOf(r)' /\ ToldOf(r)'
    BY <1>0, <1>2, <2>0 DEF Resolve, Raises, IInv, ChoiceOf, WireOf, ToldOf
  <2> QED
    BY <2>1, <2>2, <2>3, OwnStepKeeps
<1>3. CASE Connect(r)
  <2>0. /\ url[r] \in NormalUrl /\ cred[r] = CredentialFor(url[r])
        /\ \A a \in ConnectsTo(r) : a \in Address /\ ~Refused(a, Host(url[r]))
    <3>1. addrs[r] \in SUBSET Nat /\ addrs[r] \in SUBSET Address /\ pc[r] = "checked"
      BY <1>0, <1>3, HttpGetAssumption DEF Connect
    <3>2. /\ url[r] \in NormalUrl /\ cred[r] = CredentialFor(url[r])
          /\ AllPass(addrs[r], Host(url[r]))
      BY <3>1 DEF IInv, ChoiceOf
    <3>3. Min(addrs[r]) \in addrs[r]
      BY <3>1, <3>2, MinIsMember DEF AllPass
    <3> QED
      BY <3>1, <3>2, <3>3 DEF AllPass, ConnectsTo
  <2>1. TypeOK'
    <3>1. pc' \in [Req -> PC] /\ outcome' \in [Req -> Outcome]
      BY <1>0, <1>3 DEF Connect
    <3>2. peer' \in [Req -> Address \cup {None}]
      <4>1. peer' = peer \/ \E a \in Address : peer' = [peer EXCEPT ![r] = a]
        BY <1>3, <2>0 DEF Connect
      <4> QED
        BY <1>0, <4>1
    <3>3. UNCHANGED <<url, addrs, cred, wire, received, length, got, interim>>
      BY <1>3 DEF Connect
    <3> QED
      BY <1>0, <3>1, <3>2, <3>3
  <2>2. OwnStep(r)
    BY <1>0, <1>3 DEF Connect, OwnStep
  <2>3. ChoiceOf(r)' /\ WireOf(r)' /\ ToldOf(r)'
    BY <1>0, <1>3, <2>0 DEF Connect, IInv, ChoiceOf, WireOf, ToldOf, Sound
  <2> QED
    BY <2>1, <2>2, <2>3, OwnStepKeeps
<1> QED
  BY <1>1, <1>2, <1>3

\* The request leaves, whole or not.
LEMMA Sending ==
    ASSUME IInv, NEW r \in Req, Send(r) \/ SendRaises(r)
    PROVE  IInv'
<1> USE DEF TypeOK, PC, Outcome, Ends, choice, answer
<1>0. TypeOK /\ pc[r] = "connected" /\ wire[r] # "whole" /\ Sound(r) /\ outcome[r] = "none"
  BY DEF IInv, ChoiceOf, WireOf, ToldOf, Send, SendRaises
<1>1. TypeOK'
  <2>1. pc' \in [Req -> PC] /\ outcome' \in [Req -> Outcome]
    BY <1>0 DEF Send, SendRaises
  <2>2. wire' \in [Req -> {"none", "part", "whole"}]
    BY <1>0 DEF Send, SendRaises
  <2> QED
    BY <1>0, <2>1, <2>2 DEF Send, SendRaises
<1>2. OwnStep(r)
  BY <1>0 DEF Send, SendRaises, OwnStep
<1>3. ChoiceOf(r)' /\ WireOf(r)' /\ ToldOf(r)'
  BY <1>0 DEF Send, SendRaises, ChoiceOf, WireOf, ToldOf, Sound
<1> QED
  BY <1>1, <1>2, <1>3, OwnStepKeeps

\* The answer is read, or does not come, or nobody is left to read it.
LEMMA Reading ==
    ASSUME IInv, NEW r \in Req,
           Continue(r) \/ ReadHead(r) \/ ReadPiece(r) \/ Succeed(r) \/ NoAnswer(r) \/ Die(r)
    PROVE  IInv'
<1> USE DEF TypeOK, PC, Outcome, Ends, choice, answer, Follows, WithoutAnswer
<1>0. TypeOK /\ outcome[r] = "none" /\ ChoiceOf(r) /\ WireOf(r) /\ ToldOf(r) /\ MaxBody \in Nat
      /\ pc[r] \notin {"idle", "ended", "lost"}
  BY HttpGetAssumption DEF IInv, ToldOf, Continue, ReadHead, ReadPiece, Succeed, NoAnswer, Die
<1>1. TypeOK'
  <2>1. CASE Continue(r)
    <3>1. interim[r] \in {0, 1} => 1 - interim[r] \in {0, 1}
      OBVIOUS
    <3>2. interim' \in [Req -> {0, 1}]
      BY <1>0, <2>1, <3>1 DEF Continue
    <3> QED
      BY <1>0, <2>1, <3>2 DEF Continue
  <2>2. CASE ReadHead(r)
    BY <1>0, <2>2 DEF ReadHead
  <2>3. CASE ReadPiece(r)
    BY <1>0, <2>3 DEF ReadPiece
  <2>4. CASE Succeed(r) \/ NoAnswer(r) \/ Die(r)
    BY <1>0, <2>4 DEF Succeed, NoAnswer, Die
  <2> QED
    BY <2>1, <2>2, <2>3, <2>4
<1>2. OwnStep(r)
  BY <1>0 DEF Continue, ReadHead, ReadPiece, Succeed, NoAnswer, Die, OwnStep, Message
<1>3. ChoiceOf(r)' /\ WireOf(r)' /\ ToldOf(r)'
  <2>1. CASE Continue(r) \/ ReadPiece(r)
    BY <1>0, <2>1 DEF Continue, ReadPiece, ChoiceOf, WireOf, ToldOf, Sound, Taken
  <2>2. CASE ReadHead(r)
    BY <1>0, <2>2 DEF ReadHead, ChoiceOf, WireOf, ToldOf, Sound, Taken
  <2>3. CASE Succeed(r)
    BY <1>0, <2>3 DEF Succeed, ChoiceOf, WireOf, ToldOf, Sound, Taken
  <2>4. CASE NoAnswer(r)
    BY <1>0, <2>4 DEF NoAnswer, ChoiceOf, WireOf, ToldOf, Sound, Taken
  <2>5. CASE Die(r)
    BY <1>0, <2>5 DEF Die, ChoiceOf, WireOf, ToldOf, Sound, Taken
  <2> QED
    BY <2>1, <2>2, <2>3, <2>4, <2>5
<1> QED
  BY <1>1, <1>2, <1>3, OwnStepKeeps

\* A server takes a request, whatever became of the caller.
LEMMA Taking ==
    ASSUME IInv, NEW r \in Req, ServerTakes(r)
    PROVE  IInv'
<1>1. TypeOK /\ wire[r] = "whole" /\ Taken(r) = {} /\ Sound(r) /\ Message(r) \in Request
  <2>1. TypeOK /\ wire[r] = "whole" /\ Taken(r) = {} /\ Sound(r)
    BY DEF IInv, WireOf, ServerTakes
  <2> QED
    BY <2>1, HttpGetAssumption DEF Sound, Message, Request, TypeOK
<1>2. /\ received' \in Seq(Request) /\ Len(received) \in Nat
      /\ DOMAIN received = 1 .. Len(received) /\ DOMAIN received' = 1 .. Len(received) + 1
      /\ \A i \in DOMAIN received : received'[i] = received[i]
      /\ received'[Len(received) + 1] = Message(r)
      /\ \A s \in Req : Taken(s)' = IF s = r THEN {Len(received) + 1} ELSE Taken(s)
  BY <1>1, TakenAfter
<1>3. UNCHANGED <<pc, url, addrs, cred, peer, wire, length, got, interim, outcome>>
  BY DEF ServerTakes, choice, answer
<1>4. TypeOK'
  BY <1>1, <1>2, <1>3 DEF TypeOK
<1>5. TakenInv'
  <2>1. ASSUME NEW i \in DOMAIN received'
        PROVE  wire[received'[i].rid] = "whole" /\ received'[i] = Message(received'[i].rid)
    <3>1. CASE i = Len(received) + 1
      BY <1>1, <1>2, <3>1 DEF Message
    <3>2. CASE i # Len(received) + 1
      <4>1. i \in DOMAIN received /\ received'[i] = received[i]
        BY <1>2, <3>2
      <4> QED
        BY <4>1 DEF IInv, TakenInv
    <3> QED
      BY <3>1, <3>2
  <2>2. \A s \in Req : Message(s)' = Message(s)
    BY <1>3 DEF Message
  <2>3. \A s \in Req : \A i, j \in Taken(s)' : i = j
    BY <1>2 DEF IInv, TakenInv
  <2> QED
    BY <1>3, <2>1, <2>3 DEF TakenInv, Message
<1>6. ASSUME NEW s \in Req PROVE ChoiceOf(s)' /\ WireOf(s)' /\ ToldOf(s)'
  <2>1. Taken(s) # {} => Taken(s)' # {}
    BY <1>2
  <2> QED
    BY <1>3, <2>1 DEF IInv, ChoiceOf, WireOf, ToldOf, Sound
<1> QED
  BY <1>4, <1>5, <1>6 DEF IInv

\* IInv is inductive.
LEMMA StepKeeps == IInv /\ [Next]_vars => IInv'
<1> SUFFICES ASSUME IInv, [Next]_vars PROVE IInv'
  OBVIOUS
<1>1. ASSUME NEW r \in Req, Thread(r) \/ ServerTakes(r) \/ Die(r) PROVE IInv'
  BY <1>1, BeforeSending, Sending, Reading, Taking DEF Thread
<1>2. CASE UNCHANGED vars
  BY <1>2 DEF vars, IInv, TypeOK, TakenInv, ChoiceOf, WireOf, ToldOf, Sound, Taken, Message
<1> QED
  BY <1>1, <1>2 DEF Next

-----------------------------------------------------------------------------
(* What the specification has.                                             *)

\* The invariant of fetch: what left the host is the decided call, and nobody is told
\* otherwise.
THEOREM Invariance == Spec => []IInv
<1> QED
  BY InitHolds, StepKeeps, PTL DEF Spec

\* Servers only ever receive the decided URL, at a permitted address that holds the
\* host's certificate, with a credential registered for that host: whatever the resolver
\* answers later, and whatever a redirect asks for.
THEOREM DecidedCallOnly == Spec => []OnlyTheDecidedCall
<1>1. IInv => OnlyTheDecidedCall
  <2> SUFFICES ASSUME IInv, NEW i \in DOMAIN received
               PROVE  LET m == received[i]
                      IN  /\ m.url = url[m.rid] /\ m.url \in NormalUrl
                          /\ ~Refused(m.address, Host(m.url))
                          /\ m.address \in ServersOf(Host(m.url))
                          /\ m.credential # None => Host(m.credential) = Host(m.url)
    BY DEF OnlyTheDecidedCall
  <2>1. received[i].rid \in Req
    <3>1. received \in Seq(Request)
      BY DEF IInv, TypeOK
    <3>2. received[i] \in Request
      BY <3>1, ElementOfSeq, LenProperties
    <3> QED
      BY <3>2 DEF Request
  <2>2. PICK r \in Req : received[i] = Message(r) /\ wire[r] = "whole"
    BY <2>1 DEF IInv, TakenInv
  <2>3. Sound(r)
    BY <2>2 DEF IInv, WireOf
  <2>4. url[r] \in Url /\ url[r] \in NormalUrl
    BY <2>3, HttpGetAssumption DEF Sound
  <2> QED
    BY <2>2, <2>3, <2>4, CredentialNamesHost DEF Message, Sound
<1> QED
  BY <1>1, Invariance, PTL

\* fetch implements the call the broker assumes (RemoteCall): every step of a request is
\* a step the broker's model of the remote allows, or none at all.
THEOREM Implementation == Spec => ImplementsRemoteCall
<1>1. Init => Remote!RInit
  <2> SUFFICES ASSUME Init PROVE Remote!RInit
    OBVIOUS
  <2>1. \A r \in Req : Taken(r) = {} /\ Cardinality(Taken(r)) = 0
    BY FS_EmptySet DEF Init, Taken
  <2> QED
    BY <2>1 DEF Init, Remote!RInit
<1>2. IInv /\ [Next]_vars => [Remote!RNext]_(Remote!rvars)
  <2> SUFFICES ASSUME IInv, [Next]_vars PROVE [Remote!RNext]_(Remote!rvars)
    OBVIOUS
  <2> DEFINE calls == [r \in Req |-> Cardinality(Taken(r))]
  <2>0. \A r \in Req : Cardinality(Taken(r)) = IF Taken(r) = {} THEN 0 ELSE 1
    BY CallsCounted DEF IInv
  <2>1. ASSUME NEW r \in Req, ServerTakes(r) PROVE Remote!CarryOut(r)
    <3>1. TypeOK /\ wire[r] = "whole" /\ Taken(r) = {} /\ outcome[r] # "failed" /\ Sound(r)
      BY <2>1 DEF IInv, WireOf, ServerTakes
    <3>2. Message(r) \in Request
      BY <3>1, HttpGetAssumption DEF Sound, Message, Request, TypeOK
    <3>3. \A s \in Req : Taken(s)' = IF s = r THEN {Len(received) + 1} ELSE Taken(s)
      BY <2>1, <3>1, <3>2, TakenAfter
    <3>4. \A s \in Req : Cardinality(Taken(s)') = IF s = r THEN 1 ELSE Cardinality(Taken(s))
      BY <3>3, FS_Singleton
    <3>5. calls[r] = 0 /\ outcome' = outcome
      BY <2>0, <2>1, <3>1 DEF ServerTakes
    <3> QED
      BY <3>1, <3>4, <3>5 DEF Remote!CarryOut
  <2>2. ASSUME NEW r \in Req, received' = received PROVE calls' = calls
    BY <2>2 DEF Taken
  <2>3. ASSUME NEW r \in Req, NEW how \in {"failed", "unknown", "succeeded"},
               Ends(r, how), pc[r] # "ended", received' = received,
               how = "succeeded" => Taken(r) # {}, how = "failed" => wire[r] # "whole"
        PROVE  Remote!Tell(r, how)
    <3>1. outcome[r] = "none" /\ outcome' = [outcome EXCEPT ![r] = how]
      BY <2>3 DEF IInv, ToldOf, Ends
    <3>2. how = "failed" => Taken(r) = {}
      BY <2>3 DEF IInv, TakenInv, Taken
    <3> QED
      BY <2>0, <2>2, <2>3, <3>1, <3>2 DEF Remote!Tell
  <2>4. ASSUME NEW r \in Req, Thread(r) \/ Die(r)
        PROVE  UNCHANGED (Remote!rvars) \/ \E how \in {"failed", "unknown", "succeeded"} : Remote!Tell(r, how)
    <3> DEFINE Silent == received' = received /\ outcome' = outcome
    <3> DEFINE Told(how) ==
          /\ Ends(r, how) /\ pc[r] # "ended" /\ received' = received
          /\ how = "succeeded" => Taken(r) # {}
          /\ how = "failed" => wire[r] # "whole"
    <3>1. wire[r] = "whole" => pc[r] \notin {"idle", "decided", "checked", "connected"}
      BY DEF IInv, WireOf
    <3>2. pc[r] = "reading" => Taken(r) # {}
      BY DEF IInv, ToldOf
    <3>3. Silent \/ \E how \in {"failed", "unknown", "succeeded"} : Told(how)
      <4>1. CASE Fetch(r)
        BY <3>1, <4>1 DEF Fetch
      <4>2. CASE Resolve(r) \/ Connect(r)
        BY <3>1, <4>2 DEF Resolve, Connect
      <4>3. CASE Send(r)
        BY <4>3 DEF Send
      <4>4. CASE SendRaises(r)
        BY <3>1, <4>4 DEF SendRaises
      <4>5. CASE Continue(r) \/ ReadHead(r) \/ ReadPiece(r) \/ Die(r)
        BY <4>5 DEF Continue, ReadHead, ReadPiece, Die
      <4>6. CASE Succeed(r)
        BY <3>2, <4>6 DEF Succeed, Follows
      <4>7. CASE NoAnswer(r)
        BY <4>7 DEF NoAnswer, WithoutAnswer
      <4> QED
        BY <2>4, <4>1, <4>2, <4>3, <4>4, <4>5, <4>6, <4>7 DEF Thread
    <3>4. Silent => UNCHANGED (Remote!rvars)
      BY <2>2 DEF Remote!rvars
    <3> QED
      BY <2>3, <3>3, <3>4
  <2>5. CASE UNCHANGED vars
    BY <2>5 DEF vars, Remote!rvars, Taken
  <2> QED
    BY <2>1, <2>4, <2>5 DEF Next, Remote!RNext
<1> QED
  BY <1>1, <1>2, Invariance, PTL DEF Spec, ImplementsRemoteCall, Remote!RSpec
=============================================================================
