---------------------------- MODULE GuardsProofs ----------------------------
(***************************************************************************)
(* Proofs about Guards and the client of Kernel below it, for every set of *)
(* calls and tools, every choice of kernel faults, and any number of       *)
(* threads in flight.                                                      *)
(***************************************************************************)
EXTENDS Guards, TLAPS, SequenceTheorems, FiniteSetTheorems, WellFoundedInduction

-----------------------------------------------------------------------------
(* The client of the kernel.                                               *)

PCs     == {"idle", "locked", "ready", "sent", "read", "closing", "forgetting", "done"}
Holding == {"locked", "ready", "sent"}

\* lines that do not lie about the kernel: a reply that names a call has its decision
Truthful == {l \in Line : l.kind = "object" => (l.admit <=> l.nonce \in Admissible)}

\* who holds the lock, and that "sent" means a process, or one that is gone
LockInv ==
    /\ pc \in [Call -> PCs]
    /\ \A c \in Call : pc[c] \in Holding => lock = c
    /\ \A c \in Call : pc[c] = "sent" => current \in Proc \cup {None}

\* every line on its way to a caller is true
LineInv ==
    /\ input \in [Proc -> Seq(Call)] /\ pipe \in [Proc -> Seq(Truthful)]
    /\ buffer \in Seq(Truthful)
    /\ reply \in [Call -> Truthful \cup {None}]
    /\ \A c \in Call : pc[c] = "read" => reply[c] \in Truthful

AnswerInv ==
    /\ answer \in [Call -> {"none", "admit", "reject"}]
    /\ \A c \in Call : pc[c] = "done" <=> answer[c] # "none"
    /\ AdmitsAreOwn

ClientInv == LockInv /\ LineInv /\ AnswerInv

\* What a kernel writes is true, or names nobody.
LEMMA KernelLines ==
    /\ \A c \in Call : Object(c) \in Truthful
    /\ \A k \in {"noise", "value", "half"} : Other(k) \in Truthful
<1>1. ASSUME NEW c \in Call PROVE Object(c) \in Truthful
  <2>1. (c \in Admissible) \in BOOLEAN
    OBVIOUS
  <2> QED
    BY <2>1 DEF Object, Truthful, Line
<1>2. ASSUME NEW k \in {"noise", "value", "half"} PROVE Other(k) \in Truthful
  BY DEF Other, Truthful, Line
<1> QED
  BY <1>1, <1>2

\* A client starts free, with nothing buffered and nothing answered.
LEMMA ClientInit == Init => ClientInv
<1> SUFFICES ASSUME Init PROVE ClientInv
  OBVIOUS
<1>1. <<>> \in Seq(Call) /\ <<>> \in Seq(Truthful)
  BY EmptySeq
<1> QED
  BY <1>1 DEF Init, ClientInv, LockInv, LineInv, AnswerInv, AdmitsAreOwn, PCs, Holding

\* Only the thread that holds the lock goes on between "locked" and "sent", and only a
\* start gives the client another process.
LEMMA LockStep ==
    ASSUME LockInv, [Next]_vars
    PROVE  LockInv'
<1> USE KernelAssumption DEF LockInv, PCs, Holding
<1>1. ASSUME NEW c \in Call, Acquire(c) PROVE LockInv'
  BY <1>1 DEF Acquire, Goes
<1>2. ASSUME NEW c \in Call, EnsureStarted(c) PROVE LockInv'
  BY <1>2 DEF EnsureStarted, Goes
<1>3. ASSUME NEW c \in Call, WriteRequest(c) PROVE LockInv'
  BY <1>3 DEF WriteRequest, Goes, Running
<1>4. ASSUME NEW c \in Call, StartFails(c) \/ ProcessGone(c) \/ Timeout(c) \/ ReadFails(c)
      PROVE  LockInv'
  <2>1. /\ pc[c] \in {"locked", "ready", "sent"} /\ pc' = [pc EXCEPT ![c] = "done"]
        /\ lock' = None /\ current' = None
    BY <1>4 DEF StartFails, ProcessGone, Timeout, TimesOut, ReadFails, Abandoned, Close,
                RejectUnlocked, Returns
  <2> QED
    BY <2>1
<1>5. ASSUME NEW c \in Call, ReadReply(c) PROVE LockInv'
  BY <1>5 DEF ReadReply, Goes
<1>6. ASSUME NEW c \in Call, Decide(c) PROVE LockInv'
  <2>1. pc[c] = "read" /\ pc' = [pc EXCEPT ![c] = "done"] /\ UNCHANGED <<lock, current>>
    BY <1>6 DEF Decide, Returns
  <2> QED
    BY <2>1
<1>7. ASSUME NEW c \in Call, KillLate(c) PROVE LockInv'
  BY <1>7 DEF KillLate
<1>8. ASSUME NEW c \in Call, ForgetLate(c) PROVE LockInv'
  BY <1>8 DEF ForgetLate, Returns
<1>9. ASSUME NEW p \in Proc, Kernel(p) \/ Hangs(p) \/ Dies(p) PROVE LockInv'
  BY <1>9 DEF Kernel, Hangs, Dies, client
<1>10. CASE UNCHANGED vars
  BY <1>10 DEF vars, client
<1> QED
  BY <1>1, <1>2, <1>3, <1>4, <1>5, <1>6, <1>7, <1>8, <1>9, <1>10 DEF Next, Decides

\* What readline takes from the buffer or the pipe is a line of the buffer or the pipe.
LEMMA TakenLine ==
    ASSUME LineInv, current \in Proc, buffer # <<>> \/ pipe[current] # <<>>, TakeLine
    PROVE  /\ NextLine \in Truthful
           /\ buffer' \in Seq(Truthful) /\ pipe' \in [Proc -> Seq(Truthful)]
<1>1. CASE buffer # <<>>
  <2>1. Head(buffer) \in Truthful /\ Tail(buffer) \in Seq(Truthful)
    BY <1>1, HeadTailProperties DEF LineInv
  <2> QED
    BY <1>1, <2>1 DEF NextLine, TakeLine, LineInv
<1>2. CASE buffer = <<>>
  <2>1. pipe[current] \in Seq(Truthful) /\ pipe[current] # <<>>
    BY <1>2 DEF LineInv
  <2>2. Head(pipe[current]) \in Truthful /\ Tail(pipe[current]) \in Seq(Truthful)
    BY <2>1, HeadTailProperties
  <2>3. <<>> \in Seq(Truthful)
    BY EmptySeq
  <2> QED
    BY <1>2, <2>2, <2>3 DEF NextLine, TakeLine, LineInv
<1> QED
  BY <1>1, <1>2

\* Whatever the kernel does wrong and whoever reads what was meant for another call, no
\* line claims an admission the kernel did not give.
LEMMA LineStep ==
    ASSUME LockInv, LineInv, [Next]_vars
    PROVE  LineInv'
<1> USE KernelAssumption DEF LineInv
<1>0. <<>> \in Seq(Truthful)
  BY EmptySeq
<1>1. ASSUME NEW c \in Call, Acquire(c) PROVE LineInv'
  BY <1>1 DEF Acquire, Goes, LockInv, PCs
<1>2. ASSUME NEW c \in Call, EnsureStarted(c) PROVE LineInv'
  BY <1>0, <1>2 DEF EnsureStarted, KeepProcess, Goes, LockInv, PCs
<1>3. ASSUME NEW c \in Call, WriteRequest(c) PROVE LineInv'
  <2>1. current \in Proc /\ Append(input[current], c) \in Seq(Call)
    BY <1>3, AppendProperties DEF WriteRequest, Running
  <2> QED
    BY <1>3, <2>1 DEF WriteRequest, Goes, LockInv, PCs
<1>4. ASSUME NEW c \in Call, StartFails(c) \/ ProcessGone(c) \/ Timeout(c) \/ ReadFails(c)
      PROVE  LineInv'
  <2>1. /\ pc' = [pc EXCEPT ![c] = "done"] /\ buffer' = <<>>
        /\ UNCHANGED <<input, pipe, reply>>
    BY <1>4 DEF StartFails, ProcessGone, Timeout, ReadFails, Abandoned, Close, RejectUnlocked,
                Returns
  <2> QED
    BY <1>0, <2>1 DEF LockInv, PCs
<1>5. ASSUME NEW c \in Call, ReadReply(c) PROVE LineInv'
  <2>1. current \in Proc
    BY <1>5 DEF ReadReply, Readable, Goes, LockInv
  <2>2. /\ NextLine \in Truthful
        /\ buffer' \in Seq(Truthful) /\ pipe' \in [Proc -> Seq(Truthful)]
    BY <1>5, <2>1, TakenLine DEF ReadReply
  <2> QED
    BY <1>5, <2>2 DEF ReadReply, Goes, LockInv, PCs
<1>6. ASSUME NEW c \in Call, Decide(c) \/ ForgetLate(c) PROVE LineInv'
  <2>1. pc' = [pc EXCEPT ![c] = "done"] /\ UNCHANGED <<input, pipe, buffer, reply>>
    BY <1>6 DEF Decide, ForgetLate, Returns
  <2> QED
    BY <2>1 DEF LockInv, PCs
<1>7. ASSUME NEW c \in Call, KillLate(c) PROVE LineInv'
  BY <1>7 DEF KillLate, LockInv, PCs
<1>8. ASSUME NEW p \in Proc, Kernel(p) PROVE LineInv'
  <2> DEFINE c == Head(input[p])
  <2>1. c \in Call /\ Tail(input[p]) \in Seq(Call)
    BY <1>8, HeadTailProperties DEF Kernel
  <2>2. PICK said \in Seq(Truthful) : pipe' = [pipe EXCEPT ![p] = @ \o said]
    <3>1. <<Object(c)>> \in Seq(Truthful) /\ <<Object(c), Object(c)>> \in Seq(Truthful)
      BY <2>1, KernelLines
    <3>2. \A k \in {"noise", "value", "half"} : <<Other(k)>> \in Seq(Truthful)
      BY KernelLines
    <3> QED
      BY <1>8, <3>1, <3>2 DEF Kernel
  <2>3. pipe[p] \o said \in Seq(Truthful)
    BY <2>2, ConcatProperties
  <2> QED
    BY <1>8, <2>1, <2>2, <2>3 DEF Kernel, client
<1>9. ASSUME NEW p \in Proc, Hangs(p) \/ Dies(p) PROVE LineInv'
  BY <1>9 DEF Hangs, Dies, client
<1>10. CASE UNCHANGED vars
  BY <1>10 DEF vars, client
<1> QED
  BY <1>1, <1>2, <1>3, <1>4, <1>5, <1>6, <1>7, <1>8, <1>9, <1>10 DEF Next, Decides

\* An answer is given once, and an admission only for a line that names its call.
LEMMA AnswerStep ==
    ASSUME LockInv, LineInv, AnswerInv, [Next]_vars
    PROVE  AnswerInv'
<1> USE KernelAssumption DEF LockInv, PCs, AnswerInv, AdmitsAreOwn
<1>1. ASSUME NEW c \in Call, Acquire(c) \/ EnsureStarted(c) \/ WriteRequest(c) \/ ReadReply(c)
      PROVE  AnswerInv'
  <2>1. /\ answer' = answer
        /\ \E from, to \in PCs \ {"done"} : pc[c] = from /\ pc' = [pc EXCEPT ![c] = to]
    BY <1>1 DEF Acquire, EnsureStarted, WriteRequest, ReadReply, Goes
  <2> QED
    BY <2>1
<1>2. ASSUME NEW c \in Call,
             StartFails(c) \/ ProcessGone(c) \/ Timeout(c) \/ ReadFails(c) \/ ForgetLate(c)
      PROVE  AnswerInv'
  <2>1. pc' = [pc EXCEPT ![c] = "done"] /\ answer' = [answer EXCEPT ![c] = "reject"]
    BY <1>2 DEF StartFails, ProcessGone, Timeout, ReadFails, ForgetLate, RejectUnlocked, Returns
  <2> QED
    BY <2>1
<1>3. ASSUME NEW c \in Call, Decide(c) PROVE AnswerInv'
  <2>1. /\ pc' = [pc EXCEPT ![c] = "done"]
        /\ \E a \in {"admit", "reject"} :
              answer' = [answer EXCEPT ![c] = a] /\ (a = "admit" => c \in Admissible)
    <3>1. pc[c] = "read" /\ reply[c] \in Truthful
      BY <1>3 DEF Decide, LineInv
    <3>2. reply[c].kind = "object" /\ reply[c].nonce = c /\ reply[c].admit => c \in Admissible
      BY <3>1 DEF Truthful
    <3> QED
      BY <1>3, <3>1, <3>2 DEF Decide, Returns, AnswersThis
  <2> QED
    BY <2>1
<1>4. ASSUME NEW c \in Call, KillLate(c) PROVE AnswerInv'
  BY <1>4 DEF KillLate
<1>5. ASSUME NEW p \in Proc, Kernel(p) \/ Hangs(p) \/ Dies(p) PROVE AnswerInv'
  BY <1>5 DEF Kernel, Hangs, Dies, client
<1>6. CASE UNCHANGED vars
  BY <1>6 DEF vars, client
<1> QED
  BY <1>1, <1>2, <1>3, <1>4, <1>5, <1>6 DEF Next, Decides

\* A step of the client, of the kernel or of the calling threads keeps the client's invariant.
LEMMA ClientStep ==
    ASSUME ClientInv, [Next]_vars
    PROVE  ClientInv'
BY LockStep, LineStep, AnswerStep DEF ClientInv

-----------------------------------------------------------------------------
(* Whose line a call reads.                                                *)

\* the process that a call started, and the calls that may have started one
Started == {p \in Proc : life[p] # "unborn"}
Past    == {c \in Call : pc[c] \notin {"idle", "locked"}}

\* a call starts one process at most
StartInv ==
    /\ life \in [Proc -> {"unborn", "alive", "hung", "dead"}]
    /\ current \in Proc \cup {None} /\ (current \in Proc => life[current] # "unborn")
    /\ Cardinality(Started) <= Cardinality(Past)

HasLine == buffer # <<>> \/ pipe[current] # <<>>

\* what a call that has sent its request may find next: a line that is not its own, unless
\* its kernel failed it an answer to another call; nothing, while its request is to be
\* read; its own answer, once or repeated
Passed(c) == HasLine /\ NextLine.nonce # c /\ (NextLine.kind = "object" \/ c \in hit)
Waits(c)  == ~HasLine /\ input[current] = <<c>>
Served(c) == /\ input[current] = <<>> /\ buffer = <<>>
             /\ pipe[current] \in {<<Object(c)>>, <<Object(c), Object(c)>>}

\* a call that needs the process has it or was hit, and has read nothing but its answer
InStep(c) ==
    /\ c \in Admissible /\ answer[c] = "reject" => c \in hit
    /\ pc[c] \notin {"closing", "forgetting"}
    /\ pc[c] = "read" => reply[c] = Object(c)
    /\ pc[c] \in {"ready", "sent"} => current \in Proc /\ (Running(current) \/ c \in hit)
    /\ pc[c] = "sent" => Passed(c) \/ Waits(c) \/ Served(c)

\* one process runs, the client's, and a process that is not yet has empty pipes
OneRuns(p) ==
    /\ Running(p) => p = current
    /\ life[p] = "unborn" => p # current /\ input[p] = <<>> /\ pipe[p] = <<>>

\* what is left in the pipes between two calls answers a call that has read an answer
AtRest ==
    current # None /\ (\A c \in Call : pc[c] # "sent") =>
        /\ input[current] = <<>>
        /\ HasLine => /\ NextLine.kind = "object"
                      /\ NextLine.nonce \in Call /\ pc[NextLine.nonce] \in {"read", "done"}

\* until a reply has answered another call, all of this holds
OwnInv == stale = {} => /\ \A c \in Call : InStep(c)
                        /\ \A p \in Proc : OneRuns(p)
                        /\ AtRest

\* The least of some numbers is one of them.
LEMMA LeastIsMember ==
    ASSUME NEW S \in SUBSET Nat, S # {}
    PROVE  Min(S) \in S
<1>1. PICK m \in S : \A y \in S : ~(<<y, m>> \in OpToRel(<, Nat))
  BY NatLessThanWellFounded, WFMin
<1>2. ASSUME NEW y \in S PROVE m <= y
  <2>1. ~(y < m)
    BY <1>1 DEF OpToRel
  <2> QED
    BY <2>1
<1>3. \E x \in S : \A y \in S : x <= y
  BY <1>2
<1> QED
  BY <1>3 DEF Min

\* A call that is about to start a process finds one: there are as many as calls.
LEMMA ProcessLeft ==
    ASSUME StartInv, NEW c \in Call, pc[c] = "locked"
    PROVE  Min({q \in Proc : life[q] = "unborn"}) \in {q \in Proc : life[q] = "unborn"}
<1> DEFINE Unborn == {q \in Proc : life[q] = "unborn"}
<1>1. Cardinality(Call) \in Nat /\ IsFiniteSet(Call) /\ IsFiniteSet(Proc)
      /\ Cardinality(Proc) = Cardinality(Call)
  BY KernelAssumption, FS_CardinalityType, FS_Interval DEF Proc
<1>2. Cardinality(Past) <= Cardinality(Call) /\ Cardinality(Past) # Cardinality(Call)
      /\ IsFiniteSet(Past) /\ Cardinality(Past) \in Nat
  <2>1. Past \in SUBSET Call /\ c \notin Past
    BY DEF Past
  <2> QED
    BY <1>1, <2>1, FS_Subset, FS_CardinalityType
<1>3. Unborn # {}
  <2> SUFFICES ASSUME Unborn = {} PROVE FALSE
    OBVIOUS
  <2>1. Started = Proc
    BY DEF Started
  <2> QED
    BY <1>1, <1>2, <2>1 DEF StartInv
<1>4. Unborn \in SUBSET Nat
  BY <1>1 DEF Proc
<1> QED
  BY <1>3, <1>4, LeastIsMember

\* A start is one more process and one more call that may have started one.
LEMMA StartStep ==
    ASSUME LockInv, StartInv, [Next]_vars
    PROVE  StartInv'
<1> USE KernelAssumption DEF PCs
<1>t. /\ life \in [Proc -> {"unborn", "alive", "hung", "dead"}] /\ pc \in [Call -> PCs]
      /\ current \in Proc \cup {None} /\ (current \in Proc => life[current] # "unborn")
  BY DEF StartInv, LockInv
<1>f. /\ IsFiniteSet(Started) /\ IsFiniteSet(Past)
      /\ Cardinality(Started) \in Nat /\ Cardinality(Past) \in Nat
      /\ Cardinality(Started) <= Cardinality(Past)
  <2>1. Started \in SUBSET Proc /\ Past \in SUBSET Call /\ IsFiniteSet(Proc)
    BY FS_Interval, FS_CardinalityType DEF Started, Past, Proc
  <2> QED
    BY <2>1, FS_Subset, FS_CardinalityType DEF StartInv
\* no process starts, and no call goes back
<1>k. ASSUME life' \in [Proc -> {"unborn", "alive", "hung", "dead"}],
             \A p \in Proc : life'[p] = "unborn" <=> life[p] = "unborn",
             current' \in {current, None},
             pc' = pc \/ \E c \in Call, to \in PCs : pc' = [pc EXCEPT ![c] = to]
                         /\ (pc[c] \in {"idle", "locked"} <=> to \in {"idle", "locked"})
      PROVE  StartInv'
  <2>1. Started' = Started
    BY <1>t, <1>k DEF Started
  <2>2. Past' = Past
    <3>1. CASE pc' = pc
      BY <3>1 DEF Past
    <3>2. ASSUME NEW c \in Call, NEW to \in PCs, pc' = [pc EXCEPT ![c] = to],
                 pc[c] \in {"idle", "locked"} <=> to \in {"idle", "locked"}
          PROVE  Past' = Past
      BY <1>t, <3>2 DEF Past
    <3> QED
      BY <1>k, <3>1, <3>2
  <2> QED
    BY <1>f, <1>k, <1>t, <2>1, <2>2 DEF StartInv
<1>c. ASSUME Close PROVE /\ life' \in [Proc -> {"unborn", "alive", "hung", "dead"}]
                         /\ \A p \in Proc : life'[p] = "unborn" <=> life[p] = "unborn"
                         /\ current' = None
  BY <1>t, <1>c DEF Close
<1>1. ASSUME NEW c \in Call, Acquire(c) \/ WriteRequest(c) \/ ReadReply(c) PROVE StartInv'
  <2>1. UNCHANGED <<life, current>>
        /\ \/ pc[c] = "idle" /\ pc' = [pc EXCEPT ![c] = "locked"]
           \/ pc[c] = "ready" /\ pc' = [pc EXCEPT ![c] = "sent"]
           \/ pc[c] = "sent" /\ pc' = [pc EXCEPT ![c] = "read"]
    BY <1>1 DEF Acquire, WriteRequest, ReadReply, Goes
  <2> QED
    BY <1>k, <1>t, <2>1
<1>2. ASSUME NEW c \in Call, EnsureStarted(c) PROVE StartInv'
  <2>1. pc[c] = "locked" /\ pc' = [pc EXCEPT ![c] = "ready"]
    BY <1>2 DEF EnsureStarted, Goes
  <2>2. Past' = Past \cup {c} /\ c \notin Past
    BY <1>t, <2>1 DEF Past
  <2>3. Cardinality(Past') = Cardinality(Past) + 1
    BY <1>f, <2>2, FS_AddElement
  <2>4. CASE UNCHANGED <<life, current>>
    <3>1. Started' = Started
      BY <2>4 DEF Started
    <3> QED
      BY <1>f, <1>t, <2>3, <2>4, <3>1 DEF StartInv
  <2>5. ASSUME NEW p \in Proc, life[p] = "unborn", life' = [life EXCEPT ![p] = "alive"], current' = p
        PROVE  StartInv'
    <3>1. Started' = Started \cup {p} /\ p \notin Started
      BY <1>t, <2>5 DEF Started
    <3>2. Cardinality(Started') = Cardinality(Started) + 1
      BY <1>f, <3>1, FS_AddElement
    <3> QED
      BY <1>f, <1>t, <2>3, <2>5, <3>2 DEF StartInv
  <2> DEFINE p == Min({q \in Proc : life[q] = "unborn"})
  <2>6. p \in {q \in Proc : life[q] = "unborn"}
    BY <2>1, ProcessLeft
  <2>7. UNCHANGED <<life, current>> \/ (current' = p /\ life' = [life EXCEPT ![p] = "alive"])
    BY <1>2 DEF EnsureStarted, KeepProcess
  <2> QED
    BY <2>4, <2>5, <2>6, <2>7
<1>3. ASSUME NEW c \in Call, ProcessGone(c) \/ Timeout(c) \/ ReadFails(c) PROVE StartInv'
  <2>1. Close /\ pc[c] \in {"ready", "sent"} /\ pc' = [pc EXCEPT ![c] = "done"]
    BY <1>3 DEF ProcessGone, Timeout, TimesOut, ReadFails, Abandoned, RejectUnlocked, Returns
  <2> QED
    BY <1>c, <1>k, <2>1
<1>4. ASSUME NEW c \in Call, Decide(c) \/ ForgetLate(c) PROVE StartInv'
  <2>1. /\ life' = life /\ current' \in {current, None}
        /\ pc[c] \in {"read", "closing", "forgetting"} /\ pc' = [pc EXCEPT ![c] = "done"]
    BY <1>4 DEF Decide, ForgetLate, Returns
  <2> QED
    BY <1>k, <1>t, <2>1
<1>5. ASSUME NEW c \in Call, KillLate(c) PROVE StartInv'
  <2>1. /\ pc[c] = "read" /\ current' = current
        /\ life' = [p \in Proc |-> IF p = current THEN "dead" ELSE life[p]]
        /\ pc' = [pc EXCEPT ![c] = "closing"] \/ pc' = [pc EXCEPT ![c] = "forgetting"]
    BY <1>5 DEF KillLate
  <2>2. /\ life' \in [Proc -> {"unborn", "alive", "hung", "dead"}]
        /\ \A p \in Proc : life'[p] = "unborn" <=> life[p] = "unborn"
    BY <1>t, <2>1
  <2> QED
    BY <1>k, <2>1, <2>2
<1>6. ASSUME NEW p \in Proc, Kernel(p) \/ Hangs(p) \/ Dies(p) PROVE StartInv'
  <2>1. /\ UNCHANGED <<pc, current>> /\ life[p] \in {"alive", "hung"}
        /\ life' = life \/ life' = [life EXCEPT ![p] = "hung"] \/ life' = [life EXCEPT ![p] = "dead"]
    BY <1>6 DEF Kernel, Hangs, Dies, Running, client
  <2>2. /\ life' \in [Proc -> {"unborn", "alive", "hung", "dead"}]
        /\ \A q \in Proc : life'[q] = "unborn" <=> life[q] = "unborn"
    BY <1>t, <2>1
  <2> QED
    BY <1>k, <2>1, <2>2
<1>7. ASSUME NEW c \in Call, StartFails(c) PROVE StartInv'
  <2>1. Close /\ pc[c] = "locked" /\ pc' = [pc EXCEPT ![c] = "done"]
    BY <1>7 DEF StartFails, RejectUnlocked, Returns
  <2>2. Started' = Started
    BY <1>c, <1>t, <2>1 DEF Started
  <2>3. Past' = Past \cup {c} /\ c \notin Past
    BY <1>t, <2>1 DEF Past
  <2>4. Cardinality(Past') = Cardinality(Past) + 1
    BY <1>f, <2>3, FS_AddElement
  <2> QED
    BY <1>c, <1>f, <2>1, <2>2, <2>4 DEF StartInv
<1>8. CASE UNCHANGED vars
  BY <1>8, <1>k, <1>t DEF vars, client
<1> QED
  BY <1>1, <1>2, <1>3, <1>4, <1>5, <1>6, <1>7, <1>8 DEF Next, Decides

\* At the start nobody has sent and nothing is in the pipes.
LEMMA OwnInit == Init => StartInv /\ OwnInv
<1> SUFFICES ASSUME Init PROVE StartInv /\ OwnInv
  OBVIOUS
<1> USE KernelAssumption
<1>1. Started = {} /\ Past = {}
  BY DEF Init, Started, Past
<1>2. StartInv
  BY <1>1, FS_EmptySet DEF Init, StartInv
<1>3. OwnInv
  BY DEF Init, OwnInv, InStep, OneRuns, AtRest, Running
<1> QED
  BY <1>2, <1>3

\* A call that closes its process with an excuse leaves the others in step.
LEMMA CloseInStep ==
    ASSUME LockInv, LineInv, AnswerInv, StartInv, OwnInv, stale = {},
           NEW c \in Call, pc[c] \in Holding, Close, Returns(c, "reject"),
           c \in hit', hit \subseteq hit', UNCHANGED <<reply, input, pipe>>
    PROVE  OwnInv'
<1> USE KernelAssumption
<1>1. \A d \in Call : pc'[d] \notin {"ready", "sent"}
  BY DEF LockInv, Returns, Holding, PCs
<1>2. ASSUME NEW d \in Call PROVE InStep(d)'
  BY <1>1 DEF OwnInv, InStep, LockInv, AnswerInv, Returns, Holding
<1>3. ASSUME NEW p \in Proc PROVE OneRuns(p)'
  BY DEF OwnInv, OneRuns, Running, Close, StartInv
<1>4. AtRest'
  BY DEF AtRest, Close
<1> QED
  BY <1>2, <1>3, <1>4 DEF OwnInv

\* What a kernel says in one go is a sequence of lines.
LEMMA ShortSequences ==
    ASSUME NEW S, NEW a \in S
    PROVE  <<a>> \in Seq(S) /\ <<a, a>> \in Seq(S)
OBVIOUS

\* A kernel answers the one request that waits, or adds to what a call will skip.
LEMMA KernelInStep ==
    ASSUME LockInv, LineInv, AnswerInv, StartInv, OwnInv, stale = {}, NEW p \in Proc, Kernel(p)
    PROVE  OwnInv'
<1> DEFINE Answers == {<<Object(Head(input[p]))>>, <<Object(Head(input[p])), Object(Head(input[p]))>>}
           Noises  == {<<Other(k)>> : k \in {"noise", "value", "half"}}
<1> USE KernelAssumption
<1>1. /\ p = current /\ life[p] = "alive" /\ input[p] # <<>>
      /\ \A d \in Call : InStep(d)
      /\ \A q \in Proc : OneRuns(q)
  BY DEF Kernel, OwnInv, OneRuns, Running
<1>2. PICK c \in Call : pc[c] = "sent"
  BY <1>1 DEF OwnInv, AtRest
<1>3. \A d \in Call : pc[d] \in {"ready", "sent"} => d = c
  BY <1>2 DEF LockInv, Holding
<1>4. UNCHANGED <<lock, current, pc, reply, answer, buffer, stale>>
  BY DEF Kernel, client
<1>5. PICK said \in Answers \cup Noises :
        /\ pipe' = [pipe EXCEPT ![p] = @ \o said]
        /\ input' = [input EXCEPT ![p] = Tail(@)]
        /\ \/ said \in Answers /\ UNCHANGED <<life, hit>>
           \/ /\ said \in Noises /\ hit' = hit \cup {Head(input[p])}
              /\ life' = life \/ life' = [life EXCEPT ![p] = "hung"]
  BY DEF Kernel
<1>6. /\ hit \subseteq hit' /\ life' \in {life, [life EXCEPT ![p] = "hung"]}
      /\ life'[p] \in {"alive", "hung"}
  BY <1>1, <1>5 DEF StartInv
<1>7. Passed(c)' \/ Waits(c)' \/ Served(c)'
  <2>1. CASE Passed(c)
    <3>1. HasLine' /\ NextLine' = NextLine
      <4>1. CASE buffer # <<>>
        BY <1>4, <4>1 DEF HasLine, NextLine
      <4>2. CASE buffer = <<>>
        <5>1. pipe[p] \in Seq(Truthful) /\ pipe[p] # <<>>
          BY <1>1, <2>1, <4>2 DEF Passed, HasLine, LineInv
        <5>2. said \in Seq(Truthful)
          <6>1. Head(input[p]) \in Call
            BY <1>1, HeadTailProperties DEF LineInv
          <6>2. Object(Head(input[p])) \in Truthful
            BY <6>1, KernelLines
          <6>3. CASE said \in Noises
            BY <6>3, KernelLines, ShortSequences
          <6>4. CASE said \in Answers
            BY <6>2, <6>4, ShortSequences
          <6> QED
            BY <1>5, <6>3, <6>4
        <5>3. pipe'[p] = pipe[p] \o said
          BY <1>5 DEF LineInv
        <5>4. pipe'[p] # <<>> /\ Head(pipe'[p]) = Head(pipe[p])
          BY <5>1, <5>2, <5>3
        <5> QED
          BY <1>1, <1>4, <4>2, <5>4 DEF HasLine, NextLine
      <4> QED
        BY <4>1, <4>2
    <3> QED
      BY <1>6, <2>1, <3>1 DEF Passed
  <2>2. CASE Waits(c)
    <3>1. input[p] = <<c>> /\ Head(input[p]) = c /\ buffer = <<>> /\ pipe[p] = <<>>
      BY <1>1, <2>2 DEF Waits, HasLine
    <3>2. input'[p] = <<>>
      BY <1>5, <3>1 DEF LineInv
    <3>3. pipe'[p] = said
      BY <1>1, <1>5, <3>1, KernelLines DEF LineInv
    <3>4. CASE said \in {<<Object(c)>>, <<Object(c), Object(c)>>}
      BY <1>1, <1>4, <3>1, <3>2, <3>3, <3>4 DEF Served
    <3>5. CASE said \in Noises /\ c \in hit'
      BY <1>1, <1>4, <3>1, <3>3, <3>5 DEF Passed, HasLine, NextLine, Other
    <3> QED
      BY <1>5, <3>1, <3>4, <3>5
  <2>3. CASE Served(c)
    BY <1>1, <2>3 DEF Served
  <2> QED
    BY <1>1, <1>2, <2>1, <2>2, <2>3 DEF InStep
<1>8. ASSUME NEW d \in Call PROVE InStep(d)'
  BY <1>1, <1>3, <1>4, <1>6, <1>7 DEF InStep, Running
<1>9. ASSUME NEW q \in Proc PROVE OneRuns(q)'
  BY <1>1, <1>4, <1>5, <1>6 DEF OneRuns, Running, StartInv, LineInv
<1>10. AtRest'
  BY <1>2, <1>4 DEF AtRest
<1> QED
  BY <1>8, <1>9, <1>10 DEF OwnInv

\* Whatever threads and kernels do, the line that a call reads first is its own answer,
\* or betrays that it is not.
LEMMA OwnStep ==
    ASSUME LockInv, LineInv, AnswerInv, StartInv, OwnInv, [Next]_vars
    PROVE  OwnInv'
<1> SUFFICES ASSUME stale' = {} PROVE OwnInv'
  BY DEF OwnInv
<1> USE KernelAssumption
<1>s. stale = {}
  BY DEF Next, Decides, Acquire, EnsureStarted, StartFails, WriteRequest, ProcessGone, Timeout,
         ReadReply, ReadFails, Decide, KillLate, ForgetLate, Kernel, Hangs, Dies, vars
<1>i. /\ \A d \in Call : InStep(d)
      /\ \A p \in Proc : OneRuns(p)
      /\ AtRest
  BY <1>s DEF OwnInv
<1>1. ASSUME NEW c \in Call, Acquire(c) PROVE OwnInv'
  <2>1. ASSUME NEW d \in Call PROVE InStep(d)'
    BY <1>1, <1>i DEF InStep, Acquire, Goes, LockInv, Running, Passed, Waits, Served, HasLine, NextLine
  <2>2. ASSUME NEW p \in Proc PROVE OneRuns(p)'
    BY <1>1, <1>i DEF OneRuns, Acquire, Running
  <2>3. AtRest'
    BY <1>1, <1>i DEF AtRest, Acquire, Goes, LockInv, HasLine, NextLine
  <2> QED
    BY <2>1, <2>2, <2>3 DEF OwnInv
<1>2. ASSUME NEW c \in Call, EnsureStarted(c) PROVE OwnInv'
  <2>1. /\ pc[c] = "locked" /\ pc' = [pc EXCEPT ![c] = "ready"]
        /\ UNCHANGED <<lock, reply, answer, input, pipe, hit, stale>>
    BY <1>2 DEF EnsureStarted, Goes
  <2>2. \A d \in Call : pc[d] # "sent" /\ (pc[d] = "ready" => FALSE)
    BY <2>1 DEF LockInv, Holding
  <2>3. CASE Running(current) /\ UNCHANGED <<current, buffer, life>>
    <3>1. ASSUME NEW d \in Call PROVE InStep(d)'
      BY <1>i, <2>1, <2>2, <2>3 DEF InStep, LockInv, Running
    <3>2. ASSUME NEW p \in Proc PROVE OneRuns(p)'
      BY <1>i, <2>1, <2>3 DEF OneRuns, Running
    <3>3. AtRest'
      BY <1>i, <2>1, <2>2, <2>3 DEF AtRest, LockInv, HasLine, NextLine
    <3> QED
      BY <3>1, <3>2, <3>3 DEF OwnInv
  <2>4. ASSUME ~Running(current), NEW p \in Proc, life[p] = "unborn", current' = p,
               buffer' = <<>>, life' = [life EXCEPT ![p] = "alive"]
        PROVE  OwnInv'
    <3>1. ASSUME NEW d \in Call PROVE InStep(d)'
      BY <1>i, <2>1, <2>2, <2>4 DEF InStep, LockInv, Running, StartInv
    <3>2. ASSUME NEW q \in Proc PROVE OneRuns(q)'
      BY <1>i, <2>1, <2>4 DEF OneRuns, Running, StartInv
    <3>3. AtRest'
      BY <1>i, <2>1, <2>4 DEF AtRest, OneRuns, HasLine
    <3> QED
      BY <3>1, <3>2, <3>3 DEF OwnInv
  <2> DEFINE p == Min({q \in Proc : life[q] = "unborn"})
  <2>5. p \in {q \in Proc : life[q] = "unborn"}
    BY <2>1, ProcessLeft
  <2>6. \/ Running(current) /\ UNCHANGED <<current, buffer, life>>
        \/ ~Running(current) /\ current' = p /\ buffer' = <<>> /\ life' = [life EXCEPT ![p] = "alive"]
    BY <1>2 DEF EnsureStarted, KeepProcess
  <2> QED
    BY <2>3, <2>4, <2>5, <2>6
<1>3. ASSUME NEW c \in Call, WriteRequest(c) PROVE OwnInv'
  <2>1. /\ Running(current) /\ pc[c] = "ready" /\ pc' = [pc EXCEPT ![c] = "sent"]
        /\ input' = [input EXCEPT ![current] = Append(@, c)]
        /\ UNCHANGED <<lock, current, reply, answer, buffer, life, pipe, hit, stale>>
    BY <1>3 DEF WriteRequest, Goes
  <2>2. \A d \in Call : pc[d] # "sent" /\ (pc[d] = "ready" => d = c)
    BY <2>1 DEF LockInv, Holding
  <2>3. input[current] = <<>> /\ (HasLine => NextLine.kind = "object" /\ NextLine.nonce # c)
    BY <1>i, <2>1, <2>2 DEF AtRest, Running
  <2>4. input'[current] = <<c>>
    BY <2>1, <2>3 DEF Running, LineInv
  <2>5. Passed(c)' \/ Waits(c)'
    BY <2>1, <2>3, <2>4 DEF Passed, Waits, HasLine, NextLine
  <2>6. ASSUME NEW d \in Call PROVE InStep(d)'
    BY <1>i, <2>1, <2>2, <2>5 DEF InStep, LockInv, Running
  <2>7. ASSUME NEW p \in Proc PROVE OneRuns(p)'
    BY <1>i, <2>1 DEF OneRuns, Running, LineInv
  <2>8. AtRest'
    BY <2>1 DEF AtRest, LockInv
  <2> QED
    BY <2>6, <2>7, <2>8 DEF OwnInv
<1>4. ASSUME NEW c \in Call, ProcessGone(c) PROVE OwnInv'
  <2>1. c \in hit /\ pc[c] \in {"ready", "sent"} /\ Close /\ Returns(c, "reject")
        /\ UNCHANGED <<reply, input, pipe, hit>>
    BY <1>4, <1>i DEF ProcessGone, RejectUnlocked, InStep
  <2> QED
    BY <1>s, <2>1, CloseInStep DEF Holding
<1>5. ASSUME NEW c \in Call, Timeout(c) PROVE OwnInv'
  <2>1. pc[c] = "sent" /\ Close /\ Returns(c, "reject") /\ hit' = hit \cup {c}
        /\ UNCHANGED <<reply, input, pipe>>
    BY <1>5 DEF Timeout, TimesOut, Abandoned, RejectUnlocked
  <2> QED
    BY <1>s, <2>1, CloseInStep DEF Holding
<1>6. ASSUME NEW c \in Call, ReadFails(c) PROVE OwnInv'
  <2>1. pc[c] = "sent" /\ Close /\ Returns(c, "reject") /\ UNCHANGED <<reply, input, pipe, hit>>
    BY <1>6 DEF ReadFails, RejectUnlocked
  <2>2. c \in hit
    <3>1. CASE ~HasLine
      BY <1>6, <1>i, <3>1 DEF ReadFails, Readable, HasLine, InStep
    <3>2. CASE HasLine
      <4>1. NextLine.kind \in {"noise", "half"}
        BY <1>6, <3>2 DEF ReadFails, HasLine
      <4>2. ~Served(c)
        BY <4>1 DEF Served, NextLine, Object
      <4> QED
        BY <1>i, <2>1, <3>2, <4>1, <4>2 DEF InStep, Passed, Waits
    <3> QED
      BY <3>1, <3>2
  <2> QED
    BY <1>s, <2>1, <2>2, CloseInStep DEF Holding
<1>7. ASSUME NEW c \in Call, ReadReply(c) PROVE OwnInv'
  <2>1. /\ pc[c] = "sent" /\ HasLine /\ TakeLine /\ reply' = [reply EXCEPT ![c] = NextLine]
        /\ pc' = [pc EXCEPT ![c] = "read"]
        /\ UNCHANGED <<current, answer, life, input, hit>>
    BY <1>7 DEF ReadReply, Goes, HasLine
  <2>2. NextLine.nonce = c
    BY <1>7 DEF ReadReply
  <2>3. Served(c) /\ current \in Proc
    BY <1>i, <2>1, <2>2 DEF InStep, Passed, Waits
  <2>4. NextLine = Object(c)
    BY <2>3 DEF Served, NextLine
  <2>5. /\ buffer' \in {<<>>, <<Object(c)>>}
        /\ pipe' = [pipe EXCEPT ![current] = <<>>]
    <3>1. buffer' = Tail(pipe[current]) /\ pipe' = [pipe EXCEPT ![current] = <<>>]
      BY <2>1, <2>3 DEF Served, TakeLine
    <3>2. CASE pipe[current] = <<Object(c)>>
      BY <3>1, <3>2
    <3>3. CASE pipe[current] = <<Object(c), Object(c)>>
      <4> DEFINE o == Object(c)
      <4> HIDE DEF o
      <4>1. Tail(<<o, o>>) = <<o>>
        OBVIOUS
      <4> QED
        BY <3>1, <3>3, <4>1 DEF o
    <3> QED
      BY <2>3, <3>1, <3>2, <3>3 DEF Served
  <2>6. \A d \in Call : pc'[d] \notin {"ready", "sent"}
    BY <2>1 DEF LockInv, Holding, PCs
  <2>7. ASSUME NEW d \in Call PROVE InStep(d)'
    BY <1>i, <2>1, <2>4, <2>6 DEF InStep, LockInv, LineInv
  <2>8. ASSUME NEW p \in Proc PROVE OneRuns(p)'
    BY <1>i, <2>1, <2>3, <2>5 DEF OneRuns, Running, LineInv
  <2>9. AtRest'
    <3>1. input'[current'] = <<>> /\ pipe'[current'] = <<>>
      BY <2>1, <2>3, <2>5 DEF Served, LineInv
    <3>2. ASSUME HasLine' PROVE NextLine' = Object(c)
      BY <2>5, <3>1, <3>2 DEF HasLine, NextLine
    <3>3. Object(c).kind = "object" /\ Object(c).nonce = c /\ pc'[c] = "read"
      BY <2>1 DEF Object, LockInv
    <3> QED
      BY <3>1, <3>2, <3>3 DEF AtRest
  <2> QED
    BY <2>7, <2>8, <2>9 DEF OwnInv
<1>8. ASSUME NEW c \in Call, Decide(c) PROVE OwnInv'
  <2>1. /\ pc[c] = "read" /\ pc' = [pc EXCEPT ![c] = "done"]
        /\ UNCHANGED <<lock, current, reply, buffer, life, input, pipe, hit, stale>>
    BY <1>8 DEF Decide, Returns
  <2>2. reply[c] = Object(c)
    BY <1>i, <2>1 DEF InStep
  <2>3. answer' = [answer EXCEPT ![c] = IF c \in Admissible THEN "admit" ELSE "reject"]
    <3>1. Object(c).kind = "object" /\ Object(c).admit = (c \in Admissible)
      BY DEF Object
    <3>2. answer' = [answer EXCEPT ![c] = IF reply[c].admit THEN "admit" ELSE "reject"]
      BY <1>8, <2>2, <3>1 DEF Decide, Returns
    <3> QED
      BY <2>2, <3>1, <3>2
  <2>4. ASSUME NEW d \in Call PROVE InStep(d)'
    <3>1. d \in Admissible /\ answer'[d] = "reject" => d \in hit'
      BY <1>i, <2>1, <2>3 DEF InStep, AnswerInv
    <3>2. d # c => pc'[d] = pc[d]
      BY <2>1 DEF LockInv
    <3>3. pc'[c] = "done"
      BY <2>1 DEF LockInv
    <3> QED
      BY <1>i, <2>1, <3>1, <3>2, <3>3 DEF InStep, Running, Passed, Waits, Served, HasLine, NextLine
  <2>5. ASSUME NEW p \in Proc PROVE OneRuns(p)'
    BY <1>i, <2>1 DEF OneRuns, Running
  <2>6. AtRest'
    BY <1>i, <2>1 DEF AtRest, LockInv, HasLine, NextLine
  <2> QED
    BY <2>4, <2>5, <2>6 DEF OwnInv
<1>9. ASSUME NEW c \in Call, KillLate(c) PROVE OwnInv'
  <2>1. Object(c).nonce = c
    BY DEF Object
  <2>2. reply[c] = Object(c)
    BY <1>9, <1>i DEF KillLate, InStep
  <2> QED
    BY <1>9, <2>1, <2>2 DEF KillLate, AnswersThis
<1>10. ASSUME NEW c \in Call, ForgetLate(c) PROVE OwnInv'
  BY <1>10, <1>i DEF ForgetLate, InStep
<1>11. ASSUME NEW p \in Proc, Kernel(p) PROVE OwnInv'
  BY <1>11, <1>s, KernelInStep
<1>12. ASSUME NEW p \in Proc, Dies(p) PROVE OwnInv'
  <2>1. /\ Running(p) /\ life' = [life EXCEPT ![p] = "dead"] /\ hit' = hit \cup ({lock} \ {None})
        /\ UNCHANGED <<lock, current, pc, reply, answer, buffer, input, pipe, stale>>
    BY <1>12 DEF Dies, client
  <2>2. ASSUME NEW d \in Call PROVE InStep(d)'
    <3>1. pc[d] \in {"ready", "sent"} => d \in hit'
      BY <2>1 DEF LockInv, Holding
    <3> QED
      BY <1>i, <2>1, <3>1 DEF InStep, Passed, Waits, Served, HasLine, NextLine
  <2>3. ASSUME NEW q \in Proc PROVE OneRuns(q)'
    BY <1>i, <2>1 DEF OneRuns, Running, StartInv
  <2>4. AtRest'
    BY <1>i, <2>1 DEF AtRest, HasLine, NextLine
  <2> QED
    BY <2>2, <2>3, <2>4 DEF OwnInv
<1>13. ASSUME NEW c \in Call, StartFails(c) PROVE OwnInv'
  <2>1. pc[c] = "locked" /\ Close /\ Returns(c, "reject") /\ hit' = hit \cup {c}
        /\ UNCHANGED <<reply, input, pipe>>
    BY <1>13 DEF StartFails, RejectUnlocked
  <2> QED
    BY <1>s, <2>1, CloseInStep DEF Holding
<1>14. ASSUME NEW p \in Proc, Hangs(p) PROVE OwnInv'
  <2>1. /\ life[p] = "alive" /\ life' = [life EXCEPT ![p] = "hung"]
        /\ UNCHANGED <<lock, current, pc, reply, answer, buffer, input, pipe, hit, stale>>
    BY <1>14 DEF Hangs, client
  <2>2. ASSUME NEW q \in Proc PROVE Running(q)' <=> Running(q)
    BY <2>1 DEF Running, StartInv
  <2>3. ASSUME NEW d \in Call PROVE InStep(d)'
    BY <1>i, <2>1, <2>2 DEF InStep, Passed, Waits, Served, HasLine, NextLine
  <2>4. ASSUME NEW q \in Proc PROVE OneRuns(q)'
    BY <1>i, <2>1, <2>2 DEF OneRuns, StartInv
  <2>5. AtRest'
    BY <1>i, <2>1 DEF AtRest, HasLine, NextLine
  <2> QED
    BY <2>3, <2>4, <2>5 DEF OwnInv
<1>15. CASE UNCHANGED vars
  <2>1. UNCHANGED <<lock, current, pc, reply, answer, buffer, life, input, pipe, hit, stale>>
    BY <1>15 DEF vars, client
  <2> QED
    BY <1>s, <2>1 DEF OwnInv, InStep, OneRuns, AtRest, Running, Passed, Waits, Served, HasLine, NextLine
<1> QED
  BY <1>1, <1>2, <1>3, <1>4, <1>5, <1>6, <1>7, <1>8, <1>9, <1>10, <1>11, <1>12, <1>13, <1>14, <1>15
     DEF Next, Decides

-----------------------------------------------------------------------------
(* What the guards keep.                                                   *)

At    == {"idle", "judged", "read", "widened", "compared", "logged", "done"}
Tool  == InitialTools \cup Expansion \cup UNION {Requested[c] : c \in Call}
Event == [call : Call, scope : SUBSET Tool, result : Judged, tools : SUBSET Tool]

GuardTypes ==
    /\ guard \in {"kernel", "session"} /\ mode \in {"observe", "govern"}
    /\ result \in [Call -> {"none", "admit", "reject"}]
    /\ log \subseteq Call \X {"admit", "reject"}
    /\ at \in [Call -> At] /\ judged \in [Call -> Judged] /\ widened \in [Call -> SUBSET Tool]
    /\ scope \subseteq Tool /\ tools \subseteq Tool /\ events \in Seq(Event)

\* KernelGuard: what is on record is the client's answer, and so is what GOVERN returned
KernelRecords ==
    guard = "kernel" => \A c \in Call :
        /\ \A a \in {"admit", "reject"} : <<c, a>> \in log => answer[c] = a
        /\ result[c] # "none" => /\ answer[c] # "none" /\ <<c, answer[c]>> \in log
                                 /\ mode = "govern" => result[c] = answer[c]

\* DARMGuard: one event for each check that has got that far, with its judgement
SessionRecords ==
    /\ \A i \in DOMAIN events :
          /\ at[events[i].call] \in {"logged", "done"}
          /\ events[i].result.admitted = judged[events[i].call].admitted
    /\ \A c \in Call : at[c] \in {"logged", "done"} => \E i \in DOMAIN events : events[i].call = c
    /\ guard = "session" => \A c \in Call :
          result[c] # "none" =>
              at[c] = "done" /\ (mode = "govern" => (result[c] = "admit" <=> judged[c].admitted))

RecordInv == GuardTypes /\ KernelRecords /\ SessionRecords

\* An event appended to the session keeps the earlier ones where they are.
LEMMA AppendEventProperties ==
    ASSUME events \in Seq(Event), NEW e \in Event, events' = Append(events, e)
    PROVE  /\ events' \in Seq(Event)
           /\ Len(events) \in Nat /\ DOMAIN events = 1 .. Len(events)
           /\ Len(events') = Len(events) + 1 /\ DOMAIN events' = 1 .. Len(events) + 1
           /\ \A i \in DOMAIN events : events'[i] = events[i]
           /\ events'[Len(events) + 1] = e
BY AppendProperties, LenProperties

\* Every event of the session is the event of a call.
LEMMA CallsOfEvents ==
    ASSUME events \in Seq(Event)
    PROVE  /\ Len(events) \in Nat /\ DOMAIN events = 1 .. Len(events)
           /\ \A i \in DOMAIN events : events[i] \in Event /\ events[i].call \in Call
<1>1. Len(events) \in Nat /\ DOMAIN events = 1 .. Len(events)
  BY LenProperties
<1>2. \A i \in 1 .. Len(events) : events[i] \in Event
  BY ElementOfSeq
<1> QED
  BY <1>1, <1>2 DEF Event

\* Judging and comparing give a TransferResult.
LEMMA TransferType ==
    ASSUME NEW c \in Call
    PROVE  Transfer(c) \in Judged /\ (Transfer(c).drift = "within" <=> Requested[c] \subseteq tools)
<1>1. (~Failing(c)) \in BOOLEAN
  BY DEF Failing
<1> QED
  BY <1>1 DEF Transfer, Judged, Drift

\* Every step of a guard keeps the types of its records.
LEMMA GuardTypesStep ==
    ASSUME GuardTypes, AnswerInv, [GNext]_gvars
    PROVE  GuardTypes'
<1> USE GuardsAssumption DEF GuardTypes, At
<1>1. CASE guard = "kernel" /\ Next /\ UNCHANGED <<guard, mode, result, log, session>>
  BY <1>1 DEF session
<1>2. ASSUME NEW c \in Call, KernelCheckReturns(c) PROVE GuardTypes'
  <2>1. answer[c] \in {"admit", "reject"}
    BY <1>2 DEF KernelCheckReturns, AnswerInv
  <2> QED
    BY <1>2, <2>1 DEF KernelCheckReturns, Noted, Returned, session
<1>3. ASSUME NEW c \in Call, Judge(c) PROVE GuardTypes'
  BY <1>3, TransferType DEF Judge, SessionGoes
<1>4. ASSUME NEW c \in Call, ReadScope(c) PROVE GuardTypes'
  <2>1. NewScope(c) \in SUBSET Tool
    BY DEF NewScope, Tool
  <2> QED
    BY <1>4, <2>1 DEF ReadScope, SessionGoes
<1>5. ASSUME NEW c \in Call, WriteScope(c) PROVE GuardTypes'
  BY <1>5 DEF WriteScope, SessionGoes
<1>6. ASSUME NEW c \in Call, Compare(c) PROVE GuardTypes'
  <2>1. [judged EXCEPT ![c].drift = "drift"] \in [Call -> Judged]
    BY DEF Judged, Drift
  <2> QED
    BY <1>6, <2>1 DEF Compare, SessionGoes
<1>7. ASSUME NEW c \in Call, AppendEvent(c) PROVE GuardTypes'
  <2>1. [call |-> c, scope |-> scope, result |-> judged[c], tools |-> tools] \in Event
    BY DEF Event
  <2>2. events' \in Seq(Event)
    BY <1>7, <2>1, AppendEventProperties DEF AppendEvent
  <2> QED
    BY <1>7, <2>2 DEF AppendEvent, SessionGoes
<1>8. ASSUME NEW c \in Call, SessionCheckReturns(c) PROVE GuardTypes'
  BY <1>8 DEF SessionCheckReturns, SessionGoes, Returned
<1>9. ASSUME NEW t \in Expansion, UpdateCredential(t) PROVE GuardTypes'
  BY <1>9 DEF UpdateCredential, Tool
<1>10. CASE Expire
  BY <1>10 DEF Expire
<1>11. CASE UNCHANGED gvars
  BY <1>11 DEF gvars, session
<1> QED
  BY <1>1, <1>2, <1>3, <1>4, <1>5, <1>6, <1>7, <1>8, <1>9, <1>10, <1>11 DEF GNext, SessionCheck

\* The client gives a call one answer.
LEMMA AnswerKept ==
    ASSUME LockInv, AnswerInv, Next, NEW c \in Call, answer[c] # "none"
    PROVE  answer'[c] = answer[c]
<1> USE DEF LockInv, PCs, AnswerInv
<1>1. ASSUME NEW d \in Call, Decides(d) PROVE answer'[c] = answer[c]
  <2>1. \/ answer' = answer
        \/ pc[d] # "done" /\ \E a \in {"admit", "reject"} : answer' = [answer EXCEPT ![d] = a]
    BY <1>1 DEF Decides, Acquire, EnsureStarted, WriteRequest, ReadReply, KillLate, StartFails,
        ProcessGone, Timeout, TimesOut, ReadFails, Decide, ForgetLate, RejectUnlocked, Returns
  <2> QED
    BY <2>1
<1>2. ASSUME NEW p \in Proc, Kernel(p) \/ Hangs(p) \/ Dies(p) PROVE answer'[c] = answer[c]
  BY <1>2 DEF Kernel, Hangs, Dies, client
<1> QED
  BY <1>1, <1>2 DEF Next

\* KernelGuard.check: a record is written from the answer the client gave its call.
LEMMA KernelRecordsStep ==
    ASSUME ClientInv, RecordInv, [GNext]_gvars
    PROVE  KernelRecords'
<1> USE DEF RecordInv, GuardTypes, KernelRecords
<1>1. CASE guard = "kernel" /\ Next /\ UNCHANGED <<guard, mode, result, log, session>>
  <2>1. \A c \in Call : answer[c] # "none" => answer'[c] = answer[c]
    BY <1>1, AnswerKept DEF ClientInv
  <2> QED
    BY <1>1, <2>1
<1>2. ASSUME NEW c \in Call, KernelCheckReturns(c) PROVE KernelRecords'
  <2>1. answer[c] \in {"admit", "reject"} /\ answer' = answer
    BY <1>2 DEF KernelCheckReturns, ClientInv, AnswerInv, vars, client
  <2> QED
    BY <1>2, <2>1 DEF KernelCheckReturns, Noted, Returned
<1>3. ASSUME NEW c \in Call, SessionCheck(c) PROVE KernelRecords'
  <2>1. guard = "session" /\ guard' = guard
    BY <1>3 DEF SessionCheck, Judge, ReadScope, WriteScope, Compare, AppendEvent,
        SessionCheckReturns, SessionGoes
  <2> QED
    BY <2>1
<1>4. CASE (\E t \in Expansion : UpdateCredential(t)) \/ Expire
  BY <1>4 DEF UpdateCredential, Expire
<1>5. CASE UNCHANGED gvars
  BY <1>5 DEF gvars, vars, client
<1> QED
  BY <1>1, <1>2, <1>3, <1>4, <1>5 DEF GNext

\* Session.check: a record is written from the event its check appended.
LEMMA SessionRecordsStep ==
    ASSUME ClientInv, RecordInv, [GNext]_gvars
    PROVE  SessionRecords'
<1> USE DEF RecordInv, GuardTypes, SessionRecords, At
<1>1. CASE guard = "kernel" /\ Next /\ UNCHANGED <<guard, mode, result, log, session>>
  BY <1>1 DEF session
<1>2. ASSUME NEW c \in Call, KernelCheckReturns(c) PROVE SessionRecords'
  BY <1>2 DEF KernelCheckReturns, session
\* the judgement of a call that is not on record yet may change
<1>3. ASSUME NEW c \in Call, Judge(c) \/ ReadScope(c) \/ WriteScope(c) \/ Compare(c)
      PROVE  SessionRecords'
  <2>1. /\ at[c] \in {"idle", "judged", "read", "widened"}
        /\ \E to \in {"judged", "read", "widened", "compared"} : at' = [at EXCEPT ![c] = to]
        /\ \A d \in Call \ {c} : judged'[d] = judged[d]
        /\ UNCHANGED <<guard, mode, result, events>>
    BY <1>3 DEF Judge, ReadScope, WriteScope, Compare, SessionGoes
  <2>2. \A i \in DOMAIN events : events[i].call \in Call /\ events[i].call # c
    BY <2>1, CallsOfEvents
  <2>3. \A d \in Call \ {c} : at'[d] = at[d]
    BY <2>1
  <2>4. at'[c] \notin {"logged", "done"}
    BY <2>1
  <2> QED
    BY <2>1, <2>2, <2>3, <2>4
<1>4. ASSUME NEW c \in Call, AppendEvent(c) PROVE SessionRecords'
  <2> DEFINE e == [call |-> c, scope |-> scope, result |-> judged[c], tools |-> tools]
             n == Len(events)
  <2>1. e \in Event
    BY DEF Event
  <2>2. /\ n \in Nat /\ DOMAIN events = 1 .. n /\ DOMAIN events' = 1 .. n + 1
        /\ \A i \in 1 .. n : events'[i] = events[i]
        /\ events'[n + 1] = e
    BY <1>4, <2>1, AppendEventProperties DEF AppendEvent
  <2>3. at' = [at EXCEPT ![c] = "logged"] /\ UNCHANGED <<guard, mode, result>>
    BY <1>4 DEF AppendEvent, SessionGoes
  <2>4. judged' = judged /\ at[c] = "compared"
    BY <1>4 DEF AppendEvent, SessionGoes
  <2>5. \A i \in 1 .. n + 1 : /\ at'[events'[i].call] \in {"logged", "done"}
                              /\ events'[i].result.admitted = judged'[events'[i].call].admitted
    <3>1. \A i \in 1 .. n : events[i].call \in Call
      BY CallsOfEvents
    <3>2. \A i \in 1 .. n : events'[i].call = events[i].call /\ events'[i].result = events[i].result
      BY <2>2
    <3>3. e.call = c /\ e.result = judged[c]
      OBVIOUS
    <3> HIDE DEF e
    <3> QED
      BY <2>2, <2>3, <2>4, <3>1, <3>2, <3>3
  <2>6. \A d \in Call : at'[d] \in {"logged", "done"} => \E i \in 1 .. n + 1 : events'[i].call = d
    <3>1. e.call = c /\ n + 1 \in 1 .. n + 1
      BY <2>2
    <3> HIDE DEF e
    <3> QED
      BY <2>2, <2>3, <3>1
  <2>7. guard' = "session" => \A d \in Call :
          result'[d] # "none" =>
              at'[d] = "done" /\ (mode' = "govern" => (result'[d] = "admit" <=> judged'[d].admitted))
    BY <2>3, <2>4
  <2>8. DOMAIN events' = 1 .. n + 1
    BY <2>2
  <2> HIDE DEF n, e, RecordInv, GuardTypes
  <2> QED
    BY <2>5, <2>6, <2>7, <2>8, Zenon
<1>5. ASSUME NEW c \in Call, SessionCheckReturns(c) PROVE SessionRecords'
  <2>1. /\ at[c] = "logged" /\ at' = [at EXCEPT ![c] = "done"]
        /\ UNCHANGED <<guard, mode, judged, events>>
        /\ result' = [result EXCEPT ![c] = Returned(IF judged[c].admitted THEN "admit" ELSE "reject")]
    BY <1>5 DEF SessionCheckReturns, SessionGoes
  <2>2. judged[c].admitted \in BOOLEAN
    BY DEF Judged
  <2> QED
    BY <2>1, <2>2 DEF Returned
<1>6. CASE (\E t \in Expansion : UpdateCredential(t)) \/ Expire
  BY <1>6 DEF UpdateCredential, Expire
<1>7. CASE UNCHANGED gvars
  BY <1>7 DEF gvars, session
<1> QED
  BY <1>1, <1>2, <1>3, <1>4, <1>5, <1>6, <1>7 DEF GNext, SessionCheck

\* Nothing is recorded before the first call.
LEMMA RecordInit == GInit => ClientInv /\ RecordInv
<1> SUFFICES ASSUME GInit PROVE ClientInv /\ RecordInv
  OBVIOUS
<1>1. ClientInv
  BY ClientInit DEF GInit
<1>2. /\ <<>> \in Seq(Event) /\ DOMAIN events = {}
      /\ [admitted |-> FALSE, drift |-> "within"] \in Judged
  BY EmptySeq DEF GInit, Judged, Drift
<1> QED
  BY <1>1, <1>2 DEF GInit, RecordInv, GuardTypes, KernelRecords, SessionRecords, At, Tool

\* Every step keeps what the client and the guards keep.
LEMMA RecordStep ==
    ASSUME ClientInv, RecordInv, [GNext]_gvars
    PROVE  ClientInv' /\ RecordInv'
<1>1. [Next]_vars
  BY DEF GNext, gvars, KernelCheckReturns, SessionCheck, Judge, ReadScope, WriteScope, Compare,
      AppendEvent, SessionCheckReturns, SessionGoes, UpdateCredential, Expire
<1>2. ClientInv'
  BY <1>1, ClientStep
<1>3. GuardTypes'
  BY GuardTypesStep DEF ClientInv, RecordInv
<1> QED
  BY <1>2, <1>3, KernelRecordsStep, SessionRecordsStep DEF RecordInv

\* The invariant is strong enough for the property about records.
LEMMA RecordsSuffice ==
    ASSUME ClientInv, RecordInv
    PROVE  DecidedAsRecorded
<1> USE DEF RecordInv, GuardTypes, ClientInv, AnswerInv, AdmitsAreOwn
<1>1. ASSUME NEW c \in Call, guard = "kernel", OnRecord(c) PROVE c \in Admissible
  BY <1>1 DEF OnRecord, KernelRecords
<1>2. ASSUME NEW c \in Call, result[c] # "none", mode = "govern"
      PROVE  result[c] = "admit" <=> OnRecord(c)
  <2>1. CASE guard = "kernel"
    BY <1>2, <2>1 DEF OnRecord, KernelRecords
  <2>2. CASE guard = "session"
    BY <1>2, <2>2, CallsOfEvents DEF OnRecord, SessionRecords
  <2> QED
    BY <2>1, <2>2
<1> QED
  BY <1>1, <1>2 DEF DecidedAsRecorded

\* Every reachable state keeps what the client and the guards keep.
THEOREM RecordsKept == GSpec => [](ClientInv /\ RecordInv)
<1>1. GInit => ClientInv /\ RecordInv
  BY RecordInit
<1>2. ClientInv /\ RecordInv /\ [GNext]_gvars => (ClientInv /\ RecordInv)'
  BY RecordStep
<1> QED
  BY <1>1, <1>2, PTL DEF GSpec

\* KernelClient.decide: whatever threads do and however its kernel fails, a call that the
\* kernel admits is rejected only when that very call timed out or was failed by its
\* kernel, until a reply has answered another call.
THEOREM RejectionsAreOwn == GSpec => []RejectedForOwnReason
<1>1. GInit => StartInv /\ OwnInv
  BY OwnInit DEF GInit
<1>2. ClientInv /\ StartInv /\ OwnInv /\ [GNext]_gvars => (StartInv /\ OwnInv)'
  <2> SUFFICES ASSUME ClientInv, StartInv, OwnInv, [GNext]_gvars PROVE (StartInv /\ OwnInv)'
    OBVIOUS
  <2>1. [Next]_vars
    BY DEF GNext, gvars, KernelCheckReturns, SessionCheck, SessionGoes, Judge, ReadScope,
           WriteScope, Compare, AppendEvent, SessionCheckReturns, UpdateCredential, Expire
  <2> QED
    BY <2>1, StartStep, OwnStep DEF ClientInv
<1>3. OwnInv => RejectedForOwnReason
  BY KernelAssumption DEF OwnInv, InStep, RejectedForOwnReason
<1> QED
  BY <1>1, <1>2, <1>3, RecordsKept, PTL DEF GSpec

\* KernelGuard.check and DARMGuard.check: a record that says admitted is the kernel's own
\* answer, and in GOVERN a tool runs exactly when its record says so, for any number of
\* threads and whatever the kernel process does.
THEOREM DecisionsAreRecorded == GSpec => []DecidedAsRecorded
<1>1. ClientInv /\ RecordInv => DecidedAsRecorded
  BY RecordsSuffice
<1> QED
  BY <1>1, RecordsKept, PTL

-----------------------------------------------------------------------------
(* The drift of a session whose checks do not overlap.                     *)

Asked == SoFar(Len(events))

EventsExact ==
    \A i \in DOMAIN events :
        /\ events[i].result.drift = "within" <=> SoFar(i) \subseteq events[i].tools
        /\ events[i].scope = SoFar(i)

\* how far a check has carried what its call asks for
Stage(c) ==
    /\ at[c] \in {"judged", "read", "logged"} => scope = Asked
    /\ at[c] = "read" => widened[c] = Asked \cup Requested[c]
    /\ at[c] \in {"widened", "compared"} => scope = Asked \cup Requested[c]
    /\ at[c] \in {"judged", "read", "widened"} =>
          (judged[c].drift = "within" <=> Requested[c] \subseteq tools)
    /\ at[c] = "compared" => (judged[c].drift = "within" <=> scope \subseteq tools)

DriftInv ==
    /\ serial \in BOOLEAN
    /\ serial => /\ \A c, d \in InFlight : c = d
                 /\ EventsExact
                 /\ InFlight = {} => scope = Asked
                 /\ \A c \in InFlight : Stage(c)

\* An event adds what its call asked for, and leaves the earlier sums alone.
LEMMA AskedGrows ==
    ASSUME events \in Seq(Event), NEW e \in Event, events' = Append(events, e)
    PROVE  /\ \A i \in DOMAIN events : SoFar(i)' = SoFar(i)
           /\ \A n \in Nat : n = Len(events) => SoFar(n + 1)' = Asked \cup Requested[e.call]
           /\ Asked' = Asked \cup Requested[e.call]
<1>1. /\ Len(events) \in Nat /\ DOMAIN events = 1 .. Len(events)
      /\ Len(events') = Len(events) + 1
      /\ \A i \in DOMAIN events : events'[i] = events[i]
      /\ events'[Len(events) + 1] = e
  BY AppendEventProperties
<1>2. ASSUME NEW i \in DOMAIN events PROVE SoFar(i)' = SoFar(i)
  <2>1. \A j \in 1 .. i : events'[j] = events[j]
    BY <1>1
  <2> QED
    BY <2>1 DEF SoFar
<1>3. ASSUME NEW n \in Nat, n = Len(events)
      PROVE  SoFar(n + 1)' = Asked \cup Requested[e.call]
  <2>1. 1 .. n + 1 = (1 .. n) \cup {n + 1}
    BY <1>3
  <2>2. {Requested[events'[j].call] : j \in 1 .. n + 1} =
            {Requested[events[j].call] : j \in 1 .. n} \cup {Requested[e.call]}
    <3>1. \A j \in 1 .. n : events'[j] = events[j]
      BY <1>1, <1>3
    <3>2. events'[n + 1] = e
      BY <1>1, <1>3
    <3> DEFINE F(j) == Requested[events[j].call]
               G(j) == Requested[events'[j].call]
    <3>3. (\A j \in 1 .. n : G(j) = F(j)) /\ G(n + 1) = Requested[e.call]
      BY <3>1, <3>2
    <3> HIDE DEF F, G
    <3>4. {G(j) : j \in (1 .. n) \cup {n + 1}} = {F(j) : j \in 1 .. n} \cup {Requested[e.call]}
      BY <3>3
    <3> QED
      BY <2>1, <3>4 DEF F, G
  <2> QED
    BY <1>3, <2>2 DEF SoFar, Asked
<1>4. PICK n \in Nat : n = Len(events)
  BY <1>1
<1>5. Asked' = SoFar(n + 1)'
  BY <1>1, <1>4 DEF Asked
<1> QED
  BY <1>2, <1>3, <1>4, <1>5

\* A step that appends no event leaves every sum as it is.
LEMMA AskedKept ==
    ASSUME events' = events
    PROVE  Asked' = Asked /\ (EventsExact => EventsExact')
BY DEF Asked, EventsExact, SoFar

\* What the step of a check does to the set of checks in flight.
LEMMA InFlightStep ==
    ASSUME GuardTypes, NEW c \in Call, NEW from \in At, NEW to \in At, SessionGoes(c, from, to)
    PROVE  /\ at[c] = from /\ at'[c] = to
           /\ \A d \in Call \ {c} : at'[d] = at[d] /\ (d \in InFlight' <=> d \in InFlight)
           /\ c \in InFlight <=> from \notin {"idle", "done"}
           /\ c \in InFlight' <=> to \notin {"idle", "done"}
BY DEF GuardTypes, SessionGoes, InFlight

\* Every step of a session whose checks do not overlap keeps its sums and its drift verdicts exact.
LEMMA DriftStep ==
    ASSUME GuardTypes, DriftInv, [GNext]_gvars
    PROVE  DriftInv'
<1> USE DEF DriftInv
<1>1. CASE UNCHANGED session
  <2>1. UNCHANGED <<at, judged, widened, scope, events, tools, serial>>
    BY <1>1 DEF session
  <2> QED
    BY <2>1, AskedKept DEF InFlight, Stage
<1>2. ASSUME NEW c \in Call, Judge(c) PROVE DriftInv'
  <2>1. SessionGoes(c, "idle", "judged") /\ UNCHANGED <<scope, events, tools>>
    BY <1>2 DEF Judge
  <2>2. judged'[c] = Transfer(c) /\ serial' = (serial /\ InFlight = {})
    BY <1>2 DEF Judge, GuardTypes
  <2>3. ASSUME serial' PROVE InFlight' = {c} /\ Stage(c)'
    <3>1. InFlight' = {c}
      BY <2>1, <2>2, <2>3, InFlightStep DEF At, InFlight
    <3> QED
      BY <2>1, <2>2, <2>3, <3>1, InFlightStep, TransferType, AskedKept DEF At, Stage
  <2> QED
    BY <2>1, <2>2, <2>3, AskedKept
\* between the first and the last step of a check, nothing else is in flight
<1>3. ASSUME NEW c \in Call, NEW from \in At \ {"idle", "done"}, NEW to \in At \ {"idle", "done"},
             SessionGoes(c, from, to), events' = events, serial' = serial,
             serial => Stage(c)'
      PROVE  DriftInv'
  <2>1. InFlight' = InFlight /\ c \in InFlight
    BY <1>3, InFlightStep DEF InFlight
  <2>2. serial => InFlight = {c}
    BY <2>1
  <2> QED
    BY <1>3, <2>1, <2>2, AskedKept
<1>4. ASSUME NEW c \in Call, ReadScope(c) PROVE DriftInv'
  <2>1. SessionGoes(c, "judged", "read") /\ c \in InFlight /\ at[c] = "judged" /\ at'[c] = "read"
    BY <1>4, InFlightStep DEF ReadScope, At
  <2>2. UNCHANGED <<judged, scope, events, tools, serial>> /\ widened'[c] = scope \cup Requested[c]
    BY <1>4 DEF ReadScope, NewScope, GuardTypes
  <2>3. serial => Stage(c)'
    BY <2>1, <2>2, AskedKept DEF Stage
  <2> QED
    BY <1>3, <2>1, <2>2, <2>3 DEF At
<1>5. ASSUME NEW c \in Call, WriteScope(c) PROVE DriftInv'
  <2>1. SessionGoes(c, "read", "widened") /\ c \in InFlight /\ at[c] = "read" /\ at'[c] = "widened"
    BY <1>5, InFlightStep DEF WriteScope, At
  <2>2. UNCHANGED <<judged, events, tools, serial>> /\ scope' = widened[c]
    BY <1>5 DEF WriteScope
  <2>3. serial => Stage(c)'
    BY <2>1, <2>2, AskedKept DEF Stage
  <2> QED
    BY <1>3, <2>1, <2>2, <2>3 DEF At
<1>6. ASSUME NEW c \in Call, Compare(c) PROVE DriftInv'
  <2>1. /\ SessionGoes(c, "widened", "compared") /\ c \in InFlight
        /\ at[c] = "widened" /\ at'[c] = "compared"
    BY <1>6, InFlightStep DEF Compare, At
  <2>2. UNCHANGED <<scope, events, tools, serial>>
    BY <1>6 DEF Compare
  <2>3. judged'[c].drift = IF scope \subseteq tools \/ judged[c].drift # "within"
                           THEN judged[c].drift ELSE "drift"
    BY <1>6 DEF Compare, GuardTypes, Judged
  <2>4. serial => Stage(c)'
    BY <2>1, <2>2, <2>3, AskedKept DEF Stage
  <2> QED
    BY <1>3, <2>1, <2>2, <2>4 DEF At
<1>7. ASSUME NEW c \in Call, AppendEvent(c) PROVE DriftInv'
  <2> DEFINE e == [call |-> c, scope |-> scope, result |-> judged[c], tools |-> tools]
  <2>1. SessionGoes(c, "compared", "logged") /\ c \in InFlight /\ at[c] = "compared" /\ at'[c] = "logged"
    BY <1>7, InFlightStep DEF AppendEvent, At
  <2>2. UNCHANGED <<judged, scope, tools, serial>> /\ events' = Append(events, e)
    BY <1>7 DEF AppendEvent
  <2>3. e \in Event /\ e.call = c /\ e.scope = scope /\ e.result = judged[c] /\ e.tools = tools
    BY DEF Event, GuardTypes
  <2>4. events \in Seq(Event)
    BY DEF GuardTypes
  <2> HIDE DEF e
  <2>5. Asked' = Asked \cup Requested[c]
    BY <2>2, <2>3, <2>4, AskedGrows
  <2>6. serial => EventsExact'
    <3> SUFFICES ASSUME serial, NEW i \in DOMAIN events'
                 PROVE  /\ events'[i].result.drift = "within" <=> SoFar(i)' \subseteq events'[i].tools
                        /\ events'[i].scope = SoFar(i)'
      BY <2>2 DEF EventsExact
    <3>1. PICK n \in Nat : n = Len(events) /\ DOMAIN events = 1 .. n /\ DOMAIN events' = 1 .. n + 1
      BY <2>2, <2>3, <2>4, AppendEventProperties
    <3>2. CASE i \in DOMAIN events
      <4>1. events'[i] = events[i] /\ SoFar(i)' = SoFar(i)
        BY <2>2, <2>3, <2>4, <3>2, AppendEventProperties, AskedGrows
      <4> QED
        BY <3>2, <4>1 DEF EventsExact
    <3>3. CASE i = n + 1
      <4>1. events'[i] = e /\ SoFar(i)' = Asked \cup Requested[c]
        BY <2>2, <2>3, <2>4, <3>1, <3>3, AppendEventProperties, AskedGrows
      <4>2. scope = Asked \cup Requested[c] /\ (judged[c].drift = "within" <=> scope \subseteq tools)
        BY <2>1 DEF Stage
      <4> QED
        BY <2>3, <4>1, <4>2
    <3> QED
      BY <3>1, <3>2, <3>3
  <2>7. serial => scope' = Asked' /\ Stage(c)'
    BY <2>1, <2>2, <2>5 DEF Stage
  <2>8. InFlight' = InFlight
    BY <2>1, InFlightStep DEF InFlight, At
  <2>9. serial => InFlight = {c}
    BY <2>1
  <2> QED
    BY <2>2, <2>6, <2>7, <2>8, <2>9
<1>8. ASSUME NEW c \in Call, SessionCheckReturns(c) PROVE DriftInv'
  <2>1. SessionGoes(c, "logged", "done") /\ c \in InFlight /\ at[c] = "logged"
    BY <1>8, InFlightStep DEF SessionCheckReturns, At
  <2>2. UNCHANGED <<scope, events, serial>>
    BY <1>8 DEF SessionCheckReturns
  <2>3. InFlight' = InFlight \ {c}
    BY <2>1, InFlightStep DEF InFlight, At
  <2>4. serial => InFlight' = {}
    BY <2>1, <2>3
  <2>5. serial => scope = Asked
    BY <2>1 DEF Stage
  <2> QED
    BY <2>2, <2>4, <2>5, AskedKept
<1>9. ASSUME NEW t \in Expansion, UpdateCredential(t) PROVE DriftInv'
  <2>1. /\ UNCHANGED <<at, judged, widened, scope, events>>
        /\ serial' = (serial /\ InFlight = {})
    BY <1>9 DEF UpdateCredential
  <2>2. InFlight' = InFlight
    BY <2>1 DEF InFlight
  <2> QED
    BY <2>1, <2>2, AskedKept
<1>10. CASE Expire
  <2>1. UNCHANGED <<at, judged, widened, scope, events, tools, serial>>
    BY <1>10 DEF Expire
  <2> QED
    BY <2>1, AskedKept DEF InFlight, Stage
<1> QED
  BY <1>1, <1>2, <1>4, <1>5, <1>6, <1>7, <1>8, <1>9, <1>10
  DEF GNext, SessionCheck, KernelCheckReturns, gvars

\* Session.check: over any sequence of calls, refusals, expansions and expiry, a session
\* whose checks do not overlap calls an event "within" exactly when nothing asked for so
\* far is outside the credential.
THEOREM DriftStaysExact == GSpec => []DriftIsExact
<1>1. GInit => DriftInv
  <2> SUFFICES ASSUME GInit PROVE DriftInv
    OBVIOUS
  <2>1. InFlight = {} /\ events = <<>> /\ scope = {} /\ serial = TRUE
    BY DEF GInit, InFlight
  <2>2. Asked = {} /\ EventsExact
    BY <2>1 DEF Asked, SoFar, EventsExact
  <2> QED
    BY <2>1, <2>2 DEF DriftInv
<1>2. ClientInv /\ RecordInv /\ DriftInv /\ [GNext]_gvars => DriftInv'
  BY DriftStep DEF RecordInv
<1>3. DriftInv => DriftIsExact
  BY DEF DriftInv, EventsExact, DriftIsExact
<1> QED
  BY <1>1, <1>2, <1>3, RecordsKept, PTL DEF GSpec

=============================================================================
