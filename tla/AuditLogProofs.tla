--------------------------- MODULE AuditLogProofs ---------------------------
(***************************************************************************)
(* Proofs about AuditLog, for every set of handler threads, every interval *)
(* of checkpoints and every number of entries, deaths and rewritings.      *)
(*                                                                         *)
(* The chain, the checkpoints and the interval are kept as long as no      *)
(* append that raised has left its line in the file (strays): a later one  *)
(* forks the chain (AuditLog_broken.cfg). Why a start refuses the log, and *)
(* that the broker's own log passes, hold over every failure.              *)
(***************************************************************************)
EXTENDS AuditLog, TLAPS, SequenceTheorems, WellFoundedInduction

-----------------------------------------------------------------------------
(* The inductive invariant.                                                *)

\* no append that raised has left anything in the file
Untouched == strays = {}

PrevOf(f, i) == IF i = 1 THEN Zero ELSE f[i - 1].hash

\* a chain of different hashes, all below n
Good(f, n) ==
    /\ \A i \in DOMAIN f : f[i].whole /\ f[i].hash \in 1 .. n - 1 /\ f[i].prev = PrevOf(f, i)
    /\ \A i, j \in DOMAIN f : f[i].hash = f[j].hash => i = j

ChainInv == Good(file, next)

\* while it runs, AuditLog's memory is the end of the file
MemoryInv == mode # "down" =>
    /\ count = Len(file)
    /\ prev = IF file = <<>> THEN Zero ELSE file[Len(file)].hash
    /\ genesis = IF file = <<>> THEN Zero ELSE file[1].hash

\* the main thread is at the log only while it starts or stops the server
ControlInv ==
    /\ mode = "down" => \A t \in Threads : pc[t] = "idle"
    /\ pc[Main] # "idle" => mode \in {"starting", "started", "stopping", "closing"}

\* what a thread is about to publish is in the log, whatever was appended since
IsHead(f, cp) == /\ cp.count \in 1 .. Len(f)
                 /\ f[1].hash = cp.genesis /\ f[cp.count].hash = cp.head
HeadInv == \A t \in Threads : pc[t] \in {"appended", "publishing"} => IsHead(file, snap[t])

\* what was published is what the log had, and a hash met again has the same hash below it
Sound(f, n, cp, c) ==
    /\ cp.count \in Nat \ {0} /\ Len(c) = cp.count /\ c[cp.count] = cp.head
    /\ \A j \in 1 .. cp.count : c[j] \in 1 .. n - 1
    /\ \A j \in 2 .. cp.count : \A k \in DOMAIN f : f[k].hash = c[j] => f[k].prev = c[j - 1]
SinkInv == /\ rewrites = 0 => \A i \in DOMAIN sink : IsHead(file, sink[i])
           /\ \A i \in DOMAIN sink : Sound(file, next, sink[i], covers[i])

\* while publications succeed: the interval counts from an attempt that was or is being
\* published, and a record beyond it has a thread that will ask
NoTrouble == ~inHook /\ nested = {} /\ \A t \in Threads : pc[t] \in {"idle", "appended", "publishing"}
Attempted(n) == \/ n = 0
                \/ \E i \in DOMAIN sink : sink[i].count >= n
                \/ \E t \in Threads : pc[t] = "publishing" /\ snap[t].count >= n
Ahead(n)  == lastCount <= n /\ \A t \in Threads : pc[t] = "publishing" => snap[t].count <= n
Asked(n)  == count - n < Every \/ \E t \in Threads : pc[t] = "appended" /\ snap[t].count = count
Paced ==
    /\ NoTrouble
    /\ mode # "down" => Attempted(lastAttempt)
    /\ mode \in {"starting", "started", "up"} => Ahead(lastAttempt)
    /\ mode \in {"started", "up"} => Asked(lastAttempt)
    /\ mode \in {"starting", "started"} => \A t \in Thread : pc[t] = "idle"
    /\ mode = "starting" => /\ lastCount = 0 /\ (pc[Main] # "publishing" => lastAttempt = 0)
                            /\ pc[Main] # "idle" => snap[Main].count = count
IntervalInv == failures = 0 => Paced

IInv == TypeOK /\ ChainInv /\ MemoryInv /\ ControlInv /\ HeadInv /\ SinkInv /\ IntervalInv

-----------------------------------------------------------------------------
(* Lemmas about chains.                                                    *)

\* A non-empty set of numbers up to n has the greatest element Max picks.
LEMMA Greatest ==
    ASSUME NEW n \in Nat, NEW S \in SUBSET (0 .. n), S # {}
    PROVE  Max(S) \in S /\ \A j \in S : j <= Max(S)
<1> DEFINE T == {n - i : i \in S}
<1>1. T \subseteq Nat /\ T # {}
  OBVIOUS
<1>2. PICK t \in T : \A y \in T : ~(<<y, t>> \in OpToRel(<, Nat))
  BY <1>1, NatLessThanWellFounded, WFMin
<1>3. PICK m \in S : t = n - m
  OBVIOUS
<1>4. ASSUME NEW j \in S PROVE m >= j
  <2>1. n - j \in T /\ n - j \in Nat /\ n - m \in Nat
    BY <1>1
  <2>2. ~(n - j < n - m)
    BY <1>2, <1>3, <2>1 DEF OpToRel
  <2> QED
    BY <2>2
<1>5. \E x \in S : \A y \in S : x >= y
  BY <1>4
<1> QED
  BY <1>5 DEF Max

\* What a log file is.
LEMMA Lines ==
    ASSUME NEW f \in Seq(Line)
    PROVE  /\ Len(f) \in Nat /\ DOMAIN f = 1 .. Len(f) /\ (f = <<>> <=> Len(f) = 0)
           /\ \A i \in DOMAIN f : f[i] \in Line /\ f[i].hash \in Hash /\ f[i].prev \in Hash
<1>1. Len(f) \in Nat /\ DOMAIN f = 1 .. Len(f) /\ (f = <<>> <=> Len(f) = 0)
  BY LenProperties, EmptySeq
<1>2. \A i \in DOMAIN f : f[i] \in Line
  BY <1>1, ElementOfSeq
<1> QED
  BY <1>1, <1>2 DEF Line

\* A line added at the end leaves the others in place.
LEMMA AppendLine ==
    ASSUME NEW f \in Seq(Line), NEW e \in Line
    PROVE  /\ Append(f, e) \in Seq(Line) /\ Len(Append(f, e)) = Len(f) + 1
           /\ \A i \in 1 .. Len(f) : Append(f, e)[i] = f[i]
           /\ Append(f, e)[Len(f) + 1] = e
BY AppendProperties, LenProperties

\* An entry with a new hash that names the last one continues the chain.
LEMMA GoodAppend ==
    ASSUME NEW f \in Seq(Line), NEW n \in Nat \ {0}, Good(f, n),
           NEW e \in Line, e.whole, e.hash = n, e.prev = PrevOf(f, Len(f) + 1)
    PROVE  Good(Append(f, e), n + 1)
<1>1. /\ Len(f) \in Nat /\ DOMAIN f = 1 .. Len(f) /\ DOMAIN Append(f, e) = 1 .. Len(f) + 1
      /\ \A i \in 1 .. Len(f) : Append(f, e)[i] = f[i]
      /\ Append(f, e)[Len(f) + 1] = e
  BY Lines, AppendLine
<1> DEFINE g == Append(f, e)
<1>2. \A i \in 1 .. Len(f) + 1 : PrevOf(g, i) = PrevOf(f, i)
  BY <1>1 DEF PrevOf
<1>3. \A i \in 1 .. Len(f) : f[i].whole /\ f[i].hash \in 1 .. n - 1 /\ f[i].prev = PrevOf(f, i)
  BY <1>1 DEF Good
<1>4. \A i \in 1 .. Len(f) + 1 : g[i].whole /\ g[i].hash \in 1 .. n /\ g[i].prev = PrevOf(g, i)
  <2> SUFFICES ASSUME NEW i \in 1 .. Len(f) + 1
               PROVE  g[i].whole /\ g[i].hash \in 1 .. n /\ g[i].prev = PrevOf(g, i)
    OBVIOUS
  <2>1. CASE i = Len(f) + 1
    <3>1. g[i] = e
      BY <1>1, <2>1
    <3> QED
      BY <1>1, <1>2, <2>1, <3>1
  <2>2. CASE i \in 1 .. Len(f)
    <3>1. g[i] = f[i]
      BY <1>1, <2>2
    <3> QED
      BY <1>1, <1>2, <1>3, <2>2, <3>1
  <2> QED
    BY <1>1, <2>1, <2>2
<1>5. \A i, j \in 1 .. Len(f) + 1 : g[i].hash = g[j].hash => i = j
  <2>1. \A i \in 1 .. Len(f) : g[i].hash = f[i].hash /\ g[i].hash # n
    BY <1>1, <1>3
  <2>2. \A i, j \in 1 .. Len(f) : f[i].hash = f[j].hash => i = j
    BY <1>1 DEF Good
  <2>3. g[Len(f) + 1].hash = n
    BY <1>1
  <2> HIDE DEF g
  <2> QED
    BY <1>1, <2>1, <2>2, <2>3
<1>6. Good(g, n + 1)
  <2> HIDE DEF g
  <2>1. DOMAIN g = 1 .. Len(f) + 1
    BY <1>1 DEF g
  <2> QED
    BY <1>4, <1>5, <2>1 DEF Good
<1> QED
  BY <1>6

\* A bound on the hashes may grow.
LEMMA GoodLater ==
    ASSUME NEW f, NEW n \in Nat, NEW m \in Nat, n <= m, Good(f, n)
    PROVE  Good(f, m)
<1>1. \A h \in 1 .. n - 1 : h \in 1 .. m - 1
  OBVIOUS
<1> QED
  BY <1>1 DEF Good

\* The log cut after its k-th line is the chain up to there.
LEMMA GoodCut ==
    ASSUME NEW f \in Seq(Line), NEW n \in Nat \ {0}, Good(f, n), NEW k \in 0 .. Len(f)
    PROVE  /\ SubSeq(f, 1, k) \in Seq(Line) /\ Len(SubSeq(f, 1, k)) = k
           /\ \A i \in 1 .. k : i \in DOMAIN f /\ SubSeq(f, 1, k)[i] = f[i]
           /\ Good(SubSeq(f, 1, k), n)
<1> DEFINE g == SubSeq(f, 1, k)
<1>1. Len(f) \in Nat /\ DOMAIN f = 1 .. Len(f) /\ \A i \in 1 .. k : f[i] \in Line
  BY Lines
<1>2. g \in Seq(Line) /\ Len(g) = k /\ \A i \in 1 .. k : i \in DOMAIN f /\ g[i] = f[i]
  BY <1>1, SubSeqProperties
<1>3. DOMAIN g = 1 .. k
  BY <1>2, LenProperties
<1> HIDE DEF g
<1>4. \A i \in 1 .. k : PrevOf(g, i) = PrevOf(f, i)
  BY <1>1, <1>2 DEF PrevOf
<1>5. Good(g, n)
  BY <1>2, <1>3, <1>4 DEF Good
<1> QED
  BY <1>2, <1>5 DEF g

\* A published checkpoint stays sound over a log whose lines are old ones or new hashes.
LEMMA SoundKept ==
    ASSUME NEW f, NEW n \in Nat, NEW g, NEW m \in Nat, n <= m, NEW cp, NEW c, Sound(f, n, cp, c),
           \A k \in DOMAIN g : g[k].hash = n \/ (k \in DOMAIN f /\ g[k] = f[k])
    PROVE  Sound(g, m, cp, c)
<1>1. \A j \in 1 .. cp.count : c[j] \in 1 .. m - 1 /\ c[j] # n
  BY DEF Sound
<1>2. ASSUME NEW j \in 2 .. cp.count, NEW k \in DOMAIN g, g[k].hash = c[j]
      PROVE  g[k].prev = c[j - 1]
  <2>1. cp.count \in Nat /\ j \in 1 .. cp.count
    BY DEF Sound
  <2>2. g[k].hash # n
    BY <1>1, <1>2, <2>1
  <2>3. k \in DOMAIN f /\ g[k] = f[k]
    BY <2>2
  <2> QED
    BY <1>2, <2>3 DEF Sound
<1> QED
  BY <1>1, <1>2 DEF Sound

\* The hashes of the first n lines of the log.
LEMMA HashesOfLog ==
    ASSUME NEW f \in Seq(Line), NEW n \in 0 .. Len(f)
    PROVE  /\ HashesOf(f, n) \in Seq(Hash) /\ Len(HashesOf(f, n)) = n
           /\ \A j \in 1 .. n : HashesOf(f, n)[j] = f[j].hash
<1>1. Len(f) \in Nat /\ n \in Nat /\ \A i \in 1 .. n : f[i].hash \in Hash
  BY Lines
<1>2. HashesOf(f, n) \in [1 .. n -> Hash]
  BY <1>1 DEF HashesOf
<1>3. HashesOf(f, n) \in Seq(Hash)
  BY <1>1, <1>2, SeqDef
<1>4. DOMAIN HashesOf(f, n) = 1 .. n
  BY DEF HashesOf
<1>5. Len(HashesOf(f, n)) = n
  BY <1>1, <1>3, <1>4, LenProperties
<1> QED
  BY <1>3, <1>5 DEF HashesOf

-----------------------------------------------------------------------------
(* What a step does to the file.                                           *)

\* An append that raises and leaves nothing in the file changes nothing.
LEMMA RaisesClean ==
    ASSUME Untouched', NEW fault \in AppendFaults, Raises(fault)
    PROVE  UNCHANGED <<file, prev, count, genesis, snap>>
<1>1. fault = "clean"
  BY DEF Untouched, Raises, Strays
<1> QED
  BY <1>1 DEF Raises, InFile, memory

\* An append leaves the file one entry longer and the memory at its end.
LEMMA WrittenEntry ==
    ASSUME TypeOK, ChainInv, MemoryInv, mode # "down", next <= MaxEntries,
           NEW t \in Threads, Written(t)
    PROVE  /\ Entry(TRUE) \in Line /\ file' = Append(file, Entry(TRUE))
           /\ file' \in Seq(Line) /\ Good(file', next + 1)
           /\ Len(file') = Len(file) + 1 /\ file' # <<>>
           /\ \A i \in 1 .. Len(file) : file'[i] = file[i]
           /\ file'[Len(file')].hash = next
           /\ count' = Len(file') /\ prev' = file'[Len(file')].hash /\ genesis' = file'[1].hash
           /\ prev' \in Hash /\ genesis' \in Hash /\ count' \in Nat
           /\ snap'[t] \in Checkpoint /\ IsHead(file', snap'[t]) /\ snap'[t].count = count'
           /\ snap' \in [Threads -> Checkpoint] /\ \A s \in Threads \ {t} : snap'[s] = snap[s]
<1> USE LogAssumption
<1>1. file \in Seq(Line) /\ next \in 1 .. MaxEntries /\ next \in Hash \ {Zero}
  BY DEF TypeOK, Hash, Zero
<1>2. /\ Len(file) \in Nat /\ DOMAIN file = 1 .. Len(file) /\ (file = <<>> <=> Len(file) = 0)
      /\ \A i \in DOMAIN file : file[i].hash \in Hash
  BY <1>1, Lines
<1>0. /\ prev' = next /\ count' = count + 1
      /\ genesis' = IF genesis = Zero THEN next ELSE genesis
      /\ count = Len(file) /\ prev = PrevOf(file, Len(file) + 1)
      /\ genesis = IF file = <<>> THEN Zero ELSE file[1].hash
  BY <1>2 DEF Written, MemoryInv, PrevOf
<1>3. Entry(TRUE) \in Line
  BY <1>1 DEF TypeOK, Entry, Line
<1>4. file' = Append(file, Entry(TRUE))
  <2>1. file = <<>> \/ Last(file).whole
    BY <1>2 DEF ChainInv, Good, Last
  <2> QED
    BY <2>1 DEF Written, AddLine
<1>5. /\ file' \in Seq(Line) /\ Len(file') = Len(file) + 1
      /\ \A i \in 1 .. Len(file) : file'[i] = file[i]
      /\ file'[Len(file) + 1] = Entry(TRUE)
  BY <1>1, <1>3, <1>4, AppendLine
<1>6. Entry(TRUE).hash = next /\ Entry(TRUE).whole /\ Entry(TRUE).prev = prev
  BY DEF Entry
<1>7. Good(file', next + 1)
  <2> DEFINE e == Entry(TRUE)
  <2>1. e \in Line /\ e.whole /\ e.hash = next /\ e.prev = PrevOf(file, Len(file) + 1)
    BY <1>0, <1>3, <1>6
  <2>2. next \in Nat \ {0} /\ Good(file, next)
    BY <1>1 DEF ChainInv
  <2> HIDE DEF e
  <2>3. Good(Append(file, e), next + 1)
    BY <1>1, <2>1, <2>2, GoodAppend
  <2> QED
    BY <1>4, <2>3 DEF e
<1>8. count' = Len(file') /\ prev' = next /\ file'[Len(file')].hash = next /\ file' # <<>>
  <2>1. Len(file') # 0
    BY <1>2, <1>5
  <2> QED
    BY <1>0, <1>2, <1>5, <1>6, <2>1, EmptySeq
<1>9. genesis' = file'[1].hash
  <2>1. CASE file = <<>>
    <3>1. Len(file) + 1 = 1 /\ genesis' = next
      BY <1>0, <1>2, <2>1
    <3> QED
      BY <1>5, <1>6, <3>1
  <2>2. CASE file # <<>>
    <3>1. genesis = file[1].hash /\ genesis # Zero /\ file'[1] = file[1]
      BY <1>0, <1>2, <1>5, <2>2 DEF ChainInv, Good, Zero
    <3> QED
      BY <1>0, <3>1
  <2> QED
    BY <2>1, <2>2
<1>10. prev' \in Hash /\ genesis' \in Hash /\ count' \in Nat
  BY <1>0, <1>1, <1>2, <1>5, <1>8 DEF TypeOK
<1>11. /\ snap' \in [Threads -> Checkpoint]
       /\ snap'[t] = [genesis |-> genesis', count |-> count', head |-> next]
       /\ \A s \in Threads \ {t} : snap'[s] = snap[s]
  <2>1. [genesis |-> genesis', count |-> count', head |-> next] \in Checkpoint
    BY <1>1, <1>10 DEF Checkpoint
  <2> QED
    BY <2>1 DEF TypeOK, Written
<1>12. IsHead(file', snap'[t]) /\ snap'[t].count = count'
  <2>1. /\ snap'[t].genesis = genesis' /\ snap'[t].count = count' /\ snap'[t].head = next
    BY <1>11
  <2>2. count' \in 1 .. Len(file')
    BY <1>2, <1>5, <1>8
  <2> QED
    BY <1>8, <1>9, <2>1, <2>2 DEF IsHead
<1> QED
  BY <1>3, <1>4, <1>5, <1>7, <1>8, <1>9, <1>10, <1>11, <1>12

\* What is at the head of a prefix is in the log.
LEMMA HeadKept ==
    ASSUME NEW f, NEW g, Len(f) \in Nat, Len(g) \in Nat, Len(f) <= Len(g),
           \A i \in 1 .. Len(f) : g[i] = f[i], NEW cp, IsHead(f, cp)
    PROVE  IsHead(g, cp)
BY DEF IsHead

-----------------------------------------------------------------------------
(* Every step keeps the control of the threads.                            *)

Step == {"idle", "appended", "publishing", "failed", "flagging", "recording"}
ControlType == mode \in Mode /\ inHook \in BOOLEAN /\ nested \subseteq Threads /\ pc \in [Threads -> Step]

\* A thread that leaves its hook is idle, and the main thread goes on to the next phase.
LEMMA Leaves ==
    ASSUME ControlType, ControlInv, mode # "down",
           NEW t \in Threads, pc[t] # "idle", NEW c \in BOOLEAN, Leave(t, c)
    PROVE  /\ ControlType' /\ ControlInv' /\ mode' # "down"
           /\ mode' = "refused" => mode = "refused"
           /\ pc'[t] = "idle" /\ \A s \in Threads \ {t} : pc'[s] = pc[s]
           /\ t # Main => mode' = mode
           /\ t = Main => <<mode, mode'>> \in {<<"starting", "started">>, <<"started", "up">>,
                                               <<"stopping", "closing">>, <<"closing", "stopped">>}
<1>1. /\ pc' \in [Threads -> Step] /\ pc'[t] = "idle"
      /\ \A s \in Threads \ {t} : pc'[s] = pc[s]
  BY DEF ControlType, Leave, Step
<1>2. t # Main => mode' = mode
  BY DEF Leave
<1>3. t = Main => <<mode, mode'>> \in {<<"starting", "started">>, <<"started", "up">>,
                                       <<"stopping", "closing">>, <<"closing", "stopped">>}
  BY DEF Leave, ControlInv, After
<1>4. inHook' \in BOOLEAN /\ nested' \subseteq Threads
  BY DEF ControlType, Leave
<1>5. mode' \in Mode /\ mode' # "down" /\ (mode' = "refused" => mode = "refused")
  BY <1>2, <1>3 DEF ControlType, ControlInv, Mode
<1>6. pc'[Main] # "idle" => mode' \in {"starting", "started", "stopping", "closing"}
  BY <1>1, <1>2 DEF ControlInv, Threads
<1> QED
  BY <1>1, <1>2, <1>3, <1>4, <1>5, <1>6 DEF ControlType, ControlInv

\* Every step keeps the control of the threads.
LEMMA ControlStep ==
    ASSUME ControlType, ControlInv, [Next]_vars
    PROVE  ControlType' /\ ControlInv'
<1> USE LogAssumption DEF hook
<1>1. CASE UNCHANGED vars
  BY <1>1 DEF vars, ControlType, ControlInv
<1>2. ASSUME NEW t \in Thread, AppendEntry(t) PROVE ControlType' /\ ControlInv'
  BY <1>2 DEF AppendEntry, Serving, ControlType, ControlInv, Threads, Step
<1>3. ASSUME NEW t \in Threads, mode # "down", Hook(t) PROVE ControlType' /\ ControlInv'
  <2>1. CASE Attempt(t)
    BY <1>3, <2>1 DEF Attempt, ControlType, ControlInv, Step
  <2>2. CASE NotDue(t)
    BY <1>3, <2>2, Leaves DEF NotDue
  <2>3. CASE Publish(t)
    BY <1>3, <2>3, Leaves DEF Publish
  <2>4. CASE PublishFails(t)
    BY <1>3, <2>4 DEF PublishFails, ControlType, ControlInv, Step
  <2>5. CASE SeeFailure(t)
    <3>1. CASE Leave(t, FALSE)
      BY <1>3, <2>5, <3>1, Leaves DEF SeeFailure
    <3>2. CASE ~inHook /\ pc' = [pc EXCEPT ![t] = "flagging"] /\ UNCHANGED <<mode, inHook, nested>>
      BY <1>3, <2>5, <3>2 DEF SeeFailure, ControlType, ControlInv, Step
    <3> QED
      BY <2>5, <3>1, <3>2 DEF SeeFailure
  <2>6. CASE SetFlag(t)
    BY <1>3, <2>6 DEF SetFlag, ControlType, ControlInv, Step
  <2>7. CASE RecordFailure(t)
    <3>1. CASE Leave(t, TRUE)
      BY <1>3, <2>7, <3>1, Leaves DEF RecordFailure
    <3>2. CASE /\ nested' = nested \cup {t}
               /\ pc' = [pc EXCEPT ![t] = "appended"] /\ UNCHANGED <<mode, inHook>>
      BY <1>3, <2>7, <3>2 DEF RecordFailure, ControlType, ControlInv, Step
    <3> QED
      BY <2>7, <3>1, <3>2 DEF RecordFailure
  <2> QED
    BY <1>3, <2>1, <2>2, <2>3, <2>4, <2>5, <2>6, <2>7 DEF Hook
<1>4. CASE Start
  BY <1>4 DEF Start, ControlType, ControlInv, Mode, Threads
<1>5. CASE MainRecord
  BY <1>5 DEF MainRecord, ControlType, ControlInv, Mode, Threads, Step
<1>6. CASE CheckpointNow
  BY <1>6 DEF CheckpointNow, ControlType, ControlInv, Mode, Threads, Step, After
<1>7. CASE Sigterm
  BY <1>7 DEF Sigterm, ControlType, ControlInv, Mode
<1>8. CASE Crash
  BY <1>8 DEF Crash, ControlType, ControlInv, Mode, Threads, Step
<1>9. CASE Rewrite
  BY <1>9 DEF Rewrite, ControlType, ControlInv
<1> QED
  BY <1>1, <1>2, <1>3, <1>4, <1>5, <1>6, <1>7, <1>8, <1>9 DEF Next

-----------------------------------------------------------------------------
(* Every step keeps the chain.                                             *)

\* A step leaves the log and the memory of it, appends an entry, starts or is an edit.
Still   == /\ UNCHANGED <<file, prev, count, genesis>> /\ next' \in next .. MaxEntries + 1
           /\ mode' # "down" => mode # "down"
Grew(t) == mode # "down" /\ next <= MaxEntries /\ next' = next + 1 /\ Written(t)

\* There is no other step.
LEMMA FileSteps ==
    ASSUME Untouched', TypeOK, ControlInv, [Next]_vars
    PROVE  Still \/ (\E t \in Threads : Grew(t)) \/ Start \/ Rewrite
<1> USE LogAssumption DEF memory
<1>0. next \in 1 .. MaxEntries + 1 /\ MaxEntries \in Nat
  BY DEF TypeOK
<1>1. CASE UNCHANGED vars
  BY <1>0, <1>1 DEF vars, Still
<1>2. ASSUME NEW t \in Thread, AppendEntry(t) PROVE Still \/ \E u \in Threads : Grew(u)
  <2>1. mode # "down" /\ mode' = mode /\ next <= MaxEntries /\ next' = next + 1
    BY <1>2 DEF AppendEntry, Serving, Hashed
  <2>2. CASE Written(t)
    BY <2>1, <2>2 DEF Grew, Threads
  <2>3. CASE \E fault \in AppendFaults : Raises(fault)
    BY <1>0, <2>1, <2>3, RaisesClean DEF Still
  <2> QED
    BY <1>2, <2>2, <2>3 DEF AppendEntry
<1>3. ASSUME NEW t \in Threads, mode # "down", Hook(t) PROVE Still \/ \E u \in Threads : Grew(u)
  <2>1. CASE RecordFailure(t)
    <3>1. next <= MaxEntries /\ next' = next + 1
      BY <2>1 DEF RecordFailure, Hashed
    <3>2. CASE Written(t)
      BY <1>3, <3>1, <3>2 DEF Grew
    <3>3. CASE \E fault \in AppendFaults : Raises(fault)
      BY <1>0, <1>3, <3>1, <3>3, RaisesClean DEF Still
    <3> QED
      BY <2>1, <3>2, <3>3 DEF RecordFailure
  <2>2. ASSUME \/ Attempt(t) \/ NotDue(t) \/ Publish(t) \/ PublishFails(t)
               \/ SeeFailure(t) \/ SetFlag(t)
        PROVE  UNCHANGED <<file, prev, count, genesis>> /\ next' = next
    BY <2>2 DEF Attempt, NotDue, Publish, PublishFails, SeeFailure, SetFlag
  <2> QED
    BY <1>0, <1>3, <2>1, <2>2 DEF Hook, Still
<1>4. CASE MainRecord
  <2>1. mode # "down" /\ next <= MaxEntries /\ next' = next + 1
    BY <1>4 DEF MainRecord, Hashed
  <2>2. CASE Written(Main)
    BY <2>1, <2>2 DEF Grew, Threads
  <2>3. CASE \E fault \in AppendFaults : Raises(fault)
    BY <1>0, <2>1, <2>3, RaisesClean DEF Still
  <2> QED
    BY <1>4, <2>2, <2>3 DEF MainRecord
<1>5. CASE CheckpointNow
  BY <1>0, <1>5 DEF CheckpointNow, Still
<1>6. CASE Sigterm
  BY <1>0, <1>6 DEF Sigterm, Still
<1>7. CASE Crash
  BY <1>0, <1>7 DEF Crash, Still
<1> QED
  BY <1>1, <1>2, <1>3, <1>4, <1>5, <1>6, <1>7 DEF Next

\* What a step may do to the log: only an edit takes lines away, and every line that was
\* not there has a hash of its own.
Extended == Len(file) <= Len(file') /\ \A i \in 1 .. Len(file) : file'[i] = file[i]
Fresh    == \A k \in DOMAIN file' : file'[k].hash = next \/ (k \in DOMAIN file /\ file'[k] = file[k])

\* An edit cuts the log and may continue it.
LEMMA EditedLog ==
    ASSUME TypeOK, ChainInv, Rewrite
    PROVE  /\ file' \in Seq(Line) /\ ChainInv' /\ Fresh
           /\ next' \in next .. MaxEntries + 1
<1> USE LogAssumption
<1>0. file \in Seq(Line) /\ next \in 1 .. MaxEntries + 1 /\ next \in Nat \ {0} /\ Good(file, next)
  BY DEF TypeOK, ChainInv
<1>1. PICK n \in 0 .. Len(file) :
         \/ file' = SubSeq(file, 1, n) /\ next' = next
         \/ /\ Hashed
            /\ file' = Append(SubSeq(file, 1, n),
                              [hash |-> next, whole |-> TRUE,
                               prev |-> IF n = 0 THEN Zero ELSE file[n].hash])
  BY DEF Rewrite
<1> DEFINE cut == SubSeq(file, 1, n)
           e   == [hash |-> next, whole |-> TRUE, prev |-> IF n = 0 THEN Zero ELSE file[n].hash]
<1>2. /\ cut \in Seq(Line) /\ Len(cut) = n /\ Good(cut, next)
      /\ \A i \in 1 .. n : i \in DOMAIN file /\ cut[i] = file[i]
  BY <1>0, GoodCut
<1>3. DOMAIN cut = 1 .. n
  BY <1>2, LenProperties
<1>4. n \in Nat /\ n <= Len(file) /\ DOMAIN file = 1 .. Len(file) /\ Len(file) \in Nat
  BY <1>0, Lines
<1>5. CASE file' = cut /\ next' = next
  <2>1. ChainInv'
    BY <1>2, <1>5 DEF ChainInv
  <2> QED
    BY <1>0, <1>2, <1>3, <1>5, <2>1 DEF Fresh
<1>6. CASE Hashed /\ file' = Append(cut, e)
  <2>1. next \in Hash /\ next' = next + 1 /\ next' \in next .. MaxEntries + 1
    BY <1>0, <1>6 DEF Hashed, Hash
  <2>2. e.prev = PrevOf(cut, Len(cut) + 1) /\ e.prev \in Hash
    <3>1. CASE n = 0
      BY <1>2, <3>1 DEF PrevOf, Hash, Zero
    <3>2. CASE n # 0
      <4>1. n \in 1 .. n /\ n + 1 # 1 /\ (n + 1) - 1 = n
        BY <1>4, <3>2
      <4>2. cut[n] = file[n] /\ file[n].hash \in Hash
        BY <1>0, <1>2, <4>1, Lines
      <4> QED
        BY <1>2, <3>2, <4>1, <4>2 DEF PrevOf
    <3> QED
      BY <3>1, <3>2
  <2>3. e \in Line /\ e.whole /\ e.hash = next
    BY <2>1, <2>2 DEF Line
  <2> HIDE DEF e, cut
  <2>4. /\ Append(cut, e) \in Seq(Line) /\ Len(Append(cut, e)) = n + 1
        /\ \A i \in 1 .. n : Append(cut, e)[i] = cut[i]
        /\ Append(cut, e)[n + 1] = e
    BY <1>2, <2>3, AppendLine
  <2>5. Good(Append(cut, e), next + 1)
    BY <1>0, <1>2, <2>2, <2>3, GoodAppend
  <2>6. ChainInv'
    BY <1>6, <2>1, <2>5 DEF ChainInv
  <2>7. DOMAIN file' = 1 .. n + 1
    BY <1>4, <1>6, <2>4, LenProperties
  <2>8. Fresh
    <3> SUFFICES ASSUME NEW k \in 1 .. n + 1
                 PROVE  file'[k].hash = next \/ (k \in DOMAIN file /\ file'[k] = file[k])
      BY <2>7 DEF Fresh
    <3>1. k = n + 1 \/ k \in 1 .. n
      BY <1>4
    <3> QED
      BY <1>2, <1>6, <2>3, <2>4, <3>1
  <2> QED
    BY <1>6, <2>1, <2>4, <2>6, <2>8
<1> QED
  BY <1>1, <1>5, <1>6

\* Every step keeps the log an unbroken chain, and the memory of it at its end.
LEMMA FileStep ==
    ASSUME Untouched', TypeOK, ChainInv, MemoryInv, ControlInv, [Next]_vars
    PROVE  /\ file' \in Seq(Line) /\ next' \in next .. MaxEntries + 1
           /\ prev' \in Hash /\ count' \in Nat /\ genesis' \in Hash
           /\ ChainInv' /\ MemoryInv'
           /\ Extended \/ Rewrite
           /\ Fresh
<1> USE LogAssumption
<1>0. /\ file \in Seq(Line) /\ next \in 1 .. MaxEntries + 1 /\ next \in Nat \ {0} /\ Good(file, next)
      /\ prev \in Hash /\ count \in Nat /\ genesis \in Hash
  BY DEF TypeOK, ChainInv
<1>1. /\ Len(file) \in Nat /\ DOMAIN file = 1 .. Len(file) /\ (file = <<>> <=> Len(file) = 0)
      /\ \A i \in DOMAIN file : file[i].hash \in Hash
  BY <1>0, Lines
<1>2. ASSUME file' = file, next' \in next .. MaxEntries + 1
      PROVE  file' \in Seq(Line) /\ ChainInv' /\ Extended /\ Fresh
  <2>1. Good(file, next')
    <3>1. Good(file, next) /\ next' >= next /\ next' \in Nat
      BY <1>0, <1>2
    <3> QED
      BY <1>0, <3>1, GoodLater
  <2> QED
    BY <1>0, <1>1, <1>2, <2>1 DEF ChainInv, Extended, Fresh
<1>3. CASE Still
  BY <1>0, <1>2, <1>3 DEF Still, MemoryInv
<1>4. ASSUME NEW t \in Threads, Grew(t)
      PROVE  /\ file' \in Seq(Line) /\ next' \in next .. MaxEntries + 1
             /\ prev' \in Hash /\ count' \in Nat /\ genesis' \in Hash
             /\ ChainInv' /\ MemoryInv' /\ Extended /\ Fresh
  <2>1. /\ file' \in Seq(Line) /\ Good(file', next + 1) /\ Len(file') = Len(file) + 1 /\ file' # <<>>
        /\ \A i \in 1 .. Len(file) : file'[i] = file[i]
        /\ file'[Len(file')].hash = next
        /\ count' = Len(file') /\ prev' = file'[Len(file')].hash /\ genesis' = file'[1].hash
        /\ prev' \in Hash /\ genesis' \in Hash /\ count' \in Nat
    BY <1>4, WrittenEntry DEF Grew
  <2>2. next' = next + 1 /\ next' \in next .. MaxEntries + 1
    BY <1>0, <1>4 DEF Grew
  <2>3. ChainInv' /\ MemoryInv'
    BY <2>1, <2>2 DEF ChainInv, MemoryInv
  <2>4. Extended
    BY <1>1, <2>1 DEF Extended
  <2>5. DOMAIN file' = 1 .. Len(file) + 1
    BY <2>1, LenProperties
  <2>6. Fresh
    <3> SUFFICES ASSUME NEW k \in 1 .. Len(file) + 1
                 PROVE  file'[k].hash = next \/ (k \in DOMAIN file /\ file'[k] = file[k])
      BY <2>5 DEF Fresh
    <3>1. k = Len(file') \/ k \in 1 .. Len(file)
      BY <1>1, <2>1
    <3> QED
      BY <1>1, <2>1, <3>1
  <2> QED
    BY <2>1, <2>2, <2>3, <2>4, <2>6
<1>5. CASE Start
  <2>1. Chained(file)
    BY DEF Chained, ChainInv, Good, PrevOf
  <2>2. /\ file' = file /\ next' = next /\ count' = Len(file)
        /\ prev' = IF file = <<>> THEN Zero ELSE file[Len(file)].hash
        /\ genesis' = IF file = <<>> THEN Zero ELSE file[1].hash
    BY <1>5, <2>1 DEF Start, Last
  <2>3. prev' \in Hash /\ genesis' \in Hash
    <3>1. Zero \in Hash
      BY DEF Zero, Hash
    <3>2. file # <<>> => Len(file) \in DOMAIN file /\ 1 \in DOMAIN file
      BY <1>1
    <3> QED
      BY <1>1, <2>2, <3>1, <3>2
  <2>4. MemoryInv'
    BY <2>2 DEF MemoryInv
  <2> QED
    BY <1>0, <1>1, <1>2, <2>2, <2>3, <2>4
<1>6. CASE Rewrite
  <2>1. mode' = mode /\ mode = "down" /\ UNCHANGED <<prev, count, genesis>>
    BY <1>6 DEF Rewrite, memory
  <2>2. MemoryInv'
    BY <2>1 DEF MemoryInv
  <2> QED
    BY <1>0, <1>6, <2>1, <2>2, EditedLog
<1> QED
  BY <1>3, <1>4, <1>5, <1>6, FileSteps

-----------------------------------------------------------------------------
(* What a thread is about to publish.                                      *)

\* The snapshots are of the log, and only the newest of a thread is about to be published.
Kept(s) == snap'[s] = snap[s] /\ (pc'[s] \in {"appended", "publishing"} => pc[s] \in {"appended", "publishing"})
\* Every step keeps the snapshots, or takes one of the log.
LEMMA SnapStep ==
    ASSUME Untouched', TypeOK, ChainInv, MemoryInv, ControlInv, [Next]_vars
    PROVE  /\ snap' \in [Threads -> Checkpoint]
           /\ \A s \in Threads : Kept(s) \/ IsHead(file', snap'[s])
<1> USE LogAssumption DEF hook, memory
<1> DEFINE Snaps == /\ snap' \in [Threads -> Checkpoint]
                    /\ \A s \in Threads : Kept(s) \/ IsHead(file', snap'[s])
<1>0. snap \in [Threads -> Checkpoint] /\ pc \in [Threads -> Step] /\ ControlType
  BY DEF TypeOK, Step, ControlType
<1>1. ASSUME UNCHANGED <<snap, pc>> PROVE Snaps
  BY <1>0, <1>1 DEF Kept
<1>2. ASSUME NEW t \in Threads, Grew(t), \A s \in Threads \ {t} : pc'[s] = pc[s] PROVE Snaps
  <2>1. /\ snap' \in [Threads -> Checkpoint] /\ IsHead(file', snap'[t])
        /\ \A s \in Threads \ {t} : snap'[s] = snap[s]
    BY <1>2, WrittenEntry DEF Grew
  <2>2. \A s \in Threads \ {t} : Kept(s)
    BY <1>2, <2>1 DEF Kept
  <2> QED
    BY <2>1, <2>2
<1>3. ASSUME snap' = snap, NEW t \in Threads, \A s \in Threads \ {t} : pc'[s] = pc[s],
             pc'[t] \in {"appended", "publishing"} => pc[t] \in {"appended", "publishing"}
      PROVE  Snaps
  <2>1. Kept(t) /\ \A s \in Threads \ {t} : Kept(s)
    BY <1>3 DEF Kept
  <2> QED
    BY <1>0, <1>3, <2>1
<1> HIDE DEF Snaps
<1>4. ASSUME NEW t \in Thread, AppendEntry(t) PROVE Snaps
  <2>1. t \in Threads /\ mode # "down" /\ next <= MaxEntries /\ next' = next + 1
    BY <1>4 DEF AppendEntry, Serving, Hashed, Threads
  <2>2. CASE Written(t) /\ pc' = [pc EXCEPT ![t] = "appended"]
    <3>1. \A s \in Threads \ {t} : pc'[s] = pc[s]
      BY <1>0, <2>2
    <3> QED
      BY <1>2, <2>1, <2>2, <3>1 DEF Grew
  <2>3. CASE (\E fault \in AppendFaults : Raises(fault)) /\ UNCHANGED pc
    BY <1>1, <2>3, RaisesClean
  <2> QED
    BY <1>4, <2>2, <2>3 DEF AppendEntry
<1>5. ASSUME NEW t \in Threads, mode # "down", Hook(t) PROVE Snaps
  <2>0. ASSUME NEW c \in BOOLEAN, Leave(t, c), pc[t] # "idle"
        PROVE  pc'[t] = "idle" /\ \A s \in Threads \ {t} : pc'[s] = pc[s]
    BY <1>0, <1>5, <2>0, Leaves
  <2>1. CASE Attempt(t)
    <3>1. pc'[t] = "publishing" /\ \A s \in Threads \ {t} : pc'[s] = pc[s]
      BY <1>0, <2>1 DEF Attempt
    <3> QED
      BY <1>3, <2>1, <3>1 DEF Attempt
  <2>2. CASE NotDue(t)
    BY <1>3, <2>0, <2>2 DEF NotDue
  <2>3. CASE Publish(t)
    BY <1>3, <2>0, <2>3 DEF Publish
  <2>4. CASE PublishFails(t)
    <3>1. pc'[t] = "failed" /\ \A s \in Threads \ {t} : pc'[s] = pc[s]
      BY <1>0, <2>4 DEF PublishFails
    <3> QED
      BY <1>3, <2>4, <3>1 DEF PublishFails
  <2>5. CASE SeeFailure(t)
    <3>1. CASE Leave(t, FALSE)
      BY <1>3, <2>0, <2>5, <3>1 DEF SeeFailure
    <3>2. CASE pc' = [pc EXCEPT ![t] = "flagging"]
      <4>1. pc'[t] = "flagging" /\ \A s \in Threads \ {t} : pc'[s] = pc[s]
        BY <1>0, <3>2
      <4> QED
        BY <1>3, <2>5, <4>1 DEF SeeFailure
    <3> QED
      BY <2>5, <3>1, <3>2 DEF SeeFailure
  <2>6. CASE SetFlag(t)
    <3>1. pc'[t] = "recording" /\ \A s \in Threads \ {t} : pc'[s] = pc[s]
      BY <1>0, <2>6 DEF SetFlag
    <3> QED
      BY <1>3, <2>6, <3>1 DEF SetFlag
  <2>7. CASE RecordFailure(t)
    <3>1. pc[t] = "recording" /\ next <= MaxEntries /\ next' = next + 1
      BY <2>7 DEF RecordFailure, Hashed
    <3>2. CASE Written(t) /\ Leave(t, TRUE)
      BY <1>2, <1>5, <2>0, <3>1, <3>2 DEF Grew
    <3>3. CASE Written(t) /\ pc' = [pc EXCEPT ![t] = "appended"]
      <4>1. \A s \in Threads \ {t} : pc'[s] = pc[s]
        BY <1>0, <3>3
      <4> QED
        BY <1>2, <1>5, <3>1, <3>3, <4>1 DEF Grew
    <3>4. CASE (\E fault \in AppendFaults : Raises(fault)) /\ Leave(t, TRUE)
      BY <1>3, <2>0, <3>1, <3>4, RaisesClean
    <3> QED
      BY <2>7, <3>2, <3>3, <3>4 DEF RecordFailure
  <2> QED
    BY <1>5, <2>1, <2>2, <2>3, <2>4, <2>5, <2>6, <2>7 DEF Hook
<1>6. ASSUME Start PROVE Snaps
  BY <1>1, <1>6 DEF Start
<1>7. ASSUME MainRecord PROVE Snaps
  <2>1. Main \in Threads /\ mode # "down" /\ next <= MaxEntries /\ next' = next + 1
    BY <1>7 DEF MainRecord, Hashed, Threads
  <2>2. CASE Written(Main) /\ pc' = [pc EXCEPT ![Main] = "appended"]
    <3>1. \A s \in Threads \ {Main} : pc'[s] = pc[s]
      BY <1>0, <2>2
    <3> QED
      BY <1>2, <2>1, <2>2, <3>1 DEF Grew
  <2>3. CASE (\E fault \in AppendFaults : Raises(fault)) /\ UNCHANGED pc
    BY <1>1, <2>3, RaisesClean
  <2> QED
    BY <1>7, <2>2, <2>3 DEF MainRecord
<1>8. ASSUME CheckpointNow PROVE Snaps
  <2>1. CASE UNCHANGED <<pc, snap>>
    BY <1>1, <2>1
  <2>2. CASE /\ count > 0
             /\ snap' = [snap EXCEPT ![Main] = [genesis |-> genesis, count |-> count, head |-> prev]]
             /\ pc' = [pc EXCEPT ![Main] = "appended"]
    <3> DEFINE cp == [genesis |-> genesis, count |-> count, head |-> prev]
    <3>1. cp \in Checkpoint /\ Main \in Threads
      BY DEF TypeOK, Checkpoint, Threads
    <3>2. /\ snap' \in [Threads -> Checkpoint] /\ snap'[Main] = cp
          /\ \A s \in Threads \ {Main} : snap'[s] = snap[s] /\ pc'[s] = pc[s]
      BY <1>0, <2>2, <3>1
    <3>3. /\ count = Len(file) /\ file # <<>> /\ file' = file
          /\ prev = file[Len(file)].hash /\ genesis = file[1].hash /\ Len(file) \in Nat
      <4>1. mode # "down" /\ file' = file /\ file \in Seq(Line)
        BY <1>8 DEF CheckpointNow, TypeOK
      <4>2. count = Len(file) /\ Len(file) \in Nat /\ file # <<>>
        BY <2>2, <4>1, Lines DEF MemoryInv
      <4> QED
        BY <4>1, <4>2 DEF MemoryInv
    <3>4. IsHead(file', snap'[Main])
      <4>1. cp.count = Len(file) /\ cp.genesis = file[1].hash /\ cp.head = file[Len(file)].hash
            /\ Len(file) \in 1 .. Len(file)
        BY <2>2, <3>3
      <4> QED
        BY <3>2, <3>3, <4>1 DEF IsHead
    <3> QED
      BY <3>2, <3>4 DEF Kept, Snaps
  <2> QED
    BY <1>8, <2>1, <2>2 DEF CheckpointNow
<1>9. ASSUME Sigterm PROVE Snaps
  BY <1>1, <1>9 DEF Sigterm
<1>10. ASSUME Crash PROVE Snaps
  <2>1. snap' = snap /\ \A s \in Threads : pc'[s] = "idle"
    BY <1>10 DEF Crash
  <2> QED
    BY <1>0, <2>1 DEF Kept, Snaps
<1>11. ASSUME Rewrite PROVE Snaps
  BY <1>1, <1>11 DEF Rewrite
<1>12. ASSUME UNCHANGED vars PROVE Snaps
  BY <1>1, <1>12 DEF vars
<1>13. Snaps
  BY <1>4, <1>5, <1>6, <1>7, <1>8, <1>9, <1>10, <1>11, <1>12 DEF Next
<1> QED
  BY <1>13 DEF Snaps

\* Every step keeps what is about to be published in the log.
LEMMA HeadStep ==
    ASSUME Untouched', TypeOK, ChainInv, MemoryInv, ControlInv, HeadInv, [Next]_vars
    PROVE  HeadInv'
<1> SUFFICES ASSUME NEW s \in Threads, pc'[s] \in {"appended", "publishing"}
             PROVE  IsHead(file', snap'[s])
  BY DEF HeadInv
<1>1. CASE IsHead(file', snap'[s])
  BY <1>1
<1>2. CASE Kept(s)
  <2>1. pc[s] \in {"appended", "publishing"} /\ snap'[s] = snap[s] /\ IsHead(file, snap[s])
    BY <1>2 DEF Kept, HeadInv
  <2>2. ~Rewrite
    BY <2>1 DEF Rewrite, ControlInv
  <2>3. Extended /\ Len(file) \in Nat /\ Len(file') \in Nat
    BY <2>2, FileStep, Lines DEF TypeOK
  <2> QED
    BY <2>1, <2>3, HeadKept DEF Extended
<1> QED
  BY <1>1, <1>2, SnapStep

-----------------------------------------------------------------------------
(* What was published.                                                     *)

\* A checkpoint that is published is one of the log, with the hashes under it.
LEMMA SoundHead ==
    ASSUME NEW f \in Seq(Line), NEW n \in Nat, Good(f, n), NEW cp \in Checkpoint, IsHead(f, cp)
    PROVE  Sound(f, n, cp, HashesOf(f, cp.count))
<1> DEFINE c == HashesOf(f, cp.count)
<1>1. Len(f) \in Nat /\ DOMAIN f = 1 .. Len(f)
  BY Lines
<1>2. cp.count \in 1 .. Len(f) /\ cp.count \in 0 .. Len(f) /\ f[cp.count].hash = cp.head
  BY <1>1 DEF IsHead
<1>3. Len(c) = cp.count /\ \A j \in 1 .. cp.count : j \in DOMAIN f /\ c[j] = f[j].hash
  BY <1>1, <1>2, HashesOfLog
<1> HIDE DEF c
<1>4. c[cp.count] = cp.head
  <2>1. cp.count \in 1 .. cp.count
    BY <1>1, <1>2
  <2> QED
    BY <1>2, <1>3, <2>1
<1>5. \A j \in 1 .. cp.count : c[j] \in 1 .. n - 1
  BY <1>3 DEF Good
<1>6. ASSUME NEW j \in 2 .. cp.count, NEW k \in DOMAIN f, f[k].hash = c[j]
      PROVE  f[k].prev = c[j - 1]
  <2>1. j \in 1 .. cp.count /\ j - 1 \in 1 .. cp.count /\ j # 1
    BY <1>1, <1>2
  <2>2. k = j
    BY <1>3, <1>6, <2>1 DEF Good
  <2>3. f[k].prev = f[j - 1].hash
    BY <1>3, <2>1, <2>2 DEF Good, PrevOf
  <2> QED
    BY <1>3, <2>1, <2>3
<1>7. cp.count \in Nat \ {0}
  BY <1>1, <1>2
<1> QED
  BY <1>3, <1>4, <1>5, <1>6, <1>7 DEF Sound, c

\* A publication that succeeds, or raises when the checkpoint is in the sink.
Reaches(t) == pc[t] = "publishing" /\ Sent(t) /\ UNCHANGED <<file, next, bounds>>

\* Only a publication adds to what is published.
LEMMA StoreStep ==
    ASSUME [Next]_vars
    PROVE  UNCHANGED <<sink, covers>> \/ \E t \in Threads : mode # "down" /\ Reaches(t)
<1> USE DEF store
<1>1. CASE \E t \in Thread : AppendEntry(t)
  BY <1>1 DEF AppendEntry
<1>2. ASSUME NEW t \in Threads, mode # "down", Hook(t)
      PROVE  UNCHANGED <<sink, covers>> \/ Reaches(t)
  <2>1. CASE Publish(t)
    BY <2>1 DEF Publish, Reaches
  <2>2. CASE PublishFails(t)
    BY <2>2 DEF PublishFails, Reaches
  <2> QED
    BY <1>2, <2>1, <2>2 DEF Hook, Attempt, NotDue, SeeFailure, SetFlag, RecordFailure
<1>3. CASE Start \/ MainRecord \/ CheckpointNow \/ Sigterm \/ Crash \/ Rewrite
  BY <1>3 DEF Start, MainRecord, CheckpointNow, Sigterm, Crash, Rewrite
<1>4. CASE UNCHANGED vars
  BY <1>4 DEF vars
<1> QED
  BY <1>1, <1>2, <1>3, <1>4 DEF Next

\* What a publication leaves.
LEMMA Published ==
    ASSUME TypeOK, ChainInv, HeadInv, NEW t \in Threads, Reaches(t)
    PROVE  /\ file' = file /\ next' = next /\ rewrites' = rewrites
           /\ Len(sink) \in Nat /\ DOMAIN sink = 1 .. Len(sink) /\ Len(covers) = Len(sink)
           /\ sink' \in Seq(Checkpoint) /\ Len(sink') = Len(sink) + 1
           /\ covers' \in Seq(Seq(Hash)) /\ Len(covers') = Len(sink')
           /\ \A i \in 1 .. Len(sink) : sink'[i] = sink[i] /\ covers'[i] = covers[i]
           /\ sink'[Len(sink) + 1] = snap[t] /\ IsHead(file, snap[t])
           /\ Sound(file, next, snap[t], covers'[Len(sink) + 1])
<1> USE LogAssumption
<1>1. /\ file \in Seq(Line) /\ Good(file, next) /\ next \in Nat
      /\ sink \in Seq(Checkpoint) /\ covers \in Seq(Seq(Hash)) /\ Len(covers) = Len(sink)
      /\ snap[t] \in Checkpoint
  BY DEF TypeOK, ChainInv
<1>2. IsHead(file, snap[t])
  BY DEF Reaches, HeadInv
<1>3. /\ Len(file) \in Nat /\ snap[t].count \in 0 .. Len(file) /\ snap[t].count <= Len(file)
  BY <1>1, <1>2, Lines DEF IsHead
<1> DEFINE c == HashesOf(file, snap[t].count)
<1>4. c \in Seq(Hash)
  BY <1>1, <1>3, HashesOfLog
<1>5. Sound(file, next, snap[t], c)
  BY <1>1, <1>2, SoundHead
<1>6. sink' = Append(sink, snap[t]) /\ covers' = Append(covers, c)
  BY <1>3 DEF Reaches, Sent, Signed
<1> HIDE DEF c
<1>7. /\ Len(sink) \in Nat /\ DOMAIN sink = 1 .. Len(sink)
      /\ sink' \in Seq(Checkpoint) /\ Len(sink') = Len(sink) + 1
      /\ \A i \in 1 .. Len(sink) : sink'[i] = sink[i]
      /\ sink'[Len(sink) + 1] = snap[t]
  BY <1>1, <1>6, AppendProperties, LenProperties
<1>8. /\ covers' \in Seq(Seq(Hash)) /\ Len(covers') = Len(covers) + 1
      /\ \A i \in 1 .. Len(covers) : covers'[i] = covers[i]
      /\ covers'[Len(covers) + 1] = c
  BY <1>1, <1>4, <1>6, AppendProperties, LenProperties
<1> QED
  BY <1>1, <1>2, <1>5, <1>7, <1>8 DEF Reaches, bounds

\* The count of edits.
LEMMA Edits ==
    ASSUME TypeOK, [Next]_vars
    PROVE  rewrites' \in Nat /\ (rewrites' = 0 => rewrites = 0 /\ ~Rewrite)
<1>1. CASE Rewrite
  BY <1>1 DEF Rewrite, TypeOK
<1>2. CASE UNCHANGED vars
  BY <1>2 DEF Rewrite, TypeOK, vars, bounds
<1>3. CASE ~Rewrite /\ Next
  <2>1. rewrites' = rewrites
    BY <1>3 DEF Next, AppendEntry, Hook, Attempt, NotDue, Publish, PublishFails, SeeFailure,
                SetFlag, RecordFailure, Start, MainRecord, CheckpointNow, Sigterm, Crash, bounds
  <2> QED
    BY <1>3, <2>1 DEF TypeOK
<1> QED
  BY <1>1, <1>2, <1>3

\* Every step keeps what was published true of the log.
LEMMA SinkStep ==
    ASSUME Untouched', TypeOK, ChainInv, MemoryInv, ControlInv, HeadInv, SinkInv, [Next]_vars
    PROVE  SinkInv'
<1> USE LogAssumption
<1>0. next \in Nat /\ next' \in Nat /\ next <= next'
  BY FileStep DEF TypeOK
<1>1. CASE UNCHANGED <<sink, covers>>
  <2>1. ASSUME NEW i \in DOMAIN sink PROVE Sound(file', next', sink[i], covers[i])
    <3>1. Sound(file, next, sink[i], covers[i])
      BY DEF SinkInv
    <3>2. \A k \in DOMAIN file' : file'[k].hash = next \/ (k \in DOMAIN file /\ file'[k] = file[k])
      BY FileStep DEF Fresh
    <3> QED
      BY <1>0, <3>1, <3>2, SoundKept
  <2>2. ASSUME rewrites' = 0, NEW i \in DOMAIN sink PROVE IsHead(file', sink[i])
    <3>1. IsHead(file, sink[i])
      BY <2>2, Edits DEF SinkInv
    <3>2. Extended /\ Len(file) \in Nat /\ Len(file') \in Nat
      BY <2>2, Edits, FileStep, Lines DEF TypeOK
    <3> QED
      BY <3>1, <3>2, HeadKept DEF Extended
  <2> QED
    BY <1>1, <2>1, <2>2 DEF SinkInv
<1>2. ASSUME NEW t \in Threads, Reaches(t) PROVE SinkInv'
  <2>1. /\ file' = file /\ next' = next /\ rewrites' = rewrites
        /\ Len(sink) \in Nat /\ DOMAIN sink = 1 .. Len(sink)
        /\ sink' \in Seq(Checkpoint) /\ Len(sink') = Len(sink) + 1
        /\ \A i \in 1 .. Len(sink) : sink'[i] = sink[i] /\ covers'[i] = covers[i]
        /\ sink'[Len(sink) + 1] = snap[t] /\ IsHead(file, snap[t])
        /\ Sound(file, next, snap[t], covers'[Len(sink) + 1])
    BY <1>2, Published
  <2>2. DOMAIN sink' = 1 .. Len(sink) + 1
    BY <2>1, LenProperties
  <2>3. ASSUME NEW i \in DOMAIN sink' PROVE Sound(file, next, sink'[i], covers'[i])
    <3>1. i = Len(sink) + 1 \/ i \in 1 .. Len(sink)
      BY <2>1, <2>2
    <3> QED
      BY <2>1, <3>1 DEF SinkInv
  <2>4. ASSUME rewrites = 0, NEW i \in DOMAIN sink' PROVE IsHead(file, sink'[i])
    <3>1. i = Len(sink) + 1 \/ i \in 1 .. Len(sink)
      BY <2>1, <2>2
    <3> QED
      BY <2>1, <2>4, <3>1 DEF SinkInv
  <2> QED
    BY <2>1, <2>3, <2>4 DEF SinkInv
<1> QED
  BY <1>1, <1>2, StoreStep

-----------------------------------------------------------------------------
(* Every step keeps the types.                                             *)

\* Every step keeps the types.
LEMMA TypeStep ==
    ASSUME Untouched', TypeOK, ChainInv, MemoryInv, ControlInv, HeadInv, [Next]_vars
    PROVE  TypeOK'
<1> USE LogAssumption DEF tries, history, bounds
<1>1. mode' \in Mode /\ inHook' \in BOOLEAN /\ nested' \subseteq Threads /\ pc' \in [Threads -> Step]
  <2>1. ControlType
    BY DEF TypeOK, ControlType, Step
  <2> QED
    BY <2>1, ControlStep DEF ControlType
<1>2. /\ file' \in Seq(Line) /\ next' \in 1 .. MaxEntries + 1
      /\ prev' \in Hash /\ count' \in Nat /\ genesis' \in Hash /\ MemoryInv'
  <2>1. next \in 1 .. MaxEntries + 1
    BY DEF TypeOK
  <2> QED
    BY <2>1, FileStep
<1>3. snap' \in [Threads -> Checkpoint]
  BY SnapStep
<1>4. sink' \in Seq(Checkpoint) /\ covers' \in Seq(Seq(Hash)) /\ Len(sink') = Len(covers')
  <2>1. CASE UNCHANGED <<sink, covers>>
    BY <2>1 DEF TypeOK
  <2> QED
    BY <2>1, StoreStep, Published
<1>5. mode' \notin {"down", "refused"} /\ strays' = {} =>
         count' = Len(file') /\ prev' = IF file' = <<>> THEN Zero ELSE Last(file').hash
  BY <1>2 DEF MemoryInv, Last
<1>6. lastCount' \in Nat /\ lastAttempt' \in Nat
  <2>1. lastCount \in Nat /\ lastAttempt \in Nat /\ \A t \in Threads : snap[t].count \in Nat
    BY DEF TypeOK, Checkpoint
  <2>2. ASSUME NEW t \in Threads, Hook(t) PROVE lastCount' \in Nat /\ lastAttempt' \in Nat
    BY <2>1, <2>2 DEF Hook, Attempt, NotDue, Publish, PublishFails, SeeFailure, SetFlag, RecordFailure
  <2>3. CASE (\E t \in Thread : AppendEntry(t)) \/ MainRecord \/ CheckpointNow \/ Sigterm \/ Crash
             \/ Rewrite \/ UNCHANGED vars
    BY <2>1, <2>3 DEF AppendEntry, MainRecord, CheckpointNow, Sigterm, Crash, Rewrite, vars
  <2>4. CASE Start
    BY <2>4 DEF Start
  <2> QED
    BY <2>2, <2>3, <2>4 DEF Next
<1>7. failures' \in Nat /\ recorded' \in Nat /\ crashes' \in Nat
  <2>1. failures \in Nat /\ recorded \in Nat /\ crashes \in Nat
    BY DEF TypeOK
  <2>2. ASSUME NEW t \in Threads, Hook(t) PROVE failures' \in Nat /\ recorded' \in Nat /\ crashes' = crashes
    <3>1. CASE PublishFails(t)
      BY <2>1, <3>1 DEF PublishFails
    <3>2. CASE RecordFailure(t)
      <4>1. recorded' = recorded + 1 \/ recorded' = recorded
        BY <3>2 DEF RecordFailure
      <4>2. failures' = failures /\ crashes' = crashes
        BY <3>2 DEF RecordFailure
      <4> QED
        BY <2>1, <4>1, <4>2
    <3> QED
      BY <2>1, <2>2, <3>1, <3>2 DEF Hook, Attempt, NotDue, Publish, SeeFailure, SetFlag
  <2>3. CASE (\E t \in Thread : AppendEntry(t)) \/ MainRecord \/ CheckpointNow \/ Sigterm \/ Start
             \/ Rewrite \/ UNCHANGED vars
    BY <2>1, <2>3 DEF AppendEntry, MainRecord, CheckpointNow, Sigterm, Start, Rewrite, vars
  <2>4. CASE Crash
    BY <2>1, <2>4 DEF Crash
  <2> QED
    BY <2>1, <2>2, <2>3, <2>4 DEF Next
<1>8. stop' \in Hash
  <2>1. stop \in Hash /\ (next <= MaxEntries => next \in Hash)
    BY DEF TypeOK, Hash
  <2> QED
    BY <2>1 DEF Hashed, vars, Next, AppendEntry, Hook, Attempt, NotDue, Publish,
         PublishFails, SeeFailure, SetFlag, RecordFailure, Start, MainRecord, CheckpointNow,
         Sigterm, Crash, Rewrite
<1>9. rewrites' \in Nat
  BY Edits
<1>10. strays' \subseteq Hash
  BY DEF Untouched
<1>11. garbled' \in BOOLEAN
  <2>1. garbled \in BOOLEAN
    BY DEF TypeOK
  <2>2. garbled' = garbled \/ garbled' = TRUE
    BY DEF vars, store, Sent, Next, AppendEntry, Hook, Attempt, NotDue, Publish, PublishFails,
           SeeFailure, SetFlag, RecordFailure, Start, MainRecord, CheckpointNow, Sigterm, Crash,
           Rewrite
  <2> QED
    BY <2>1, <2>2
<1> QED
  BY <1>1, <1>2, <1>3, <1>4, <1>5, <1>6, <1>7, <1>8, <1>9, <1>10, <1>11 DEF TypeOK, Step

-----------------------------------------------------------------------------
(* The interval between checkpoints, while publications succeed.           *)

Numbers == /\ lastCount \in Nat /\ lastAttempt \in Nat /\ count \in Nat /\ Every \in Nat \ {0}
           /\ Main \in Threads /\ pc \in [Threads -> Step] /\ snap \in [Threads -> Checkpoint]
           /\ \A t \in Threads : snap[t].count \in Nat
           /\ sink \in Seq(Checkpoint) /\ \A i \in DOMAIN sink : sink[i].count \in Nat
\* What the types say of the counts.
LEMMA NumbersOf ==
    ASSUME TypeOK
    PROVE  Numbers
<1>1. Main \in Threads /\ pc \in [Threads -> Step] /\ snap \in [Threads -> Checkpoint]
  BY DEF TypeOK, Threads, Step
<1>2. \A t \in Threads : snap[t].count \in Nat
  BY <1>1 DEF Checkpoint
<1>3. sink \in Seq(Checkpoint) /\ \A i \in DOMAIN sink : sink[i] \in Checkpoint
  BY LenProperties, ElementOfSeq DEF TypeOK
<1>4. \A i \in DOMAIN sink : sink[i].count \in Nat
  BY <1>3 DEF Checkpoint
<1> QED
  BY LogAssumption, <1>1, <1>2, <1>3, <1>4 DEF TypeOK, Numbers

\* An append leaves the records unprotected that its thread will ask about.
LEMMA PacedAppend ==
    ASSUME Numbers, Paced, NEW t \in Threads, pc[t] = "idle", t = Main => mode # "starting",
           mode # "down", mode \in {"starting", "started"} => t = Main,
           snap' \in [Threads -> Checkpoint], snap'[t].count = count',
           \A s \in Threads \ {t} : snap'[s] = snap[s],
           pc' = [pc EXCEPT ![t] = "appended"],
           UNCHANGED <<mode, inHook, nested, lastCount, lastAttempt, sink>>
    PROVE  Paced'
<1>1. /\ pc'[t] = "appended" /\ \A s \in Threads \ {t} : pc'[s] = pc[s] /\ snap'[s] = snap[s]
  BY DEF Numbers
<1>2. NoTrouble'
  BY <1>1 DEF Paced, NoTrouble
<1>3. Attempted(lastAttempt)'
  <2>1. Attempted(lastAttempt)
    BY DEF Paced
  <2>2. ASSUME NEW s \in Threads, pc[s] = "publishing" PROVE pc'[s] = pc[s] /\ snap'[s] = snap[s]
    BY <1>1, <2>2
  <2> QED
    BY <2>1, <2>2 DEF Attempted
<1>4. mode \in {"starting", "started", "up"} => Ahead(lastAttempt)'
  BY <1>1 DEF Paced, Ahead
<1>5. Asked(lastAttempt)'
  BY <1>1 DEF Asked
<1>6. mode \in {"starting", "started"} => \A s \in Thread : pc'[s] = "idle"
  BY LogAssumption, <1>1 DEF Paced, Threads
<1>7. mode # "starting"
  OBVIOUS
<1> QED
  BY <1>2, <1>3, <1>4, <1>5, <1>6, <1>7 DEF Paced

\* A step that leaves what the interval depends on.
LEMMA PacedSame ==
    ASSUME Paced, UNCHANGED <<mode, inHook, nested, lastCount, lastAttempt, sink, snap, pc, count>>
    PROVE  Paced'
BY DEF Paced, NoTrouble, Attempted, Ahead, Asked

\* A thread that is due counts the interval from what it publishes.
LEMMA PacedAttempt ==
    ASSUME Numbers, MemoryInv, ControlInv, Paced, NEW t \in Threads, mode # "down", Attempt(t)
    PROVE  Paced'
<1> USE DEF memory, store
<1>1. /\ pc[t] = "appended" /\ pc'[t] = "publishing" /\ \A s \in Threads \ {t} : pc'[s] = pc[s]
      /\ lastAttempt' = snap[t].count /\ snap[t].count \in Nat
      /\ UNCHANGED <<mode, inHook, nested, lastCount, sink, snap, count>>
  BY DEF Numbers, Attempt
<1>2. NoTrouble'
  BY <1>1 DEF Paced, NoTrouble
<1>3. Attempted(lastAttempt)'
  BY <1>1 DEF Attempted
<1>4. mode \in {"starting", "started", "up"} => lastAttempt <= snap[t].count /\ lastCount <= snap[t].count
  <2>1. CASE mode = "starting"
    <3>1. t = Main
      BY <1>1, <2>1 DEF Paced, Threads
    <3>2. snap[t].count = count /\ lastCount = 0
      BY <1>1, <2>1, <3>1 DEF Paced
    <3>3. lastAttempt = 0
      BY <1>1, <2>1, <3>1 DEF Paced
    <3> QED
      BY <1>1, <3>2, <3>3
  <2>2. CASE mode \in {"started", "up"}
    <3>1. Interval(t) /\ lastCount <= lastAttempt
      BY <2>2 DEF Attempt, Due, Forced, Paced, Ahead
    <3>2. snap[t].count - lastAttempt >= Every
      BY <3>1 DEF Interval, Newest, Numbers
    <3> QED
      BY <1>1, <3>1, <3>2 DEF Numbers
  <2> QED
    BY <2>1, <2>2
<1>5. mode \in {"starting", "started", "up"} => Ahead(lastAttempt)'
  <2> SUFFICES ASSUME mode \in {"starting", "started", "up"} PROVE Ahead(lastAttempt)'
    OBVIOUS
  <2>1. ASSUME NEW s \in Threads, pc'[s] = "publishing" PROVE snap[s].count <= snap[t].count
    <3>1. CASE s = t
      BY <1>1, <3>1
    <3>2. CASE s # t
      <4>1. snap[s].count <= lastAttempt
        BY <1>1, <2>1, <3>2 DEF Paced, Ahead
      <4> QED
        BY <1>1, <1>4, <4>1 DEF Numbers
    <3> QED
      BY <3>1, <3>2
  <2> QED
    BY <1>1, <1>4, <2>1 DEF Ahead
<1>6. mode \in {"started", "up"} => Asked(lastAttempt)'
  <2> SUFFICES ASSUME mode \in {"started", "up"} PROVE Asked(lastAttempt)'
    OBVIOUS
  <2>1. CASE count - lastAttempt < Every
    <3>1. count - snap[t].count < Every
      BY <1>1, <1>4, <2>1 DEF Numbers
    <3> QED
      BY <1>1, <3>1 DEF Asked
  <2>2. ASSUME NEW s \in Threads, pc[s] = "appended", snap[s].count = count PROVE Asked(lastAttempt)'
    <3>1. CASE s = t
      <4>1. count - lastAttempt' < Every
        BY <1>1, <2>2, <3>1 DEF Numbers
      <4> QED
        BY <1>1, <4>1 DEF Asked
    <3>2. CASE s # t
      <4>1. pc'[s] = "appended" /\ snap'[s].count = count'
        BY <1>1, <2>2, <3>2
      <4> QED
        BY <4>1 DEF Asked
    <3> QED
      BY <3>1, <3>2
  <2> QED
    BY <2>1, <2>2 DEF Paced, Asked
<1>7. mode \in {"starting", "started"} => \A s \in Thread : pc'[s] = "idle"
  BY LogAssumption, <1>1 DEF Paced, Threads
<1>8. mode = "starting" => lastCount = 0 /\ snap[Main].count = count /\ t = Main
  BY <1>1 DEF Paced, Threads
<1> QED
  BY <1>1, <1>2, <1>3, <1>5, <1>6, <1>7, <1>8 DEF Paced

\* A thread that is not due, or has published, leaves its hook.
LEMMA PacedLeave ==
    ASSUME Numbers, ControlType, ControlInv, Paced, NEW t \in Threads, mode # "down",
           NotDue(t) \/ (Publish(t) /\ sink' = Append(sink, snap[t]))
    PROVE  Paced'
<1> USE DEF memory
<1>0. /\ pc[t] # "idle" /\ Leave(t, FALSE) /\ nested = {} /\ ~inHook
      /\ UNCHANGED <<lastAttempt, snap, count>>
  BY DEF NotDue, Publish, Paced, NoTrouble, tries
<1>1. /\ pc'[t] = "idle" /\ \A s \in Threads \ {t} : pc'[s] = pc[s]
      /\ t # Main => mode' = mode
      /\ t = Main => <<mode, mode'>> \in {<<"starting", "started">>, <<"started", "up">>,
                                          <<"stopping", "closing">>, <<"closing", "stopped">>}
  BY <1>0, Leaves
<1>2. NoTrouble'
  BY <1>0, <1>1 DEF Paced, NoTrouble, Leave
<1>3. mode' \in {"starting", "started", "up"} => mode \in {"starting", "started", "up"}
  BY <1>1
<1>4. ASSUME mode \in {"starting", "started", "up"}, Publish(t) PROVE snap[t].count <= lastAttempt
  BY <1>4 DEF Publish, Paced, Ahead
<1>5. Attempted(lastAttempt)'
  <2>1. \A i \in DOMAIN sink : i \in DOMAIN sink' /\ sink'[i] = sink[i]
    <3>1. CASE NotDue(t)
      BY <3>1 DEF NotDue, store
    <3>2. CASE sink' = Append(sink, snap[t])
      BY <3>2, AppendProperties, LenProperties DEF Numbers
    <3> QED
      BY <3>1, <3>2
  <2>2. CASE lastAttempt = 0
    BY <1>0, <2>2 DEF Attempted
  <2>3. CASE \E i \in DOMAIN sink : sink[i].count >= lastAttempt
    BY <1>0, <2>1, <2>3 DEF Attempted
  <2>4. ASSUME NEW s \in Threads, pc[s] = "publishing", snap[s].count >= lastAttempt
        PROVE  Attempted(lastAttempt)'
    <3>1. CASE s # t
      BY <1>0, <1>1, <2>4, <3>1 DEF Attempted
    <3>2. CASE s = t
      <4>1. sink' = Append(sink, snap[t])
        BY <2>4, <3>2 DEF NotDue
      <4>2. Len(sink) + 1 \in DOMAIN sink' /\ sink'[Len(sink) + 1] = snap[t]
        BY <4>1, AppendProperties, LenProperties DEF Numbers
      <4> QED
        BY <1>0, <2>4, <3>2, <4>2 DEF Attempted
    <3> QED
      BY <3>1, <3>2
  <2> QED
    BY <2>2, <2>3, <2>4 DEF Paced, Attempted
<1>6. ASSUME mode' \in {"starting", "started", "up"} PROVE Ahead(lastAttempt)'
  <2>1. Ahead(lastAttempt)
    BY <1>3, <1>6 DEF Paced
  <2>2. lastCount' <= lastAttempt
    <3>1. CASE NotDue(t)
      BY <2>1, <3>1 DEF NotDue, tries, Ahead
    <3>2. CASE Publish(t)
      BY <1>3, <1>4, <1>6, <3>2 DEF Publish
    <3> QED
      BY <3>1, <3>2
  <2>3. ASSUME NEW s \in Threads, pc'[s] = "publishing" PROVE snap[s].count <= lastAttempt
    BY <1>1, <2>1, <2>3 DEF Ahead
  <2> QED
    BY <1>0, <2>2, <2>3 DEF Ahead
<1>7. ASSUME mode' \in {"started", "up"} PROVE Asked(lastAttempt)'
  <2>1. CASE mode = "starting"
    <3>1. t = Main /\ snap[t].count = count
      BY <1>0, <1>1, <1>7, <2>1 DEF Paced
    <3>2. count <= lastAttempt
      <4>1. CASE NotDue(t)
        <5>1. snap[t].count = lastCount /\ lastCount <= lastAttempt
          BY <2>1, <3>1, <4>1 DEF NotDue, Due, Forced, Paced, Ahead
        <5> QED
          BY <3>1, <5>1
      <4>2. CASE Publish(t)
        BY <1>4, <2>1, <3>1, <4>2
      <4> QED
        BY <4>1, <4>2
    <3>3. count - lastAttempt < Every
      BY <3>2 DEF Numbers
    <3> QED
      BY <1>0, <3>3 DEF Asked
  <2>2. ASSUME mode \in {"started", "up"}, count - lastAttempt < Every PROVE Asked(lastAttempt)'
    BY <1>0, <2>2 DEF Asked
  <2>3. ASSUME mode \in {"started", "up"}, NEW s \in Threads, pc[s] = "appended", snap[s].count = count
        PROVE  Asked(lastAttempt)'
    <3>1. CASE s # t
      BY <1>0, <1>1, <2>3, <3>1 DEF Asked
    <3>2. CASE s = t
      <4>1. NotDue(t)
        BY <2>3, <3>2 DEF Publish
      <4>2. ~Interval(t) /\ lastCount <= lastAttempt
        BY <1>0, <2>3, <4>1 DEF NotDue, Due, Forced, Paced, Ahead
      <4>3. ~(snap[t].count - lastAttempt >= Every)
        BY <4>2 DEF Interval, Newest, Numbers
      <4>4. count - lastAttempt < Every
        BY <2>3, <3>2, <4>3 DEF Numbers
      <4> QED
        BY <1>0, <4>4 DEF Asked
    <3> QED
      BY <3>1, <3>2
  <2> QED
    BY <1>1, <1>3, <1>7, <2>1, <2>2, <2>3 DEF Paced, Asked
<1>8. mode' \in {"starting", "started"} => \A s \in Thread : pc'[s] = "idle"
  <2>1. mode' \in {"starting", "started"} => mode \in {"starting", "started"}
    BY <1>1
  <2> QED
    BY <1>1, <2>1 DEF Paced, Threads
<1>9. mode' # "starting"
  <2>1. t = Main => mode' # "starting"
    BY <1>1
  <2>2. t # Main => mode # "starting"
    BY <1>0 DEF Paced, Threads
  <2> QED
    BY <1>1, <2>1, <2>2
<1> QED
  BY <1>2, <1>5, <1>6, <1>7, <1>8, <1>9 DEF Paced

\* What happened before the server is up concerns the main thread alone.
LEMMA PacedMain ==
    ASSUME Untouched', TypeOK, ChainInv, MemoryInv, ControlInv, Paced, Start \/ CheckpointNow
    PROVE  Paced'
<1> USE LogAssumption DEF tries, store
<1>0. Numbers
  BY NumbersOf
<1>1. CASE Start
  <2>1. Chained(file)
    BY DEF Chained, ChainInv, Good, PrevOf
  <2>2. /\ mode' = "starting" /\ inHook' = FALSE /\ lastCount' = 0 /\ lastAttempt' = 0
        /\ \A s \in Threads : pc'[s] = "idle"
        /\ UNCHANGED <<nested, pc, snap, sink>>
    BY <1>1, <2>1 DEF Start, ControlInv
  <2>3. NoTrouble' /\ Attempted(lastAttempt)' /\ Ahead(lastAttempt)'
    BY <2>2 DEF Paced, NoTrouble, Attempted, Ahead
  <2> QED
    BY <2>2, <2>3 DEF Paced, Threads
<1>2. CASE CheckpointNow
  <2>1. /\ mode \in {"starting", "closing"} /\ pc[Main] = "idle" /\ Main \in Threads
        /\ UNCHANGED <<count, inHook, nested, lastCount, lastAttempt, sink>>
    BY <1>2 DEF CheckpointNow, memory, Threads
  <2>2. CASE count = 0 /\ mode' = After[mode] /\ UNCHANGED <<pc, snap>>
    <3>1. mode' = IF mode = "starting" THEN "started" ELSE "stopped"
      BY <2>1, <2>2 DEF After
    <3>2. NoTrouble' /\ Attempted(lastAttempt)' /\ (mode' = "started" => Ahead(lastAttempt)')
      BY <2>1, <2>2, <3>1 DEF Paced, NoTrouble, Attempted, Ahead
    <3>3. Asked(lastAttempt)'
      <4>1. count' - lastAttempt' < Every
        BY <1>0, <2>1, <2>2 DEF Numbers
      <4> QED
        BY <4>1 DEF Asked
    <3> QED
      BY <2>1, <2>2, <3>1, <3>2, <3>3 DEF Paced
  <2>3. CASE /\ snap' = [snap EXCEPT ![Main] = [genesis |-> genesis, count |-> count, head |-> prev]]
             /\ pc' = [pc EXCEPT ![Main] = "appended"] /\ UNCHANGED mode
    <3>1. /\ pc'[Main] = "appended" /\ snap'[Main].count = count
          /\ \A s \in Threads \ {Main} : pc'[s] = pc[s] /\ snap'[s] = snap[s]
      BY <1>0, <2>1, <2>3 DEF Numbers
    <3>2. NoTrouble'
      BY <2>1, <3>1 DEF Paced, NoTrouble
    <3>3. Attempted(lastAttempt)'
      <4>1. Attempted(lastAttempt)
        BY <2>1 DEF Paced
      <4>2. ASSUME NEW s \in Threads, pc[s] = "publishing" PROVE pc'[s] = pc[s] /\ snap'[s] = snap[s]
        BY <2>1, <3>1, <4>2
      <4> QED
        BY <2>1, <4>1, <4>2 DEF Attempted
    <3>4. mode = "starting" => Ahead(lastAttempt)'
      BY <2>1, <3>1 DEF Paced, Ahead
    <3> QED
      BY <2>1, <2>3, <3>1, <3>2, <3>3, <3>4 DEF Paced, Threads
  <2> QED
    BY <1>2, <2>2, <2>3 DEF CheckpointNow
<1> QED
  BY <1>1, <1>2

\* Every step keeps the interval, as long as every publication has succeeded.
LEMMA IntervalStep ==
    ASSUME Untouched', TypeOK, ChainInv, MemoryInv, ControlInv, HeadInv, IntervalInv, [Next]_vars
    PROVE  IntervalInv'
<1> SUFFICES ASSUME failures' = 0 PROVE Paced'
  BY DEF IntervalInv
<1> USE LogAssumption
<1>0. Numbers /\ ControlType
  BY NumbersOf DEF TypeOK, ControlType, Step
<1>1. failures = 0 /\ \A t \in Threads : ~PublishFails(t)
  <2>1. failures \in Nat
    BY DEF TypeOK
  <2>2. ASSUME NEW t \in Threads, PublishFails(t) PROVE FALSE
    <3>1. failures' = failures + 1
      BY <2>2 DEF PublishFails
    <3> QED
      BY <2>1, <3>1
  <2>3. ASSUME NEW t \in Threads, Hook(t), ~PublishFails(t) PROVE failures' = failures
    BY <2>3 DEF Hook, Attempt, NotDue, Publish, SeeFailure, SetFlag, RecordFailure, history
  <2>4. ASSUME (\E t \in Thread : AppendEntry(t)) \/ Start \/ MainRecord \/ CheckpointNow
               \/ Sigterm \/ Crash \/ Rewrite \/ UNCHANGED vars
        PROVE  failures' = failures
    BY <2>4 DEF AppendEntry, Start, MainRecord, CheckpointNow, Sigterm, Crash, Rewrite, history, vars
  <2> QED
    BY <2>2, <2>3, <2>4 DEF Next
<1>2. Paced /\ NoTrouble
  BY <1>1 DEF IntervalInv, Paced
<1>3. ASSUME NEW t \in Threads, Written(t), mode # "down", next <= MaxEntries
      PROVE  /\ snap' \in [Threads -> Checkpoint] /\ snap'[t].count = count'
             /\ \A s \in Threads \ {t} : snap'[s] = snap[s]
  BY <1>3, WrittenEntry
<1>4. ASSUME NEW t \in Thread, AppendEntry(t) PROVE Paced'
  <2>1. /\ t \in Threads /\ mode \in {"up", "stopping", "closing"} /\ pc[t] = "idle" /\ next <= MaxEntries
        /\ UNCHANGED <<mode, inHook, nested, lastCount, lastAttempt, sink>>
    BY <1>4 DEF AppendEntry, Serving, Hashed, Threads, tries, store
  <2>2. CASE Written(t) /\ pc' = [pc EXCEPT ![t] = "appended"]
    BY <1>0, <1>2, <1>3, <2>1, <2>2, PacedAppend
  <2>3. CASE (\E fault \in AppendFaults : Raises(fault)) /\ UNCHANGED pc
    BY <1>2, <2>1, <2>3, RaisesClean, PacedSame
  <2> QED
    BY <1>4, <2>2, <2>3 DEF AppendEntry
<1>5. ASSUME NEW t \in Threads, mode # "down", Hook(t) PROVE Paced'
  <2>1. pc[t] \in {"idle", "appended", "publishing"}
    BY <1>2 DEF NoTrouble
  <2>2. Attempt(t) \/ NotDue(t) \/ Publish(t)
    BY <1>1, <1>5, <2>1 DEF Hook, SeeFailure, SetFlag, RecordFailure
  <2>3. Publish(t) => sink' = Append(sink, snap[t])
    BY DEF Publish, Sent, Signed
  <2> QED
    BY <1>0, <1>2, <1>5, <2>2, <2>3, PacedAttempt, PacedLeave
<1>6. CASE Start \/ CheckpointNow
  BY <1>2, <1>6, PacedMain
<1>7. CASE MainRecord
  <2>1. /\ mode \in {"started", "stopping"} /\ pc[Main] = "idle" /\ Main \in Threads /\ next <= MaxEntries
        /\ UNCHANGED <<inHook, nested, lastCount, lastAttempt, sink>>
    BY <1>7 DEF MainRecord, Hashed, Threads, tries, store
  <2>2. CASE Written(Main) /\ pc' = [pc EXCEPT ![Main] = "appended"] /\ UNCHANGED mode
    BY <1>0, <1>2, <1>3, <2>1, <2>2, PacedAppend
  <2>3. CASE (\E fault \in AppendFaults : Raises(fault)) /\ mode' = "stopped" /\ UNCHANGED pc
    <3>1. UNCHANGED <<snap, count>>
      BY <2>3, RaisesClean
    <3>2. NoTrouble' /\ Attempted(lastAttempt)'
      BY <1>2, <2>1, <2>3, <3>1 DEF Paced, NoTrouble, Attempted
    <3> QED
      BY <2>3, <3>2 DEF Paced
  <2> QED
    BY <1>7, <2>2, <2>3 DEF MainRecord
<1>8. CASE Sigterm
  <2>1. /\ mode = "up" /\ mode' = "stopping"
        /\ UNCHANGED <<inHook, nested, lastCount, lastAttempt, sink, snap, pc, count>>
    BY <1>8 DEF Sigterm, hook, tries, store, memory
  <2>2. NoTrouble' /\ Attempted(lastAttempt)'
    BY <1>2, <2>1 DEF Paced, NoTrouble, Attempted
  <2> QED
    BY <2>1, <2>2 DEF Paced
<1>9. CASE Crash
  <2>1. mode' = "down" /\ inHook' = inHook /\ nested' = {} /\ \A s \in Threads : pc'[s] = "idle"
    BY <1>9 DEF Crash
  <2>2. NoTrouble'
    BY <1>2, <2>1 DEF NoTrouble
  <2> QED
    BY <2>1, <2>2 DEF Paced
<1>10. CASE Rewrite \/ UNCHANGED vars
  BY <1>2, <1>10, PacedSame DEF Rewrite, vars, hook, tries, store, memory
<1> QED
  BY <1>4, <1>5, <1>6, <1>7, <1>8, <1>9, <1>10 DEF Next

-----------------------------------------------------------------------------
(* The theorems.                                                           *)

\* The log starts empty, with nobody at it.
LEMMA InitHolds == Init => IInv
<1> SUFFICES ASSUME Init PROVE IInv
  OBVIOUS
<1> USE LogAssumption
<1>1. Head0 \in Checkpoint /\ Zero \in Hash /\ <<>> \in Seq(Line) /\ <<>> \in Seq(Checkpoint)
      /\ <<>> \in Seq(Seq(Hash)) /\ Len(<<>>) = 0
  BY DEF Head0, Checkpoint, Hash, Zero
<1>2. TypeOK
  <2>1. pc \in [Threads -> Step] /\ snap \in [Threads -> Checkpoint]
    BY <1>1 DEF Init, Step
  <2>2. next \in 1 .. MaxEntries + 1 /\ count = Len(file) /\ file = <<>> /\ prev = Zero
    BY <1>1 DEF Init
  <2>3. file \in Seq(Line) /\ sink \in Seq(Checkpoint) /\ covers \in Seq(Seq(Hash)) /\ Len(sink) = Len(covers)
    BY <1>1 DEF Init
  <2>4. count = Len(file) /\ prev = IF file = <<>> THEN Zero ELSE Last(file).hash
    BY <2>2
  <2>5. /\ mode \in Mode /\ prev \in Hash /\ count \in Nat /\ genesis \in Hash
        /\ inHook \in BOOLEAN /\ nested \subseteq Threads /\ lastCount \in Nat /\ lastAttempt \in Nat
        /\ stop \in Hash /\ failures \in Nat /\ recorded \in Nat /\ crashes \in Nat /\ rewrites \in Nat
    BY <1>1 DEF Init, Mode
  <2>6. strays \subseteq Hash /\ garbled \in BOOLEAN
    BY DEF Init
  <2> QED
    BY <2>1, <2>2, <2>3, <2>4, <2>5, <2>6 DEF TypeOK, Step
<1>3. DOMAIN file = {} /\ DOMAIN sink = {} /\ Len(file) = 0
  BY <1>1 DEF Init
<1>4. ChainInv /\ SinkInv
  BY <1>3 DEF ChainInv, Good, SinkInv
<1>5. MemoryInv /\ ControlInv /\ HeadInv
  BY <1>3 DEF Init, MemoryInv, ControlInv, HeadInv, Threads
<1>6. IntervalInv
  BY DEF Init, IntervalInv, Paced, NoTrouble, Attempted, Ahead, Threads
<1> QED
  BY <1>2, <1>4, <1>5, <1>6 DEF IInv

\* What has been left in the file is never taken back from the history.
LEMMA StraysGrow ==
    ASSUME [Next]_vars, Untouched'
    PROVE  Untouched
<1>1. strays \subseteq strays'
  BY DEF vars, Next, AppendEntry, Hook, Attempt, NotDue, Publish, PublishFails, SeeFailure, SetFlag,
         RecordFailure, Start, MainRecord, CheckpointNow, Sigterm, Crash, Rewrite,
         Written, Raises, Strays
<1> QED
  BY <1>1 DEF Untouched

\* The inductive invariant, while no append that raised has left its line in the file: the
\* log is one unbroken chain (append), every published head is one of its heads (maybe) and
\* the interval counts from a checkpoint that is or is being published.
THEOREM Invariance == Spec => [](Untouched => IInv)
<1>1. Init => (Untouched => IInv)
  BY InitHolds
<1>2. (Untouched => IInv) /\ [Next]_vars => (Untouched => IInv)'
  <2> SUFFICES ASSUME Untouched => IInv, [Next]_vars, Untouched' PROVE IInv'
    OBVIOUS
  <2>1. TypeOK /\ ChainInv /\ MemoryInv /\ ControlInv /\ HeadInv /\ SinkInv /\ IntervalInv
    BY StraysGrow DEF IInv
  <2>2. TypeOK' /\ HeadInv' /\ SinkInv' /\ IntervalInv'
    BY <2>1, TypeStep, HeadStep, SinkStep, IntervalStep
  <2>3. ChainInv' /\ MemoryInv'
    BY <2>1, FileStep
  <2>4. ControlInv'
    <3>1. ControlType
      BY <2>1 DEF TypeOK, ControlType, Step
    <3> QED
      BY <2>1, <3>1, ControlStep
  <2> QED
    BY <2>2, <2>3, <2>4 DEF IInv
<1> QED
  BY <1>1, <1>2, PTL DEF Spec

-----------------------------------------------------------------------------
(* Why a start refuses the log, whatever appends have left in it.          *)

\* a line is cut, or one its append raised about
Odd(l)     == ~l.whole \/ l.hash \in strays
OddNext(l) == ~l.whole \/ l.hash \in strays'

\* a whole line names the hash of the one before, unless that one is odd
LinkInv == \A i \in DOMAIN file :
    file[i].whole => file[i].prev = PrevOf(file, i) \/ (i # 1 /\ Odd(file[i - 1]))

\* while it runs, the head is the last line, unless that one is odd
HeadLine == mode \notin {"down", "refused"} =>
    \/ prev = PrevOf(file, Len(file) + 1)
    \/ file # <<>> /\ Odd(file[Len(file)])

RType == file \in Seq(Line) /\ next \in 1 .. MaxEntries + 1 /\ prev \in Hash
RInv  == ControlType /\ ControlInv /\ RType /\ LinkInv /\ HeadLine /\ RestartAccepts

\* A step leaves the log, adds a line or part of one, starts or is an edit.
Idle    == /\ UNCHANGED <<file, prev>> /\ strays \subseteq strays' /\ next' \in next .. MaxEntries + 1
           /\ mode' \notin {"down", "refused"} => mode \notin {"down", "refused"}
           /\ mode' = "refused" => mode = "refused"
Adds(w) == /\ mode \notin {"down", "refused"} /\ mode' # "refused" /\ Hashed
           /\ file' = AddLine(file, Entry(w)) /\ strays \subseteq strays'
           /\ (prev' = next /\ w) \/ (prev' = prev /\ (w => next \in strays'))

\* What an append does to the log, returning or raising.
LEMMA AppendCases ==
    ASSUME RType, Hashed, NEW t \in Threads, mode \notin {"down", "refused"}, mode' # "refused",
           Written(t) \/ \E fault \in AppendFaults : Raises(fault)
    PROVE  Idle \/ \E w \in BOOLEAN : Adds(w)
<1> USE LogAssumption
<1>1. CASE Written(t)
  BY <1>1 DEF Written, Adds
<1>2. ASSUME NEW fault \in AppendFaults, Raises(fault) PROVE Idle \/ \E w \in BOOLEAN : Adds(w)
  <2>1. strays \subseteq strays' /\ prev' = prev /\ (fault # "clean" => next \in strays')
    BY <1>2 DEF Raises, Strays, memory
  <2>2. CASE fault = "clean"
    <3>1. file' = file /\ next' \in next .. MaxEntries + 1
      BY <1>2, <2>2 DEF Raises, InFile, Hashed, RType
    <3> QED
      BY <2>1, <3>1 DEF Idle
  <2>3. CASE fault = "torn"
    <3>1. file' = AddLine(file, Entry(FALSE))
      BY <1>2, <2>3 DEF Raises, InFile
    <3> QED
      BY <2>1, <3>1 DEF Adds
  <2>4. CASE fault = "unsynced"
    <3>1. file' = AddLine(file, Entry(TRUE))
      BY <1>2, <2>4 DEF Raises, InFile
    <3> QED
      BY <2>1, <2>4, <3>1 DEF Adds
  <2> QED
    BY <2>2, <2>3, <2>4 DEF AppendFaults
<1> QED
  BY <1>1, <1>2

\* There is no other step.
LEMMA LogSteps ==
    ASSUME ControlType, ControlInv, RType, [Next]_vars
    PROVE  Idle \/ (\E w \in BOOLEAN : Adds(w)) \/ Start \/ Rewrite
<1> USE LogAssumption DEF memory
<1>0. next \in next .. MaxEntries + 1
  BY DEF RType
<1>1. CASE UNCHANGED vars
  BY <1>0, <1>1 DEF vars, Idle
<1>2. ASSUME NEW t \in Thread, AppendEntry(t) PROVE Idle \/ \E w \in BOOLEAN : Adds(w)
  <2>1. /\ t \in Threads /\ Hashed /\ mode \notin {"down", "refused"} /\ mode' = mode
        /\ Written(t) \/ \E fault \in AppendFaults : Raises(fault)
    BY <1>2 DEF AppendEntry, Serving, Threads
  <2> QED
    BY <2>1, AppendCases
<1>3. ASSUME NEW t \in Threads, mode \notin {"down", "refused"}, Hook(t)
      PROVE  Idle \/ \E w \in BOOLEAN : Adds(w)
  <2>1. mode' # "refused"
    BY <1>3, Leaves DEF Hook, Attempt, NotDue, Publish, PublishFails, SeeFailure, SetFlag, RecordFailure
  <2>2. CASE RecordFailure(t)
    <3>1. Hashed /\ (Written(t) \/ \E fault \in AppendFaults : Raises(fault))
      BY <2>2 DEF RecordFailure
    <3> QED
      BY <1>3, <2>1, <3>1, AppendCases
  <2>3. CASE ~RecordFailure(t)
    <3>1. UNCHANGED <<file, prev, strays, next>>
      BY <1>3, <2>3 DEF Hook, Attempt, NotDue, Publish, PublishFails, SeeFailure, SetFlag
    <3> QED
      BY <1>0, <1>3, <2>1, <3>1 DEF Idle
  <2> QED
    BY <2>2, <2>3
<1>4. CASE MainRecord
  <2>1. /\ Main \in Threads /\ Hashed /\ mode \notin {"down", "refused"} /\ mode' # "refused"
        /\ Written(Main) \/ \E fault \in AppendFaults : Raises(fault)
    BY <1>4 DEF MainRecord, Threads
  <2> QED
    BY <2>1, AppendCases
<1>5. CASE CheckpointNow
  <2>1. UNCHANGED <<file, prev, strays, next>> /\ mode \notin {"down", "refused"} /\ mode' # "refused"
    BY <1>5 DEF CheckpointNow, After
  <2> QED
    BY <1>0, <2>1 DEF Idle
<1>6. CASE Sigterm
  BY <1>0, <1>6 DEF Sigterm, Idle
<1>7. CASE Crash
  BY <1>0, <1>7 DEF Crash, Idle
<1> QED
  BY <1>1, <1>2, <1>3, <1>4, <1>5, <1>6, <1>7 DEF Next

\* A line added after the last one, or merged with a cut one, keeps the links.
LEMMA LinkAdded ==
    ASSUME RType, LinkInv, HeadLine, NEW w \in BOOLEAN, Adds(w)
    PROVE  RType' /\ LinkInv' /\ HeadLine'
<1> USE LogAssumption
<1> DEFINE e == Entry(w)
<1>1. next \in 1 .. MaxEntries /\ next' \in 1 .. MaxEntries + 1 /\ prev' \in Hash /\ next \in Hash
  BY DEF RType, Adds, Hashed, Hash
<1>2. e \in Line /\ e.hash = next /\ e.prev = prev /\ e.whole = w
  BY <1>1 DEF RType, Entry, Line
<1>3. /\ file \in Seq(Line) /\ Len(file) \in Nat /\ DOMAIN file = 1 .. Len(file)
      /\ (file = <<>> <=> Len(file) = 0) /\ \A i \in DOMAIN file : file[i] \in Line
  BY Lines DEF RType
<1>4. \A l : Odd(l) => OddNext(l)
  BY DEF Odd, OddNext, Adds
<1>5. HeadLine' \/ ~(file' \in Seq(Line)) \/ Len(file') = 0 \/ file'[Len(file')].hash # next
      \/ (file'[Len(file')].whole /\ ~w)
  <2> SUFFICES ASSUME file' \in Seq(Line), Len(file') # 0, file'[Len(file')].hash = next,
                      file'[Len(file')].whole => w
               PROVE  HeadLine'
    OBVIOUS
  <2>1. Len(file') \in Nat /\ file' # <<>> /\ Len(file') + 1 # 1 /\ (Len(file') + 1) - 1 = Len(file')
    BY Lines, LenProperties
  <2>2. CASE prev' = next
    BY <2>1, <2>2 DEF HeadLine, PrevOf
  <2>3. CASE w => next \in strays'
    BY <2>1, <2>3 DEF HeadLine, Odd
  <2> QED
    BY <2>2, <2>3 DEF Adds
<1>6. CASE file # <<>> /\ ~Last(file).whole
  <2> DEFINE n == Len(file)
             m == [e EXCEPT !.whole = FALSE]
             g == Front(file)
  <2>1. m \in Line /\ m.hash = next /\ ~m.whole
    BY <1>2 DEF Line
  <2>2. n \in Nat /\ n >= 1 /\ n - 1 \in 0 .. n /\ (n - 1) + 1 = n
    BY <1>3, <1>6
  <2>3. g \in Seq(Line) /\ Len(g) = n - 1 /\ \A i \in 1 .. n - 1 : g[i] = file[i]
    <3>1. g = SubSeq(file, 1, n - 1)
      BY DEF Front
    <3>2. \A i \in 1 .. n - 1 : file[i] \in Line
      BY <1>3, <2>2
    <3> QED
      BY <2>2, <3>1, <3>2, SubSeqProperties
  <2>4. file' = Append(g, m)
    BY <1>6 DEF Adds, AddLine
  <2> HIDE DEF g, m, n, e
  <2>5. /\ file' \in Seq(Line) /\ Len(file') = n /\ file'[n] = m
        /\ \A i \in 1 .. n - 1 : file'[i] = file[i]
    BY <2>1, <2>2, <2>3, <2>4, AppendLine
  <2>6. DOMAIN file' = 1 .. n
    BY <2>5, LenProperties
  <2>7. LinkInv'
    <3> SUFFICES ASSUME NEW i \in 1 .. n, file'[i].whole
                 PROVE  file'[i].prev = PrevOf(file', i) \/ (i # 1 /\ OddNext(file'[i - 1]))
      BY <2>6 DEF LinkInv, Odd, OddNext
    <3>1. i \in 1 .. n - 1
      BY <2>1, <2>2, <2>5
    <3>2. file'[i] = file[i] /\ (i # 1 => i - 1 \in 1 .. n - 1 /\ file'[i - 1] = file[i - 1])
      BY <2>2, <2>5, <3>1
    <3>3. i \in DOMAIN file /\ (i # 1 => file[i - 1] \in Line)
      BY <1>3, <2>2, <3>1 DEF n
    <3>4. file[i].prev = PrevOf(file, i) \/ (i # 1 /\ Odd(file[i - 1]))
      BY <3>2, <3>3 DEF LinkInv
    <3>5. CASE file[i].prev = PrevOf(file, i)
      BY <3>2, <3>5 DEF PrevOf
    <3>6. CASE i # 1 /\ Odd(file[i - 1])
      BY <3>2, <3>6, <1>4
    <3> QED
      BY <3>4, <3>5, <3>6
  <2>8. HeadLine'
    BY <1>5, <2>1, <2>2, <2>5
  <2> QED
    BY <1>1, <2>5, <2>7, <2>8 DEF RType
<1>7. CASE ~(file # <<>> /\ ~Last(file).whole)
  <2> DEFINE n == Len(file)
  <2>1. file' = Append(file, e)
    BY <1>7 DEF Adds, AddLine
  <2>2. n \in Nat /\ n = Len(file) /\ DOMAIN file = 1 .. n
    BY <1>3
  <2> HIDE DEF e, n
  <2>3. /\ file' \in Seq(Line) /\ Len(file') = n + 1 /\ file'[n + 1] = e
        /\ \A i \in 1 .. n : file'[i] = file[i]
    BY <1>2, <1>3, <2>1, <2>2, AppendLine
  <2>4. DOMAIN file' = 1 .. n + 1
    BY <2>3, LenProperties
  <2>5. LinkInv'
    <3> SUFFICES ASSUME NEW i \in 1 .. n + 1, file'[i].whole
                 PROVE  file'[i].prev = PrevOf(file', i) \/ (i # 1 /\ OddNext(file'[i - 1]))
      BY <2>4 DEF LinkInv, Odd, OddNext
    <3>1. i # 1 => i - 1 \in 1 .. n /\ file'[i - 1] = file[i - 1] /\ file[i - 1] \in Line
      BY <1>3, <2>2, <2>3
    <3>2. PrevOf(file', i) = PrevOf(file, i)
      BY <3>1 DEF PrevOf
    <3>3. file'[i].prev = PrevOf(file, i) \/ (i # 1 /\ Odd(file[i - 1]))
      <4>1. CASE i = n + 1
        <5>1. file'[i].prev = prev
          BY <1>2, <2>3, <4>1
        <5>2. prev = PrevOf(file, n + 1) \/ (file # <<>> /\ Odd(file[n]))
          BY <2>2 DEF HeadLine, Adds
        <5>3. file # <<>> => i # 1 /\ i - 1 = n
          BY <1>3, <2>2, <4>1
        <5> QED
          BY <4>1, <5>1, <5>2, <5>3
      <4>2. CASE i \in 1 .. n
        <5>1. file'[i] = file[i] /\ i \in DOMAIN file
          BY <2>2, <2>3, <4>2
        <5> QED
          BY <5>1 DEF LinkInv
      <4> QED
        BY <2>2, <4>1, <4>2
    <3>4. CASE i # 1 /\ Odd(file[i - 1])
      BY <1>4, <3>1, <3>4
    <3> QED
      BY <3>2, <3>3, <3>4
  <2>6. HeadLine'
    <3>1. Len(file') # 0 /\ file'[Len(file')] = e
      BY <2>2, <2>3
    <3> QED
      BY <1>2, <1>5, <2>3, <3>1
  <2> QED
    BY <1>1, <2>3, <2>5, <2>6 DEF RType
<1> QED
  BY <1>6, <1>7

\* A start refuses only a log with an odd line, and takes the end of the file for the head.
LEMMA LinkStart ==
    ASSUME RType, LinkInv, RestartAccepts, Start
    PROVE  RType' /\ LinkInv' /\ HeadLine' /\ RestartAccepts'
<1> USE LogAssumption DEF memory
<1>0. /\ file \in Seq(Line) /\ Len(file) \in Nat /\ DOMAIN file = 1 .. Len(file)
      /\ (file = <<>> <=> Len(file) = 0) /\ \A i \in DOMAIN file : file[i].hash \in Hash
  BY Lines DEF RType
<1>1. UNCHANGED <<file, strays, next>>
  BY DEF Start
<1>2. LinkInv'
  BY <1>1 DEF LinkInv, PrevOf, Odd
<1>3. CASE Chained(file)
  <2>1. mode' = "starting" /\ prev' = IF file = <<>> THEN Zero ELSE file[Len(file)].hash
    BY <1>3 DEF Start, Last
  <2>2. prev' = PrevOf(file, Len(file) + 1)
    BY <1>0, <2>1 DEF PrevOf
  <2>3. prev' \in Hash
    <3>1. Zero \in Hash /\ (file # <<>> => Len(file) \in DOMAIN file)
      BY <1>0 DEF Zero, Hash
    <3> QED
      BY <1>0, <2>1, <3>1
  <2> QED
    BY <1>1, <1>2, <2>1, <2>2, <2>3 DEF RType, HeadLine, RestartAccepts
<1>4. CASE ~Chained(file)
  <2>1. mode' = "refused" /\ prev' = prev
    BY <1>4 DEF Start
  <2>2. PICK i \in DOMAIN file : ~file[i].whole \/ file[i].prev # PrevOf(file, i)
    BY <1>4 DEF Chained, PrevOf
  <2>3. \E j \in DOMAIN file : ~file[j].whole \/ (file[j].hash \in strays /\ j < Len(file))
    <3>1. CASE ~file[i].whole
      BY <3>1
    <3>2. CASE i # 1 /\ Odd(file[i - 1])
      <4>1. i - 1 \in DOMAIN file /\ i - 1 < Len(file)
        BY <1>0, <3>2
      <4> QED
        BY <3>2, <4>1 DEF Odd
    <3> QED
      BY <2>2, <3>1, <3>2 DEF LinkInv
  <2> QED
    BY <1>1, <1>2, <2>1, <2>3 DEF RType, HeadLine, RestartAccepts
<1> QED
  BY <1>3, <1>4

\* An edit continues the chain it leaves.
LEMMA LinkEdit ==
    ASSUME RType, LinkInv, Rewrite
    PROVE  RType' /\ LinkInv' /\ HeadLine' /\ RestartAccepts'
<1> USE LogAssumption DEF memory
<1>0. /\ file \in Seq(Line) /\ Len(file) \in Nat /\ DOMAIN file = 1 .. Len(file)
      /\ \A i \in DOMAIN file : file[i] \in Line /\ file[i].hash \in Hash
      /\ next \in 1 .. MaxEntries + 1
  BY Lines DEF RType
<1>1. mode' = "down" /\ prev' = prev /\ strays' = strays
  BY DEF Rewrite
<1>2. PICK n \in 0 .. Len(file) :
         \/ file' = SubSeq(file, 1, n) /\ next' = next
         \/ /\ Hashed
            /\ file' = Append(SubSeq(file, 1, n),
                              [hash |-> next, whole |-> TRUE,
                               prev |-> IF n = 0 THEN Zero ELSE file[n].hash])
  BY DEF Rewrite
<1> DEFINE cut == SubSeq(file, 1, n)
           e   == [hash |-> next, whole |-> TRUE, prev |-> IF n = 0 THEN Zero ELSE file[n].hash]
<1>3. /\ cut \in Seq(Line) /\ Len(cut) = n /\ n \in Nat /\ n <= Len(file)
      /\ \A i \in 1 .. n : cut[i] = file[i]
  BY <1>0, SubSeqProperties
<1>4. HeadLine' /\ RestartAccepts'
  BY <1>1 DEF HeadLine, RestartAccepts
<1>5. ASSUME NEW i \in 1 .. n, file'[i] = file[i], i # 1 => file'[i - 1] = file[i - 1]
      PROVE  file'[i].whole => file'[i].prev = PrevOf(file', i) \/ (i # 1 /\ OddNext(file'[i - 1]))
  <2>1. i \in DOMAIN file /\ (file[i].whole => file[i].prev = PrevOf(file, i) \/ (i # 1 /\ Odd(file[i - 1])))
    BY <1>0, <1>3 DEF LinkInv
  <2> QED
    BY <1>1, <1>5, <2>1 DEF PrevOf, Odd, OddNext
<1>6. CASE file' = cut /\ next' = next
  <2>1. DOMAIN file' = 1 .. n
    BY <1>3, <1>6, LenProperties
  <2>2. \A i \in 1 .. n : file'[i] = file[i] /\ (i # 1 => file'[i - 1] = file[i - 1])
    BY <1>3, <1>6
  <2> QED
    BY <1>1, <1>3, <1>4, <1>5, <1>6, <2>1, <2>2 DEF RType, LinkInv, Odd, OddNext
<1>7. CASE Hashed /\ file' = Append(cut, e)
  <2>1. next \in Hash /\ next' \in 1 .. MaxEntries + 1
    BY <1>0, <1>7 DEF Hashed, Hash
  <2>2. e \in Line /\ e.prev = IF n = 0 THEN Zero ELSE file[n].hash
    <3>1. Zero \in Hash /\ (n # 0 => n \in DOMAIN file)
      BY <1>0, <1>3 DEF Zero, Hash
    <3> QED
      BY <1>0, <2>1, <3>1 DEF Line
  <2> HIDE DEF e, cut
  <2>3. /\ file' \in Seq(Line) /\ Len(file') = n + 1 /\ file'[n + 1] = e
        /\ \A i \in 1 .. n : file'[i] = file[i]
    BY <1>3, <1>7, <2>2, AppendLine
  <2>4. DOMAIN file' = 1 .. n + 1
    BY <2>3, LenProperties
  <2>5. \A i \in 1 .. n : file'[i] = file[i] /\ (i # 1 => file'[i - 1] = file[i - 1])
    BY <1>3, <2>3
  <2>6. file'[n + 1].prev = PrevOf(file', n + 1)
    <3>1. n # 0 => n \in 1 .. n /\ file'[n] = file[n] /\ n + 1 # 1 /\ (n + 1) - 1 = n
      BY <1>3, <2>3
    <3> QED
      BY <1>3, <2>2, <2>3, <3>1 DEF PrevOf
  <2>7. LinkInv'
    <3> SUFFICES ASSUME NEW i \in 1 .. n + 1, file'[i].whole
                 PROVE  file'[i].prev = PrevOf(file', i) \/ (i # 1 /\ OddNext(file'[i - 1]))
      BY <2>4 DEF LinkInv, Odd, OddNext
    <3>1. CASE i = n + 1
      BY <2>6, <3>1
    <3>2. CASE i \in 1 .. n
      BY <1>5, <2>5, <3>2
    <3> QED
      BY <1>3, <3>1, <3>2
  <2> QED
    BY <1>1, <1>4, <2>1, <2>3, <2>7 DEF RType
<1> QED
  BY <1>2, <1>6, <1>7

\* Over every failure: a start refuses the log only for a line, or part of one, that an append
\* raised about (AuditLog; H19), wherever the process died, whatever appends and publications
\* failed, of any number of threads, and whoever cut the log while nobody ran.
THEOREM NeverShutOut == Spec => []RestartAccepts
<1> USE LogAssumption
<1>1. Init => RInv
  <2> SUFFICES ASSUME Init PROVE RInv
    OBVIOUS
  <2>1. ControlType /\ ControlInv
    BY DEF Init, ControlType, ControlInv, Mode, Step, Threads
  <2>2. RType /\ HeadLine
    BY DEF Init, RType, HeadLine, PrevOf, Hash, Zero
  <2>3. LinkInv /\ RestartAccepts
    BY DEF Init, LinkInv, RestartAccepts
  <2> QED
    BY <2>1, <2>2, <2>3 DEF RInv
<1>2. RInv /\ [Next]_vars => RInv'
  <2> SUFFICES ASSUME RInv, [Next]_vars PROVE RInv'
    OBVIOUS
  <2>1. ControlType' /\ ControlInv'
    BY ControlStep DEF RInv
  <2>2. RType' /\ LinkInv' /\ HeadLine' /\ RestartAccepts'
    <3>1. CASE Idle
      <4>1. \A l : Odd(l) => Odd(l)'
        BY <3>1 DEF Idle, Odd
      <4>2. RType'
        BY <3>1 DEF RInv, RType, Idle
      <4>3. LinkInv' /\ HeadLine'
        BY <3>1, <4>1 DEF RInv, LinkInv, HeadLine, PrevOf, Odd, Idle
      <4>4. RestartAccepts'
        BY <3>1 DEF RInv, RestartAccepts, Idle
      <4> QED
        BY <4>2, <4>3, <4>4
    <3>2. ASSUME NEW w \in BOOLEAN, Adds(w)
          PROVE  RType' /\ LinkInv' /\ HeadLine' /\ RestartAccepts'
      BY <3>2, LinkAdded DEF RInv, RestartAccepts, Adds
    <3>3. CASE Start
      BY <3>3, LinkStart DEF RInv
    <3>4. CASE Rewrite
      BY <3>4, LinkEdit DEF RInv
    <3> QED
      BY <3>1, <3>2, <3>3, <3>4, LogSteps DEF RInv
  <2> QED
    BY <2>1, <2>2 DEF RInv
<1>3. RInv => RestartAccepts
  BY DEF RInv
<1> QED
  BY <1>1, <1>2, <1>3, PTL DEF Spec

-----------------------------------------------------------------------------
(* What the inductive invariant gives.                                     *)

\* A log nobody has rewritten passes its own checkpoints (check_log), however the appends
\* and the publications of any number of threads interleave and over any deaths, until a
\* failure leaves something behind: of an append in the log, or of a publication in part.
THEOREM OwnLogAccepted == Spec => []OwnLogPasses
<1>1. (Untouched => IInv) => OwnLogPasses
  <2> SUFFICES ASSUME IInv, rewrites = 0, NEW i \in DOMAIN sink PROVE Extends(sink[i])
    BY DEF OwnLogPasses, CheckLog, Untouched
  <2>1. IsHead(file, sink[i]) /\ Len(file) \in Nat /\ (file = <<>> <=> Len(file) = 0)
    BY Lines DEF IInv, SinkInv, TypeOK
  <2>2. file # <<>>
    BY <2>1 DEF IsHead
  <2>3. sink[i].count <= Len(file)
    BY <2>1 DEF IsHead
  <2> QED
    BY <2>1, <2>2, <2>3 DEF Extends, IsHead
<1> QED
  BY <1>1, Invariance, PTL

\* What the chain and one checkpoint give: the hash at the checkpoint is the published one,
\* and each hash fixes the one below it.
LEMMA Downward ==
    ASSUME NEW f \in Seq(Line), NEW n \in Nat, NEW cp, NEW c, Sound(f, n, cp, c),
           cp.count <= Len(f), f[cp.count].hash = cp.head,
           \A i \in DOMAIN f : f[i].prev = PrevOf(f, i)
    PROVE  \A j \in 1 .. cp.count : f[j].hash = c[j]
<1> DEFINE Wrong == {j \in 1 .. cp.count : f[j].hash # c[j]}
<1>1. /\ cp.count \in Nat \ {0} /\ Len(f) \in Nat /\ DOMAIN f = 1 .. Len(f)
      /\ cp.count \in 1 .. cp.count
  BY Lines DEF Sound
<1>2. SUFFICES ASSUME Wrong # {} PROVE FALSE
  OBVIOUS
<1>3. Wrong \in SUBSET (0 .. cp.count)
  BY <1>1
<1>4. PICK j \in Wrong : \A i \in Wrong : i <= j
  BY <1>1, <1>2, <1>3, Greatest
<1>5. j \in 1 .. cp.count /\ f[j].hash # c[j]
  BY <1>4
<1>6. j # cp.count
  BY <1>5 DEF Sound
<1>7. j + 1 \in 1 .. cp.count /\ j + 1 \in 2 .. cp.count /\ j + 1 \in DOMAIN f
      /\ (j + 1) - 1 = j /\ j + 1 # 1 /\ ~(j + 1 <= j)
  BY <1>1, <1>5, <1>6
<1>8. f[j + 1].hash = c[j + 1]
  BY <1>4, <1>7
<1>9. f[j + 1].prev = c[j]
  BY <1>7, <1>8 DEF Sound
<1>10. f[j + 1].prev = f[j].hash
  BY <1>7 DEF PrevOf
<1> QED
  BY <1>5, <1>9, <1>10

\* Rewriting the past is detected: a chained log that passes the published checkpoints has,
\* below each of them, the entries the broker had when it published it (check_log), whatever
\* publications failed and while no append that raised has left its line in the file.
THEOREM PastIsFixed == Spec => [](Untouched => RewriteDetected)
<1>1. IInv => RewriteDetected
  <2> SUFFICES ASSUME IInv, Chained(file), CheckLog, NEW i \in DOMAIN sink
               PROVE  HashesOf(file, sink[i].count) = covers[i]
    BY DEF RewriteDetected
  <2> USE LogAssumption
  <2>1. /\ file \in Seq(Line) /\ next \in Nat /\ sink \in Seq(Checkpoint)
        /\ covers \in Seq(Seq(Hash)) /\ Len(sink) = Len(covers)
    BY DEF IInv, TypeOK
  <2>2. Sound(file, next, sink[i], covers[i]) /\ Extends(sink[i])
    BY DEF IInv, SinkInv, CheckLog
  <2>3. \A k \in DOMAIN file : file[k].prev = PrevOf(file, k)
    BY DEF Chained, PrevOf
  <2>4. \A j \in 1 .. sink[i].count : file[j].hash = covers[i][j]
    <3> DEFINE cp == sink[i]
               c  == covers[i]
    <3>1. Sound(file, next, cp, c) /\ cp.count <= Len(file) /\ file[cp.count].hash = cp.head
      BY <2>2 DEF Extends
    <3> HIDE DEF cp, c
    <3>2. \A j \in 1 .. cp.count : file[j].hash = c[j]
      BY <2>1, <2>3, <3>1, Downward
    <3> QED
      BY <3>2 DEF cp, c
  <2>5. sink[i].count \in 0 .. Len(file) /\ Len(covers[i]) = sink[i].count
    BY <2>1, <2>2, Lines DEF Extends, Sound
  <2>6. covers[i] \in Seq(Hash)
    BY <2>1, LenProperties, ElementOfSeq
  <2>7. /\ HashesOf(file, sink[i].count) \in Seq(Hash)
        /\ Len(HashesOf(file, sink[i].count)) = sink[i].count
        /\ \A j \in 1 .. sink[i].count : HashesOf(file, sink[i].count)[j] = file[j].hash
    BY <2>1, <2>5, HashesOfLog
  <2> QED
    BY <2>4, <2>5, <2>6, <2>7, SeqEqual
<1> QED
  BY <1>1, Invariance, PTL

\* Fewer than Every records are unprotected once nobody is at the log (Checkpointer), while
\* every publication succeeds and no append that raised has left its line in the file: over
\* concurrent appends that publish out of order and deaths.
THEOREM IntervalKept == Spec => [](Untouched => UnprotectedBelowInterval)
<1>1. IInv => UnprotectedBelowInterval
  <2> SUFFICES ASSUME IInv, mode = "up", failures = 0, rewrites = 0,
                      \A t \in Threads : pc[t] = "idle"
               PROVE  count - Protected < Every
    BY DEF UnprotectedBelowInterval
  <2>1. Numbers /\ Paced
    BY NumbersOf DEF IInv, IntervalInv
  <2> DEFINE S == {0} \cup {sink[i].count : i \in DOMAIN sink}
  <2>2. Len(file) \in Nat /\ \A i \in DOMAIN sink : sink[i].count \in 1 .. Len(file)
    BY Lines DEF IInv, TypeOK, SinkInv, IsHead
  <2>3. S \in SUBSET (0 .. Len(file)) /\ S # {}
    BY <2>2
  <2>4. Max(S) \in S /\ \A j \in S : j <= Max(S)
    BY <2>2, <2>3, Greatest
  <2>5. lastAttempt = 0 \/ \E i \in DOMAIN sink : sink[i].count >= lastAttempt
    BY <2>1 DEF Paced, Attempted
  <2>6. count - lastAttempt < Every
    BY <2>1 DEF Paced, Asked
  <2>7. lastAttempt <= Max(S) /\ Max(S) \in Nat
    <3>1. Max(S) \in Nat
      BY <2>2, <2>3, <2>4
    <3>2. CASE lastAttempt = 0
      BY <3>1, <3>2
    <3>3. ASSUME NEW i \in DOMAIN sink, sink[i].count >= lastAttempt PROVE lastAttempt <= Max(S)
      <4>1. sink[i].count <= Max(S) /\ sink[i].count \in Nat
        BY <2>1, <2>4 DEF Numbers
      <4> QED
        BY <2>1, <3>1, <3>3, <4>1 DEF Numbers
    <3> QED
      BY <2>5, <3>1, <3>2, <3>3
  <2>8. Protected = Max(S)
    BY DEF Protected
  <2> HIDE DEF S
  <2> QED
    BY <2>1, <2>6, <2>7, <2>8 DEF Numbers
<1> QED
  BY <1>1, Invariance, PTL

=============================================================================
