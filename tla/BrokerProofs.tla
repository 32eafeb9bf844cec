---------------------------- MODULE BrokerProofs ----------------------------
(***************************************************************************)
(* Proofs about Broker, and about Evidence on top of it, for every set of  *)
(* requests, paths, contents and keys, every bound and every choice of     *)
(* faults. First why evidence precedes effect and a key buys one effect;   *)
(* then what the readers of the log conclude from it: verify_world and the *)
(* read verdict, reconcile_pending, the workspace at rest, and an audit    *)
(* beside a running broker.                                                *)
(***************************************************************************)
EXTENDS Evidence, TLAPS, SequenceTheorems, WellFoundedInduction

-----------------------------------------------------------------------------
(* Operators the model is built from.                                      *)

\* A non-empty set of positions of a sequence has the greatest element Max picks: the
\* last record of a scan over the log exists.
LEMMA MaxOfPositions ==
    ASSUME NEW n \in Nat, NEW S \in SUBSET (1 .. n), S # {}
    PROVE  /\ Max(S) \in S
           /\ \A j \in S : j <= Max(S)
<1> DEFINE T == {n - i : i \in S}
<1>1. T \subseteq Nat /\ T # {}
  OBVIOUS
<1>2. PICK t \in T : \A y \in T : ~(<<y, t>> \in OpToRel(<, Nat))
  BY <1>1, NatLessThanWellFounded, WFMin
<1>3. PICK m \in S : t = n - m
  OBVIOUS
<1>4. ASSUME NEW j \in S PROVE m >= j
  <2>1. n - j \in T /\ n - j \in Nat /\ n - m \in Nat
    BY <1>1
  <2>2. ~(n - j < n - m)
    BY <1>2, <1>3, <2>1 DEF OpToRel
  <2> QED
    BY <2>2
<1>5. \E x \in S : \A y \in S : x >= y
  BY <1>4
<1> QED
  BY <1>5 DEF Max

\* What AuditLog.append leaves: the old records in place, and one more at the end.
LEMMA AppendRecord ==
    ASSUME NEW l \in Seq(LogRecord), NEW e \in LogRecord
    PROVE  /\ Append(l, e) \in Seq(LogRecord)
           /\ DOMAIN l = 1 .. Len(l) /\ Len(l) \in Nat
           /\ DOMAIN Append(l, e) = 1 .. Len(l) + 1
           /\ \A i \in DOMAIN l : Append(l, e)[i] = l[i]
           /\ Append(l, e)[Len(l) + 1] = e
BY AppendProperties, LenProperties

\* Every verdict B5's rule gives is a verdict.
LEMMA ReconcileType ==
    ASSUME NEW b, NEW i, NEW s
    PROVE  Reconcile(b, i, s) \in Verdict \ {"none"}
BY DEF Reconcile, Verdict

\* The table a restart rebuilds is a key table.
LEMMA RebuiltKeysType ==
    ASSUME TypeOK
    PROVE  RebuiltKeys \in [Key -> KeyEntry \cup {None}]
<1>1. ASSUME NEW k \in Key, KeyUses(k) # {}
      PROVE  log[Max(KeyUses(k))].rid \in Req
  <2>1. log \in Seq(LogRecord)
    BY DEF TypeOK
  <2>2. Len(log) \in Nat /\ DOMAIN log = 1 .. Len(log)
        /\ \A i \in 1 .. Len(log) : log[i] \in LogRecord
    BY <2>1, LenProperties, ElementOfSeq
  <2>3. KeyUses(k) \in SUBSET (1 .. Len(log))
    BY <2>2 DEF KeyUses
  <2>4. Max(KeyUses(k)) \in 1 .. Len(log)
    BY <1>1, <2>2, <2>3, MaxOfPositions
  <2> QED
    BY <2>2, <2>4 DEF LogRecord
<1>2. ASSUME NEW r PROVE KeyState(r) \in {"pending", "done", "failed"}
  BY DEF KeyState
<1> QED
  BY <1>1, <1>2 DEF RebuiltKeys, KeyEntry

-----------------------------------------------------------------------------
(* The inductive invariant.                                                *)

PreparedAt  == {i \in DOMAIN log : log[i].event = "prepared"}
Has(r)      == \E i \in PreparedAt : log[i].rid = r
Deciding(r) == pc[r] \in {"admitted", "observed"}
Running(r)  == pc[r] \in {"prepared", "fetched", "executed", "reconciled", "recorded"}

\* the requests whose key is used up: a prepared record alone does not count, since an
\* append may raise after its record is durable, and then the request is refused
Committed(r) == Running(r) \/ r \in applied

\* Why a key buys one effect: the key of a committed request is in the table whenever the
\* broker serves, and the one thread that decides holds the lock and found its key free.
KeyInv ==
    /\ \A r \in Req : Running(r) => mode = "up"
    /\ \A r \in Req : Committed(r) => Has(r)
    /\ \A r \in Req : Deciding(r) => mode = "up" /\ lock = r
    /\ \A r \in Req : Deciding(r) /\ KeyOf(r) # None => keys[KeyOf(r)] = None
    /\ \A r \in Req : pc[r] = "arrived" => mode = "up"
    /\ \A i \in PreparedAt : ~Deciding(log[i].rid) /\ pc[log[i].rid] \notin {"idle", "arrived"}
    /\ mode = "up" => \A r \in Req : Committed(r) /\ KeyOf(r) # None => keys[KeyOf(r)] # None
    /\ \A r, s \in Req :
          Committed(r) /\ Committed(s) /\ KeyOf(r) # None /\ KeyOf(r) = KeyOf(s) => r = s

\* Why evidence precedes effect: what is applied, signed or lying in the workspace
\* goes back to a prepared record.
EvidenceInv ==
    /\ \A a \in minted : Has(a.rid)
    /\ \A p \in Path : files[p].att \in minted \cup {None}

IInv == TypeOK /\ KeyInv /\ EvidenceInv

\* The two ways to say that a prepared record of r is in the log.
LEMMA HasIsPrepared == ASSUME NEW r PROVE Has(r) <=> Prepared(r) # {}
BY DEF Has, PreparedAt, Prepared

\* A thread past its prepared record has its key in the table.
LEMMA RunningHasKey ==
    ASSUME TypeOK, KeyInv, NEW r \in Req, Running(r), KeyOf(r) # None
    PROVE  keys[KeyOf(r)] # None
BY DEF KeyInv, Committed

-----------------------------------------------------------------------------
(* Type correctness.                                                       *)

\* Appending a record keeps the log a log, and so does an append that raises.
LEMMA LogType ==
    ASSUME TypeOK, NEW e \in LogRecord, Recorded(e) \/ AppendRaises
    PROVE  log' \in Seq(LogRecord)
BY AppendRecord DEF TypeOK, Recorded, AppendRaises

\* A step of a handler thread keeps every variable in its type.
LEMMA ThreadType ==
    ASSUME TypeOK, KeyInv, NEW r \in Req, pc[r] # "idle", Thread(r)
    PROVE  TypeOK'
<1> USE ConstantsAssumption, NoneAssumption
<1>0. /\ req[r] \in Proposal /\ req[r].inv \in Invocation /\ Target(r) \in Path
      /\ KeyOf(r) \in Key \cup {None}
  BY DEF TypeOK, Proposal, Invocation, Target, KeyOf
<1>1. CASE Refuse(r)
  <2>1. Entry("decision", r, None, "none", "none") \in LogRecord
    BY DEF Entry, LogRecord, Event, State, Effect, Verdict
  <2>2. log' \in Seq(LogRecord)
    BY <1>1, <2>1, LogType DEF Refuse, RecordRefusal
  <2> QED
    BY <1>1, <2>2 DEF TypeOK, Refuse, PC, bounds
<1>2. CASE AnswerDuplicate(r)
  <2>1. PICK a \in {"already_applied", "none"} :
          /\ effect' = [effect EXCEPT ![r] = a]
          /\ RecordRefusal(Entry("duplicate", r, None, a, "none"))
    BY <1>2 DEF AnswerDuplicate
  <2>2. Entry("duplicate", r, None, a, "none") \in LogRecord /\ a \in Effect
    BY DEF Entry, LogRecord, Event, State, Effect, Verdict
  <2>3. log' \in Seq(LogRecord)
    BY <2>1, <2>2, LogType DEF RecordRefusal
  <2> QED
    BY <1>2, <2>1, <2>2, <2>3 DEF TypeOK, AnswerDuplicate, PC, bounds
<1>3. CASE Admit(r)
  BY <1>3 DEF TypeOK, Admit, PC, durable, bounds
<1>4. CASE ObserveBefore(r)
  <2>1. PICK s \in State : before' = [before EXCEPT ![r] = s]
    BY <1>0, <1>4 DEF ObserveBefore, Observations, TypeOK, File, State
  <2> QED
    BY <1>4, <2>1 DEF TypeOK, ObserveBefore, PC, durable, bounds
<1>5. CASE RecordPrepared(r)
  <2>1. Entry("prepared", r, before[r], "none", "none") \in LogRecord
    BY DEF TypeOK, Entry, LogRecord, Event, Effect, Verdict
  <2>2. log' \in Seq(LogRecord)
    BY <1>5, <2>1, LogType DEF RecordPrepared, RecordedButRaises
  <2>3. PendingKey(r) \in [Key -> KeyEntry \cup {None}]
    BY <1>0 DEF TypeOK, PendingKey, KeyEntry
  <2> QED
    BY <1>5, <2>2, <2>3 DEF TypeOK, RecordPrepared, PC, bounds
<1>6. CASE ExecWrite(r)
  <2>1. Attest(r) \in Attestation /\ req[r].inv.content \in Content
    BY <1>0, <1>6 DEF ExecWrite, Attest, Attestation, Tool, Target, Invocation
  <2>2. ASSUME NEW att \in Attached(r) PROVE Written(r, att) \in File /\ {att} \ {None} \subseteq Attestation
    BY <2>1, <2>2 DEF Written, File, Attached
  <2>3. files' \in [Path -> File] /\ minted' \subseteq Attestation /\ applied' \subseteq Req
    <3>1. PICK att \in Attached(r) :
             /\ minted' = minted \cup ({att} \ {None})
             /\ \/ files' = [files EXCEPT ![Target(r)] = Written(r, att)]
                \/ files' = files
      BY <1>6 DEF ExecWrite
    <3>2. applied' \subseteq Req
      BY <1>6 DEF TypeOK, ExecWrite
    <3> QED
      BY <1>0, <2>2, <3>1, <3>2 DEF TypeOK
  <2>4. effect' \in [Req -> Effect]
    BY <1>6 DEF TypeOK, ExecWrite, Reported, Effect
  <2> QED
    BY <1>6, <2>3, <2>4 DEF TypeOK, ExecWrite, PC, bounds
<1>7. CASE ExecDelete(r)
  <2>1. files' \in [Path -> File] /\ applied' \subseteq Req
    <3>1. NoFile \in File
      BY DEF NoFile, File
    <3>2. files' = files \/ files' = [files EXCEPT ![Target(r)] = NoFile]
      BY <1>7 DEF ExecDelete
    <3>3. applied' \subseteq Req
      BY <1>7 DEF TypeOK, ExecDelete
    <3> QED
      BY <1>0, <3>1, <3>2, <3>3 DEF TypeOK
  <2>2. effect' \in [Req -> Effect]
    BY <1>7 DEF TypeOK, ExecDelete, Reported, Effect
  <2> QED
    BY <1>7, <2>1, <2>2 DEF TypeOK, ExecDelete, PC, bounds
<1>8. CASE ExecRead(r)
  BY <1>0, <1>8 DEF TypeOK, ExecRead, PC, durable, bounds
<1>9. CASE ReadVerdict(r)
  BY <1>9 DEF TypeOK, ReadVerdict, PC, Effect, File, NoFile, durable, bounds
<1>10. CASE ExecHttp(r)
  BY <1>10 DEF TypeOK, ExecHttp, PC, Effect, bounds
<1>11. CASE ExecFails(r)
  BY <1>11 DEF TypeOK, ExecFails, PC, Effect, durable, bounds
<1>12. CASE ObserveAfter(r)
  <2>1. PICK v \in Verdict : verdict' = [verdict EXCEPT ![r] = v]
    <3>1. CASE Changes(r)
      BY <1>12, <3>1, ReconcileType DEF ObserveAfter
    <3>2. CASE ~Changes(r)
      BY <1>12, <3>2 DEF ObserveAfter, Verdict
    <3> QED
      BY <3>1, <3>2
  <2> QED
    BY <1>12, <2>1 DEF TypeOK, ObserveAfter, PC, durable, bounds
<1>13. CASE RecordOutcome(r)
  <2>1. Entry("outcome", r, before[r], effect[r], verdict[r]) \in LogRecord
    BY DEF TypeOK, Entry, LogRecord, Event
  <2>2. log' \in Seq(LogRecord)
    BY <1>13, <2>1, LogType DEF RecordOutcome
  <2> QED
    BY <1>13, <2>2 DEF TypeOK, RecordOutcome, PC, bounds
<1>14. CASE UpdateKey(r)
  <2>1. StateAfter(r) \in {"pending", "done", "failed"}
    BY DEF StateAfter
  <2>2. keys' \in [Key -> KeyEntry \cup {None}]
    <3>1. CASE KeyOf(r) = None
      BY <1>14, <3>1 DEF TypeOK, UpdateKey
    <3>2. CASE KeyOf(r) # None
      <4>1. keys[KeyOf(r)] \in KeyEntry
        BY <1>0, <1>14, <3>2, RunningHasKey DEF TypeOK, UpdateKey, Running
      <4> QED
        BY <1>0, <1>14, <2>1, <3>2, <4>1 DEF TypeOK, UpdateKey, KeyEntry
    <3> QED
      BY <3>1, <3>2
  <2> QED
    BY <1>14, <2>2 DEF TypeOK, UpdateKey, PC, durable, bounds
<1> QED
  BY <1>1, <1>2, <1>3, <1>4, <1>5, <1>6, <1>7, <1>8, <1>9, <1>10, <1>11, <1>12, <1>13,
     <1>14 DEF Thread

\* Every step keeps every variable in its type.
LEMMA TypeStep ==
    ASSUME TypeOK, KeyInv, [Next]_vars
    PROVE  TypeOK'
<1> USE ConstantsAssumption, NoneAssumption
<1>1. CASE UNCHANGED vars
  BY <1>1 DEF TypeOK, vars
<1>2. ASSUME NEW r \in Req, Arrive(r) PROVE TypeOK'
  <2>1. PICK p \in Proposals : req' = [req EXCEPT ![r] = p]
    BY <1>2 DEF Arrive
  <2> QED
    BY <1>2, <2>1 DEF TypeOK, Arrive, PC, durable, bounds
<1>3. ASSUME NEW r \in Req, Thread(r) PROVE TypeOK'
  <2>1. pc[r] # "idle"
    BY <1>3 DEF Thread, Refuse, AnswerDuplicate, Admit, ObserveBefore, RecordPrepared, ExecWrite,
         ExecDelete, ExecRead, ReadVerdict, ExecHttp, ExecFails, ObserveAfter, RecordOutcome, UpdateKey
  <2> QED
    BY <1>3, <2>1, ThreadType
<1>4. ASSUME NEW r \in Req, ReconcilePending(r) PROVE TypeOK'
  <2>1. PICK v \in StartVerdicts(r) : log' = Append(log, Entry("reconciled", r, None, "none", v))
    BY <1>4 DEF ReconcilePending
  <2>2. v \in Verdict
    BY <2>1, ReconcileType DEF StartVerdicts, Verdict
  <2>3. Entry("reconciled", r, None, "none", v) \in LogRecord
    BY <2>2 DEF Entry, LogRecord, Event, State, Effect
  <2>4. log' \in Seq(LogRecord)
    BY <2>1, <2>3, AppendRecord DEF TypeOK
  <2> QED
    BY <1>4, <2>4 DEF TypeOK, ReconcilePending, bounds
<1>5. CASE FinishStart
  BY <1>5, RebuiltKeysType DEF TypeOK, FinishStart, durable, bounds
<1>6. CASE Crash
  BY <1>6 DEF TypeOK, Crash, PC, durable
<1>7. CASE Done
  BY <1>7 DEF TypeOK, Done, vars
<1>8. ASSUME NEW p \in Path, Foreign(p) PROVE TypeOK'
  <2>1. PICK f \in ForeignFile : files' = [files EXCEPT ![p] = f]
    BY <1>8 DEF Foreign
  <2>2. f \in File
    <3>1. NoFile \in File
      BY DEF NoFile, File
    <3>2. [content : Content, att : minted \cup {None}, link : {FALSE}] \subseteq File
      BY DEF File, TypeOK
    <3>3. [content : Content \cup {Absent}, att : {None}, link : {TRUE}] \subseteq File
      BY DEF File
    <3> QED
      BY <2>1, <3>1, <3>2, <3>3 DEF ForeignFile
  <2> QED
    BY <1>8, <2>1, <2>2 DEF TypeOK, Foreign
<1> QED
  BY <1>1, <1>2, <1>3, <1>4, <1>5, <1>6, <1>7, <1>8 DEF Next

-----------------------------------------------------------------------------
(* One key, one effect.                                                    *)

SameEvidence == PreparedAt' = PreparedAt /\ \A i \in PreparedAt : log'[i] = log[i]

\* Only a prepared record changes what the log says is prepared.
LEMMA OtherRecord ==
    ASSUME TypeOK, NEW e \in LogRecord, e.event # "prepared", Recorded(e) \/ AppendRaises
    PROVE  SameEvidence
<1>1. CASE AppendRaises
  BY <1>1 DEF AppendRaises, SameEvidence, PreparedAt
<1>2. CASE Recorded(e)
  <2>1. /\ log \in Seq(LogRecord) /\ log' = Append(log, e)
    BY <1>2 DEF TypeOK, Recorded
  <2>2. /\ DOMAIN log = 1 .. Len(log) /\ Len(log) \in Nat
        /\ DOMAIN log' = 1 .. Len(log) + 1
        /\ \A i \in DOMAIN log : log'[i] = log[i]
        /\ log'[Len(log) + 1] = e
    BY <2>1, AppendRecord
  <2> QED
    BY <2>2 DEF SameEvidence, PreparedAt
<1> QED
  BY <1>1, <1>2

\* The steps of a thread that neither take the lock nor prepare: they move one thread
\* forward, and leave the evidence and the set of used keys as they are.
LEMMA QuietStep ==
    ASSUME TypeOK, KeyInv, NEW r \in Req, NEW x \in PC, SameEvidence,
           req' = req, mode' = mode, lock' = lock, pc' = [pc EXCEPT ![r] = x],
           \A k \in Key : keys'[k] = None <=> keys[k] = None,
           \A s \in applied' : s \in applied \/ (s = r /\ Running(r)),
           \/ x = "replied" /\ (pc[r] = "arrived" \/ Running(r))
           \/ x = "observed" /\ Deciding(r)
           \/ x \in {"fetched", "executed", "reconciled", "recorded"} /\ Running(r)
    PROVE  KeyInv'
<1>1. /\ \A s \in Req : pc'[s] = IF s = r THEN x ELSE pc[s]
      /\ \A i \in PreparedAt : log[i].rid \in Req /\ KeyOf(log[i].rid)' = KeyOf(log[i].rid)
      /\ \A s \in Req : pc[s] # "idle" => KeyOf(s) \in Key \cup {None}
      /\ \A s \in Req : KeyOf(s)' = KeyOf(s)
  <2>1. \A i \in DOMAIN log : log[i] \in LogRecord
    BY LenProperties, ElementOfSeq DEF TypeOK
  <2>2. \A i \in PreparedAt : log[i].rid \in Req
    BY <2>1 DEF PreparedAt, LogRecord
  <2>3. \A s \in Req : pc[s] # "idle" => KeyOf(s) \in Key \cup {None}
    BY DEF TypeOK, KeyOf, Proposal
  <2>4. \A s \in Req : pc'[s] = IF s = r THEN x ELSE pc[s]
    BY DEF TypeOK
  <2>5. \A s : KeyOf(s)' = KeyOf(s)
    BY DEF KeyOf
  <2>6. \A i \in PreparedAt : KeyOf(log[i].rid)' = KeyOf(log[i].rid)
    BY DEF KeyOf, SameEvidence
  <2> QED
    BY <2>2, <2>3, <2>4, <2>5, <2>6
<1>2. \A s \in Req : Has(s)' <=> Has(s)
  BY DEF SameEvidence, Has
<1>3. \A s \in Req : (Running(s)' => mode' = "up") /\ (Committed(s)' => Committed(s))
  BY <1>1 DEF KeyInv, Running, Committed
<1>4. \A s \in Req : Deciding(s)' => Deciding(s) /\ mode' = "up" /\ lock' = s
  BY <1>1 DEF KeyInv, Deciding, Running
<1>5. \A s \in Req : Deciding(s)' /\ KeyOf(s)' # None => keys'[KeyOf(s)'] = None
  BY <1>1, <1>4 DEF KeyInv, Deciding
<1>6. \A s \in Req : pc'[s] = "arrived" => mode' = "up"
  BY <1>1 DEF KeyInv
<1>7. \A i \in PreparedAt' : ~Deciding(log[i].rid)' /\ pc'[log'[i].rid] \notin {"idle", "arrived"}
                             /\ log'[i].rid = log[i].rid
  BY <1>1, <1>4 DEF KeyInv, SameEvidence
<1>8. \A s \in Req : Committed(s) => pc[s] # "idle"
  BY DEF KeyInv, Has
<1>9. mode' = "up" => \A s \in Req : Committed(s)' /\ KeyOf(s)' # None => keys'[KeyOf(s)'] # None
  BY <1>1, <1>3, <1>8 DEF KeyInv
<1>10. \A s, t \in Req : Committed(s)' /\ Committed(t)' /\ KeyOf(s)' # None /\ KeyOf(s)' = KeyOf(t)' => s = t
  BY <1>1, <1>3 DEF KeyInv
<1>11. \A s \in Req : Committed(s)' => Has(s)'
  BY <1>2, <1>3 DEF KeyInv
<1> QED
  BY <1>3, <1>4, <1>5, <1>6, <1>7, <1>9, <1>10, <1>11 DEF KeyInv

\* Facts every step below uses: the log's requests are requests that arrived.
LEMMA PreparedRequests ==
    ASSUME TypeOK, KeyInv
    PROVE  /\ \A i \in PreparedAt : log[i].rid \in Req /\ KeyOf(log[i].rid) \in Key \cup {None}
           /\ \A s \in Req : pc[s] # "idle" => KeyOf(s) \in Key \cup {None}
<1>1. \A i \in DOMAIN log : log[i] \in LogRecord
  BY LenProperties, ElementOfSeq DEF TypeOK
<1>2. \A i \in PreparedAt : log[i].rid \in Req /\ pc[log[i].rid] # "idle"
  BY <1>1 DEF PreparedAt, LogRecord, KeyInv
<1>3. \A s \in Req : pc[s] # "idle" => KeyOf(s) \in Key \cup {None}
  BY DEF TypeOK, KeyOf, Proposal
<1> QED
  BY <1>2, <1>3

\* Taking the lock: the key was free, and no other thread is deciding.
LEMMA AdmitKeyInv ==
    ASSUME TypeOK, KeyInv, NEW r \in Req, Admit(r)
    PROVE  KeyInv'
<1> USE NoneAssumption
<1>1. SameEvidence /\ \A s : KeyOf(s)' = KeyOf(s)
  BY DEF Admit, SameEvidence, PreparedAt, durable, KeyOf
<1>2. \A s \in Req : pc'[s] = IF s = r THEN "admitted" ELSE pc[s]
  BY DEF TypeOK, Admit
<1>3. \A s \in Req : ~Deciding(s)
  BY DEF Admit, KeyInv
<1>4. mode' = "up" /\ mode = "up" /\ lock' = r /\ keys' = keys /\ log' = log
      /\ (KeyOf(r) # None => keys[KeyOf(r)] = None)
  BY DEF Admit, KeyInv, PriorUse, durable
<1>5. \A s \in Req : Has(s)' <=> Has(s)
  BY <1>1 DEF SameEvidence, Has
<1>6. \A s \in Req : Deciding(s)' => s = r
  BY <1>2, <1>3 DEF Deciding
<1>7. \A s \in Req : /\ Running(s)' => mode' = "up"
                    /\ Committed(s)' => Committed(s) /\ Has(s)'
  BY <1>2, <1>4, <1>5 DEF Admit, Running, Committed, KeyInv, durable
<1>8. \A i \in PreparedAt : log[i].rid \in Req /\ log[i].rid # r
  BY PreparedRequests DEF KeyInv, Admit
<1>9. \A i \in PreparedAt' : ~Deciding(log[i].rid)' /\ pc'[log'[i].rid] \notin {"idle", "arrived"}
  BY <1>1, <1>2, <1>4, <1>6, <1>8 DEF KeyInv, SameEvidence
<1>10. \A s \in Req : pc'[s] = "arrived" => mode' = "up"
  BY <1>4
<1> QED
  BY <1>1, <1>4, <1>6, <1>7, <1>9, <1>10 DEF KeyInv

\* The prepared record and the pending entry, written under the lock the thread holds:
\* no earlier prepared record has this key, or the key would not have been free.
LEMMA PreparedKeyInv ==
    ASSUME TypeOK, KeyInv, NEW r \in Req, RecordPrepared(r)
    PROVE  KeyInv'
<1> USE NoneAssumption
<1> DEFINE e == Entry("prepared", r, before[r], "none", "none")
<1>1. /\ lock' = None /\ mode' = mode /\ mode = "up" /\ lock = r
      /\ KeyOf(r) \in Key \cup {None}
      /\ (KeyOf(r) # None => keys[KeyOf(r)] = None)
      /\ \A s : KeyOf(s)' = KeyOf(s)
  BY PreparedRequests DEF RecordPrepared, KeyInv, Deciding, KeyOf
<1>2. \A s \in Req : s # r => ~Deciding(s)
  BY <1>1 DEF KeyInv
<1>3. e \in LogRecord /\ e.event = "prepared" /\ e.rid = r
  BY DEF TypeOK, Entry, LogRecord, Event, Effect, Verdict
<1>4. /\ \A i \in PreparedAt' : log'[i].rid = r \/ (i \in PreparedAt /\ log'[i].rid = log[i].rid)
      /\ \A s \in Req : Has(s) => Has(s)'
      /\ Recorded(e) => Has(r)'
  <2>1. log' = log \/ Recorded(e)
    BY DEF RecordPrepared, AppendRaises, RecordedButRaises
  <2>2. CASE log' = log
    <3>1. UNCHANGED PreparedAt
      BY <2>2 DEF PreparedAt
    <3>2. ASSUME Recorded(e) PROVE Has(r)'
      <4>1. Append(log, e) = log /\ Append(log, e)[Len(log) + 1] = e
            /\ DOMAIN Append(log, e) = 1 .. Len(log) + 1 /\ DOMAIN log = 1 .. Len(log) /\ Len(log) \in Nat
        BY <1>3, <2>2, <3>2, AppendRecord DEF TypeOK, Recorded
      <4> QED
        BY <4>1
    <3> QED
      BY <2>2, <3>1, <3>2 DEF Has
  <2>3. CASE Recorded(e)
    <3>1. /\ DOMAIN log = 1 .. Len(log) /\ Len(log) \in Nat
          /\ DOMAIN log' = 1 .. Len(log) + 1
          /\ \A i \in DOMAIN log : log'[i] = log[i]
          /\ log'[Len(log) + 1] = e
      BY <1>3, <2>3, AppendRecord DEF TypeOK, Recorded
    <3>2. /\ PreparedAt' = PreparedAt \cup {Len(log) + 1}
          /\ \A i \in PreparedAt : log'[i].rid = log[i].rid
          /\ log'[Len(log) + 1].rid = r
      BY <1>3, <3>1 DEF PreparedAt
    <3> QED
      BY <3>2 DEF Has
  <2> QED
    BY <2>1, <2>2, <2>3
<1>5. /\ pc' \in {[pc EXCEPT ![r] = "prepared"], [pc EXCEPT ![r] = "replied"]}
      /\ UNCHANGED <<req, applied>>
  BY DEF RecordPrepared
<1>6. \A s \in Req : Committed(s)' => s = r \/ (Committed(s) /\ Has(s))
  BY <1>5 DEF TypeOK, Running, Committed, KeyInv
<1>7. \A s \in Req : ~Deciding(s)'
  BY <1>2, <1>5 DEF TypeOK, Deciding
<1>8. \A i \in PreparedAt' : ~Deciding(log[i].rid)' /\ pc'[log'[i].rid] \notin {"idle", "arrived"}
  <2>1. \A i \in PreparedAt' : log'[i].rid \in Req /\ pc'[log'[i].rid] \notin {"idle", "arrived"}
    BY <1>4, <1>5, PreparedRequests DEF TypeOK, KeyInv
  <2> QED
    BY <1>7, <2>1
<1>9. CASE keys' = keys /\ pc' = [pc EXCEPT ![r] = "replied"]
  <2>1. \A s \in Req : Committed(s)' => Committed(s)
    BY <1>5, <1>9 DEF TypeOK, Running, Committed
  <2> QED
    BY <1>1, <1>4, <1>6, <1>7, <1>8, <1>9, <2>1 DEF KeyInv, Committed
<1>10. CASE Recorded(e) /\ keys' = PendingKey(r) /\ pc' = [pc EXCEPT ![r] = "prepared"]
  <2>1. \A s \in Req : Committed(s)' => Has(s)'
    BY <1>4, <1>6, <1>10
  <2>2. \A k \in Key : keys'[k] = IF k = KeyOf(r) THEN [rid |-> r, state |-> "pending"] ELSE keys[k]
    BY <1>1, <1>10 DEF TypeOK, PendingKey
  <2>3. [rid |-> r, state |-> "pending"] # None
    BY DEF KeyEntry
  <2>4. \A s \in Req : Committed(s) => pc[s] # "idle"
    BY DEF KeyInv, Has
  <2>5. \A s \in Req : Committed(s)' /\ KeyOf(s) # None => keys'[KeyOf(s)] # None
    BY <1>1, <1>6, <2>2, <2>3, <2>4, PreparedRequests DEF KeyInv
  <2>6. \A s \in Req : Committed(s)' /\ s # r /\ KeyOf(s) # None => KeyOf(s) # KeyOf(r)
    BY <1>1, <1>6 DEF KeyInv
  <2>7. \A s, t \in Req :
           Committed(s) /\ Committed(t) /\ KeyOf(s) # None /\ KeyOf(s) = KeyOf(t) => s = t
    BY DEF KeyInv
  <2>8. \A s, t \in Req :
           Committed(s)' /\ Committed(t)' /\ KeyOf(s) # None /\ KeyOf(s) = KeyOf(t) => s = t
    BY <1>6, <2>6, <2>7
  <2> QED
    BY <1>1, <1>7, <1>8, <2>1, <2>5, <2>8 DEF KeyInv
<1> QED
  BY <1>9, <1>10 DEF RecordPrepared

\* KeyInv survives a thread's step.
LEMMA ThreadKeyInv ==
    ASSUME TypeOK, KeyInv, NEW r \in Req, Thread(r)
    PROVE  KeyInv'
<1> USE ConstantsAssumption, NoneAssumption
<1>1. CASE Refuse(r)
  <2>1. Entry("decision", r, None, "none", "none") \in LogRecord
    BY DEF Entry, LogRecord, Event, State, Effect, Verdict
  <2>2. SameEvidence
    BY <1>1, <2>1, OtherRecord DEF Refuse, RecordRefusal, Entry
  <2> QED
    BY <1>1, <2>2, QuietStep DEF Refuse, PC
<1>2. CASE AnswerDuplicate(r)
  <2>1. PICK a \in {"already_applied", "none"} : RecordRefusal(Entry("duplicate", r, None, a, "none"))
    BY <1>2 DEF AnswerDuplicate
  <2>2. Entry("duplicate", r, None, a, "none") \in LogRecord
    BY DEF Entry, LogRecord, Event, State, Effect, Verdict
  <2>3. SameEvidence
    BY <2>1, <2>2, OtherRecord DEF RecordRefusal, Entry
  <2> QED
    BY <1>2, <2>3, QuietStep DEF AnswerDuplicate, PC
<1>3. CASE Admit(r)
  BY <1>3, AdmitKeyInv
<1>4. CASE ObserveBefore(r)
  BY <1>4, QuietStep DEF ObserveBefore, PC, SameEvidence, PreparedAt, durable, bounds, Deciding
<1>5. CASE RecordPrepared(r)
  BY <1>5, PreparedKeyInv
<1>6. CASE ExecWrite(r)
  BY <1>6, QuietStep DEF ExecWrite, PC, SameEvidence, PreparedAt, Running
<1>7. CASE ExecDelete(r)
  BY <1>7, QuietStep DEF ExecDelete, PC, SameEvidence, PreparedAt, Running
<1>8. CASE ExecRead(r)
  BY <1>8, QuietStep DEF ExecRead, PC, SameEvidence, PreparedAt, Running, durable
<1>9. CASE ReadVerdict(r)
  BY <1>9, QuietStep DEF ReadVerdict, PC, SameEvidence, PreparedAt, Running, durable
<1>10. CASE ExecHttp(r)
  BY <1>10, QuietStep DEF ExecHttp, PC, SameEvidence, PreparedAt, Running
<1>11. CASE ExecFails(r)
  BY <1>11, QuietStep DEF ExecFails, PC, SameEvidence, PreparedAt, Running, durable
<1>12. CASE ObserveAfter(r)
  BY <1>12, QuietStep DEF ObserveAfter, PC, SameEvidence, PreparedAt, Running, durable
<1>13. CASE RecordOutcome(r)
  <2>1. Entry("outcome", r, before[r], effect[r], verdict[r]) \in LogRecord
    BY DEF TypeOK, Entry, LogRecord, Event
  <2>2. SameEvidence
    BY <1>13, <2>1, OtherRecord DEF RecordOutcome, Entry
  <2> QED
    BY <1>13, <2>2, QuietStep DEF RecordOutcome, PC, Running
<1>14. CASE UpdateKey(r)
  <2>1. \A k \in Key : keys'[k] = None <=> keys[k] = None
    <3>1. CASE KeyOf(r) = None
      BY <1>14, <3>1 DEF UpdateKey
    <3>2. CASE KeyOf(r) # None
      <4>1. KeyOf(r) \in Key /\ keys[KeyOf(r)] # None
        BY <1>14, <3>2, RunningHasKey DEF TypeOK, UpdateKey, Running, KeyOf, Proposal
      <4>2. keys[KeyOf(r)] \in KeyEntry /\ StateAfter(r) \in {"pending", "done", "failed"}
        BY <4>1 DEF TypeOK, StateAfter
      <4>3. [keys[KeyOf(r)] EXCEPT !.state = StateAfter(r)] \in KeyEntry
        BY <4>2 DEF KeyEntry
      <4>4. keys' = [keys EXCEPT ![KeyOf(r)] = [keys[KeyOf(r)] EXCEPT !.state = StateAfter(r)]]
        BY <1>14, <3>2 DEF UpdateKey
      <4> QED
        BY <4>1, <4>3, <4>4 DEF TypeOK
    <3> QED
      BY <3>1, <3>2
  <2> QED
    BY <1>14, <2>1, QuietStep DEF UpdateKey, PC, SameEvidence, PreparedAt, Running, durable
<1> QED
  BY <1>1, <1>2, <1>3, <1>4, <1>5, <1>6, <1>7, <1>8, <1>9, <1>10, <1>11, <1>12, <1>13,
     <1>14 DEF Thread

\* A restart finds every prepared key in the log and puts it back in the table.
LEMMA RebuiltKeysComplete ==
    ASSUME TypeOK, NEW i \in PreparedAt, KeyOf(log[i].rid) \in Key
    PROVE  RebuiltKeys[KeyOf(log[i].rid)] # None
<1> DEFINE k == KeyOf(log[i].rid)
<1>1. i \in KeyUses(k)
  BY DEF KeyUses, PreparedAt
<1>2. RebuiltKeys[k] = [rid |-> log[Max(KeyUses(k))].rid, state |-> KeyState(log[Max(KeyUses(k))].rid)]
  BY <1>1 DEF RebuiltKeys
<1>3. RebuiltKeys[k].rid = log[Max(KeyUses(k))].rid
  BY <1>2
<1>4. Len(log) \in Nat /\ DOMAIN log = 1 .. Len(log) /\ \A j \in 1 .. Len(log) : log[j] \in LogRecord
  BY LenProperties, ElementOfSeq DEF TypeOK
<1>5. KeyUses(k) \in SUBSET (1 .. Len(log)) /\ KeyUses(k) # {}
  BY <1>1, <1>4 DEF KeyUses
<1>6. Max(KeyUses(k)) \in 1 .. Len(log)
  BY <1>4, <1>5, MaxOfPositions
<1>7. log[Max(KeyUses(k))].rid \in Req
  BY <1>4, <1>6 DEF LogRecord
<1>8. KeyState(log[Max(KeyUses(k))].rid) \in {"pending", "done", "failed"}
  BY DEF KeyState
<1>9. RebuiltKeys[k] \in KeyEntry
  BY <1>2, <1>7, <1>8 DEF KeyEntry
<1> QED
  BY <1>9, NoneAssumption

\* Every step keeps the key table and the prepared records in agreement: a thread's, a
\* crash, a restart and an edit from outside.
LEMMA KeyStep ==
    ASSUME TypeOK, KeyInv, [Next]_vars
    PROVE  KeyInv'
<1> USE NoneAssumption
<1>1. CASE UNCHANGED vars
  BY <1>1 DEF KeyInv, vars, PreparedAt, Has, Deciding, Running, Committed, KeyOf
<1>2. ASSUME NEW r \in Req, Arrive(r) PROVE KeyInv'
  <2>1. /\ \A s \in Req : pc'[s] = IF s = r THEN "arrived" ELSE pc[s]
        /\ \A s \in Req : s # r => req'[s] = req[s]
        /\ mode = "up" /\ mode' = mode /\ lock' = lock /\ keys' = keys /\ log' = log
        /\ pc[r] = "idle" /\ applied' = applied
    BY <1>2 DEF Arrive, TypeOK, durable
  <2>2. SameEvidence /\ \A s \in Req : Has(s)' <=> Has(s)
    BY <2>1 DEF SameEvidence, PreparedAt, Has
  <2>3. \A s \in Req : s # r => KeyOf(s)' = KeyOf(s)
    BY <2>1 DEF KeyOf
  <2>4. \A i \in PreparedAt : log[i].rid \in Req /\ log[i].rid # r
    BY <2>1, PreparedRequests DEF KeyInv
  <2>5. \A s \in Req : /\ Deciding(s)' => Deciding(s) /\ s # r
                       /\ Running(s)' => Running(s)
                       /\ Committed(s)' => Committed(s) /\ s # r
    BY <2>1 DEF Deciding, Running, Committed, KeyInv, Has
  <2>6. \A i \in PreparedAt' : ~Deciding(log[i].rid)' /\ pc'[log'[i].rid] \notin {"idle", "arrived"}
    <3>1. \A i \in PreparedAt' : /\ log'[i].rid = log[i].rid /\ log[i].rid \in Req /\ log[i].rid # r
                                 /\ pc[log[i].rid] \notin {"idle", "arrived"} /\ ~Deciding(log[i].rid)
      BY <2>1, <2>2, <2>4 DEF KeyInv, SameEvidence
    <3>2. \A i \in PreparedAt' : pc'[log'[i].rid] = pc[log[i].rid]
      BY <2>1, <3>1
    <3> QED
      BY <3>1, <3>2 DEF Deciding
  <2>7. /\ \A s \in Req : Committed(s) => Has(s)
        /\ \A s \in Req : Committed(s) /\ KeyOf(s) # None => keys[KeyOf(s)] # None
        /\ \A s, t \in Req :
              Committed(s) /\ Committed(t) /\ KeyOf(s) # None /\ KeyOf(s) = KeyOf(t) => s = t
        /\ \A s \in Req : Deciding(s) => lock = s /\ (KeyOf(s) # None => keys[KeyOf(s)] = None)
    BY <2>1 DEF KeyInv
  <2>8. \A s \in Req : Committed(s)' => /\ Has(s)'
                                        /\ KeyOf(s)' # None => keys'[KeyOf(s)'] # None
    BY <2>1, <2>2, <2>3, <2>5, <2>7
  <2>9. \A s, t \in Req :
           Committed(s)' /\ Committed(t)' /\ KeyOf(s)' # None /\ KeyOf(s)' = KeyOf(t)' => s = t
    BY <2>3, <2>5, <2>7
  <2>10. \A s \in Req : Deciding(s)' => lock' = s /\ (KeyOf(s)' # None => keys'[KeyOf(s)'] = None)
    BY <2>1, <2>3, <2>5, <2>7
  <2> QED
    BY <2>1, <2>6, <2>8, <2>9, <2>10 DEF KeyInv
<1>3. ASSUME NEW r \in Req, Thread(r) PROVE KeyInv'
  BY <1>3, ThreadKeyInv
<1>4. ASSUME NEW r \in Req, ReconcilePending(r) PROVE KeyInv'
  <2>1. PICK v \in StartVerdicts(r) : log' = Append(log, Entry("reconciled", r, None, "none", v))
    BY <1>4 DEF ReconcilePending
  <2>2. Entry("reconciled", r, None, "none", v) \in LogRecord
    BY <2>1, ReconcileType DEF StartVerdicts, Entry, LogRecord, Event, State, Effect, Verdict
  <2>3. SameEvidence
    BY <2>1, <2>2, OtherRecord DEF Recorded, Entry
  <2>4. \A i \in PreparedAt' : log'[i] = log[i]
    BY <2>3 DEF SameEvidence
  <2>5. mode = "starting" /\ UNCHANGED <<mode, lock, pc, req, keys, applied>>
    BY <1>4 DEF ReconcilePending
  <2>6. \A s : /\ (Deciding(s)' <=> Deciding(s)) /\ (Running(s)' <=> Running(s))
               /\ (Committed(s)' <=> Committed(s)) /\ (Has(s)' <=> Has(s)) /\ KeyOf(s)' = KeyOf(s)
    BY <2>3, <2>5 DEF SameEvidence, Deciding, Running, Committed, KeyOf, Has
  <2>7. \A i \in PreparedAt' : ~Deciding(log[i].rid)' /\ pc'[log'[i].rid] \notin {"idle", "arrived"}
    BY <2>3, <2>4, <2>5 DEF KeyInv, SameEvidence, Deciding
  <2> QED
    BY <2>5, <2>6, <2>7 DEF KeyInv
<1>5. CASE FinishStart
  <2>1. /\ mode = "starting" /\ keys' = RebuiltKeys /\ UNCHANGED <<lock, pc, req, log, applied>>
    BY <1>5 DEF FinishStart, durable
  <2>2. \A s \in Req : ~Deciding(s) /\ ~Running(s) /\ pc[s] # "arrived"
    BY <2>1 DEF KeyInv
  <2>3. /\ PreparedAt' = PreparedAt
        /\ \A s \in Req : /\ (Has(s)' <=> Has(s)) /\ (Committed(s)' <=> Committed(s))
                          /\ KeyOf(s)' = KeyOf(s)
    BY <2>1 DEF PreparedAt, Has, Committed, Running, KeyOf
  <2>4. \A s \in Req : ~Deciding(s)' /\ ~Running(s)' /\ pc'[s] # "arrived"
    BY <2>1, <2>2 DEF Deciding, Running
  <2>5. \A i \in PreparedAt : Deciding(log[i].rid)' = Deciding(log[i].rid)
    BY <2>1 DEF Deciding
  <2>6. \A s \in Req : Committed(s) /\ KeyOf(s) # None => RebuiltKeys[KeyOf(s)] # None
    BY PreparedRequests, RebuiltKeysComplete DEF KeyInv, Has
  <2> QED
    BY <2>1, <2>3, <2>4, <2>5, <2>6 DEF KeyInv
<1>6. CASE Crash
  <2>1. /\ mode' = "starting" /\ UNCHANGED <<log, req, applied>>
        /\ \A s \in Req : pc'[s] = IF pc[s] \in {"idle", "replied"} THEN pc[s] ELSE "lost"
    BY <1>6 DEF Crash, durable
  <2>2. \A s \in Req : ~Deciding(s)' /\ ~Running(s)' /\ pc'[s] # "arrived"
    BY <2>1 DEF Deciding, Running
  <2>3. /\ PreparedAt' = PreparedAt
        /\ \A s \in Req : /\ (Has(s)' <=> Has(s)) /\ (Committed(s)' => Committed(s))
                          /\ KeyOf(s)' = KeyOf(s)
    BY <2>1, <2>2 DEF PreparedAt, Has, Committed, KeyOf
  <2>4. \A i \in PreparedAt' : ~Deciding(log[i].rid)' /\ pc'[log'[i].rid] \notin {"idle", "arrived"}
    BY <2>1, <2>2, <2>3, PreparedRequests DEF KeyInv, Deciding
  <2> QED
    BY <2>1, <2>2, <2>3, <2>4 DEF KeyInv
<1>7. CASE Done
  BY <1>7 DEF Done, KeyInv, vars, PreparedAt, Has, Deciding, Running, Committed, KeyOf
<1>8. ASSUME NEW p \in Path, Foreign(p) PROVE KeyInv'
  BY <1>8 DEF Foreign, KeyInv, PreparedAt, Has, Deciding, Running, Committed, KeyOf
<1> QED
  BY <1>1, <1>2, <1>3, <1>4, <1>5, <1>6, <1>7, <1>8 DEF Next

-----------------------------------------------------------------------------
(* Evidence before effect.                                                 *)

\* No step removes a prepared record.
LEMMA HasGrows ==
    ASSUME TypeOK, NEW r, Has(r), log' = log \/ \E e \in LogRecord : log' = Append(log, e)
    PROVE  Has(r)'
<1>1. CASE log' = log
  BY <1>1 DEF Has, PreparedAt
<1>2. CASE \E e \in LogRecord : log' = Append(log, e)
  <2>1. PICK e \in LogRecord : log' = Append(log, e)
    BY <1>2
  <2>2. /\ DOMAIN log = 1 .. Len(log) /\ Len(log) \in Nat /\ DOMAIN log' = 1 .. Len(log) + 1
        /\ \A i \in DOMAIN log : log'[i] = log[i]
    BY <2>1, AppendRecord DEF TypeOK
  <2> QED
    BY <2>2 DEF Has, PreparedAt
<1> QED
  BY <1>1, <1>2

\* Every step leaves the log alone or appends one record.
LEMMA LogGrows ==
    ASSUME TypeOK, KeyInv, [Next]_vars
    PROVE  log' = log \/ \E e \in LogRecord : log' = Append(log, e)
<1>1. log \in Seq(LogRecord) /\ log' \in Seq(LogRecord)
  BY TypeStep DEF TypeOK
<1>2. log' = log \/ \E e : log' = Append(log, e)
  BY DEF Next, vars, Thread, Arrive, Refuse, AnswerDuplicate, Admit, ObserveBefore, RecordPrepared,
       ExecWrite, ExecDelete, ExecRead, ReadVerdict, ExecHttp, ExecFails, ObserveAfter,
       RecordOutcome, UpdateKey, ReconcilePending, FinishStart, Crash, Done, Foreign, durable,
       RecordRefusal, Recorded, AppendRaises, RecordedButRaises
<1>3. ASSUME NEW e, log' = Append(log, e) PROVE e \in LogRecord
  <2>1. Len(log) \in Nat /\ DOMAIN log = 1 .. Len(log)
    BY <1>1, LenProperties
  <2>2. Len(log') = Len(log) + 1 /\ log'[Len(log) + 1] = e
    BY <1>1, <1>3, <2>1
  <2> QED
    BY <1>1, <2>1, <2>2, ElementOfSeq
<1> QED
  BY <1>2, <1>3

\* Every step keeps what is applied, signed or lying in the workspace backed by a
\* prepared record.
LEMMA EvidenceStep ==
    ASSUME TypeOK, KeyInv, EvidenceInv, [Next]_vars
    PROVE  EvidenceInv'
<1>1. \A r : Has(r) => Has(r)'
  BY LogGrows, HasGrows
<1>2. /\ applied' \subseteq applied \cup {r \in Req : Running(r)}
      /\ minted' \subseteq minted \cup {Attest(r) : r \in {r \in Req : Running(r)}}
  BY DEF Attached, Next, vars, Thread, Arrive, Refuse, AnswerDuplicate, Admit, ObserveBefore, RecordPrepared,
       ExecWrite, ExecDelete, ExecRead, ReadVerdict, ExecHttp, ExecFails, ObserveAfter,
       RecordOutcome, UpdateKey, ReconcilePending, FinishStart, Crash, Done, Foreign, durable, Running
<1>4. \A a \in minted' : Has(a.rid)'
  BY <1>1, <1>2 DEF KeyInv, Committed, EvidenceInv, Attest
<1>5. minted \subseteq minted'
  BY DEF Next, vars, Thread, Arrive, Refuse, AnswerDuplicate, Admit, ObserveBefore, RecordPrepared,
       ExecWrite, ExecDelete, ExecRead, ReadVerdict, ExecHttp, ExecFails, ObserveAfter,
       RecordOutcome, UpdateKey, ReconcilePending, FinishStart, Crash, Done, Foreign, durable
<1>6. \A p \in Path : files'[p].att \in minted' \cup {None}
  <2>1. CASE files' = files
    BY <1>5, <2>1 DEF EvidenceInv
  <2>2. ASSUME NEW r \in Req, ExecWrite(r) PROVE \A p \in Path : files'[p].att \in minted' \cup {None}
    <3>1. PICK att \in Attached(r) :
             /\ minted' = minted \cup ({att} \ {None})
             /\ \/ files' = [files EXCEPT ![Target(r)] = Written(r, att)]
                \/ files' = files
      BY <2>2 DEF ExecWrite
    <3>2. att \in minted' \cup {None} /\ Written(r, att).att = att
      BY <3>1 DEF Written
    <3> QED
      BY <1>5, <3>1, <3>2 DEF TypeOK, EvidenceInv
  <2>3. ASSUME NEW r \in Req, ExecDelete(r) PROVE \A p \in Path : files'[p].att \in minted' \cup {None}
    BY <1>5, <2>3 DEF TypeOK, ExecDelete, NoFile, EvidenceInv
  <2>4. ASSUME NEW q \in Path, Foreign(q) PROVE \A p \in Path : files'[p].att \in minted' \cup {None}
    <3>1. minted' = minted /\ \E f \in ForeignFile : files' = [files EXCEPT ![q] = f]
      BY <2>4 DEF Foreign
    <3>2. \A f \in ForeignFile : f.att \in minted \cup {None}
      <4>1. NoFile.att \in minted \cup {None}
        BY DEF NoFile
      <4>2. \A f \in [content : Content, att : minted \cup {None}, link : {FALSE}] : f.att \in minted \cup {None}
        OBVIOUS
      <4>3. \A f \in [content : Content \cup {Absent}, att : {None}, link : {TRUE}] : f.att \in minted \cup {None}
        OBVIOUS
      <4> QED
        BY <4>1, <4>2, <4>3 DEF ForeignFile
    <3> QED
      BY <3>1, <3>2 DEF TypeOK, EvidenceInv
  <2>5. files' = files \/ (\E r \in Req : ExecWrite(r) \/ ExecDelete(r)) \/ \E q \in Path : Foreign(q)
    BY DEF Next, vars, Thread, Arrive, Refuse, AnswerDuplicate, Admit, ObserveBefore, RecordPrepared,
       ExecRead, ReadVerdict, ExecHttp, ExecFails, ObserveAfter,
       RecordOutcome, UpdateKey, ReconcilePending, FinishStart, Crash, Done, durable
  <2> QED
    BY <2>1, <2>2, <2>3, <2>4, <2>5
<1> QED
  BY <1>4, <1>6 DEF EvidenceInv

-----------------------------------------------------------------------------
(* The theorems.                                                           *)

\* The inductive invariant holds in every reachable state: it is what a request path with
\* one lock, one log and one key table keeps true between any two steps.
THEOREM Invariance == Spec => []IInv
<1>1. Init => IInv
  <2> SUFFICES ASSUME Init PROVE IInv
    OBVIOUS
  <2>1. TypeOK
    BY ConstantsAssumption, EmptySeq DEF Init, TypeOK, PC, State, Effect, Verdict, File, NoFile
  <2>2. PreparedAt = {}
    BY DEF Init, PreparedAt
  <2>3. KeyInv
    BY <2>2 DEF Init, KeyInv, Running, Committed, Deciding
  <2>4. EvidenceInv
    BY DEF Init, EvidenceInv, NoFile
  <2> QED
    BY <2>1, <2>3, <2>4 DEF IInv
<1>2. IInv /\ [Next]_vars => IInv'
  BY TypeStep, KeyStep, EvidenceStep DEF IInv
<1> QED
  BY <1>1, <1>2, PTL DEF Spec

\* Every variable keeps its type, in every behaviour and for every instance.
THEOREM TypeCorrect == Spec => []TypeOK
<1>1. IInv => TypeOK
  BY DEF IInv
<1> QED
  BY <1>1, Invariance, PTL

\* Evidence before effect: whatever fails, crashes or is edited from outside, an effect
\* or an attestation found in the workspace has its prepared record in the log.
THEOREM EvidencePrecedesEffect == Spec => []EvidenceBeforeEffect
<1>1. IInv => EvidenceBeforeEffect
  <2>1. ASSUME IInv PROVE \A r \in applied : Has(r)
    BY <2>1 DEF IInv, TypeOK, KeyInv, Committed
  <2>2. ASSUME IInv PROVE \A p \in Path : files[p].att # None => Has(files[p].att.rid)
    BY <2>2 DEF IInv, EvidenceInv
  <2> QED
    BY <2>1, <2>2, HasIsPrepared DEF EvidenceBeforeEffect
<1> QED
  BY <1>1, Invariance, PTL

\* An idempotency key buys at most one effect, for any number of concurrent retries,
\* crashes and restarts.
THEOREM KeyBuysOneEffect == Spec => []AtMostOncePerKey
<1>1. IInv => AtMostOncePerKey
  <2> SUFFICES ASSUME IInv, NEW r \in applied, NEW s \in applied, KeyOf(r) # None, KeyOf(r) = KeyOf(s)
               PROVE  r = s
    BY DEF AtMostOncePerKey
  <2>1. Committed(r) /\ Committed(s) /\ r \in Req /\ s \in Req
    BY DEF IInv, TypeOK, Committed
  <2> QED
    BY <2>1 DEF IInv, KeyInv
<1> QED
  BY <1>1, Invariance, PTL

-----------------------------------------------------------------------------
(* What stays when the log grows.                                          *)

\* What a request proposed does not change once it has arrived.
LEMMA ProposalKept ==
    ASSUME TypeOK, [Next]_vars, NEW r \in Req, pc[r] # "idle"
    PROVE  req'[r] = req[r] /\ pc'[r] # "idle"
<1>1. ASSUME NEW s \in Req, Arrive(s) PROVE req'[r] = req[r] /\ pc'[r] # "idle"
  BY <1>1 DEF Arrive, TypeOK
<1>2. ASSUME NEW s \in Req, Thread(s) PROVE req'[r] = req[r] /\ pc'[r] # "idle"
  BY <1>2 DEF TypeOK, Thread, Refuse, AnswerDuplicate, Admit, ObserveBefore, RecordPrepared,
       ExecWrite, ExecDelete, ExecRead, ReadVerdict, ExecHttp, ExecFails, ObserveAfter,
       RecordOutcome, UpdateKey
<1>3. CASE ~(\E s \in Req : Arrive(s) \/ Thread(s))
  BY <1>3 DEF TypeOK, Next, vars, ReconcilePending, FinishStart, Crash, Done, Foreign
<1> QED
  BY <1>1, <1>2, <1>3

\* A request with a prepared record has arrived.
LEMMA PreparedHasArrived ==
    ASSUME TypeOK, KeyInv, NEW r, Has(r)
    PROVE  r \in Req /\ pc[r] # "idle"
BY PreparedRequests DEF KeyInv, Has

-----------------------------------------------------------------------------
(* Attestations.                                                           *)

\* A request that has not been executed yet.
Waiting(r) == pc[r] \in {"idle", "arrived", "admitted", "observed", "prepared"}

\* Attestations are what their request wrote; what a read found was signed or is not
\* attested; only what was executed has signed or changed anything; and without a foreign
\* actor a file is what its own attestation says, or what a write left that could not be
\* attested.
AttestInv ==
    /\ \A a \in minted : a = Attest(a.rid) /\ ~Waiting(a.rid)
    /\ \A r \in Req : fetched[r].att \in minted \cup {None}
    /\ \A r \in applied : ~Waiting(r)
    /\ foreign = 0 => \A p \in Path : ~files[p].link /\
          \/ files[p] = NoFile
          \/ /\ files[p].att \in minted /\ files[p].att.target = p
             /\ files[p].att.digest = files[p].content
          \/ /\ files[p].att = None
             /\ \E r \in WroteUnattested : Target(r) = p /\ files[p].content = Intended(r)

\* Only the execution of a write signs anything, and it signs what the request proposed.
LEMMA MintedStep ==
    ASSUME TypeOK, KeyInv, [Next]_vars
    PROVE  \/ minted' = minted
           \/ \E r \in Req : ExecWrite(r) /\ minted' = minted \cup {Attest(r)}
<1>1. ASSUME NEW r \in Req, ExecWrite(r)
      PROVE  minted' = minted \/ minted' = minted \cup {Attest(r)}
  <2>1. PICK att \in Attached(r) : minted' = minted \cup ({att} \ {None})
    BY <1>1 DEF ExecWrite
  <2>2. att = None \/ att = Attest(r)
    BY DEF Attached
  <2>3. Attest(r) \in Attestation
    BY <1>1 DEF ExecWrite, Attest, Attestation, Tool, Target, Invocation, TypeOK, Proposal
  <2> QED
    BY <2>1, <2>2, <2>3, NoneAssumption
<1>2. minted' = minted \/ \E r \in Req : ExecWrite(r)
  BY DEF Next, vars, Thread, Arrive, Refuse, AnswerDuplicate, Admit, ObserveBefore, RecordPrepared,
       ExecDelete, ExecRead, ReadVerdict, ExecHttp, ExecFails, ObserveAfter,
       RecordOutcome, UpdateKey, ReconcilePending, FinishStart, Crash, Done, Foreign, durable
<1> QED
  BY <1>1, <1>2

\* No request is executed twice.
LEMMA WaitingStep ==
    ASSUME TypeOK, [Next]_vars, NEW r \in Req, ~Waiting(r)
    PROVE  /\ ~Waiting(r)' /\ req'[r] = req[r]
           /\ ~ExecWrite(r) /\ ~ExecDelete(r) /\ ~ExecHttp(r)
<1>1. /\ ~ExecWrite(r) /\ ~ExecDelete(r) /\ ~ExecHttp(r)
      /\ pc[r] \in PC \ {"idle", "arrived", "admitted", "observed", "prepared"}
  BY DEF Waiting, ExecWrite, ExecDelete, ExecHttp, TypeOK
<1>2. ASSUME NEW s \in Req, Thread(s)
      PROVE  pc'[r] \notin {"idle", "arrived", "admitted", "observed", "prepared"}
  BY <1>1, <1>2 DEF TypeOK, Thread, Refuse, AnswerDuplicate, Admit, ObserveBefore,
       RecordPrepared, ExecWrite, ExecDelete, ExecRead, ReadVerdict, ExecHttp, ExecFails,
       ObserveAfter, RecordOutcome, UpdateKey
<1>3. pc'[r] \notin {"idle", "arrived", "admitted", "observed", "prepared"}
  BY <1>1, <1>2 DEF TypeOK, Next, vars, Arrive, ReconcilePending, FinishStart, Crash, Done, Foreign
<1> QED
  BY <1>1, <1>3, ProposalKept DEF Waiting

\* What a request applied or signed, it has executed.
LEMMA ExecutedStep ==
    ASSUME TypeOK, KeyInv, [Next]_vars
    PROVE  /\ \A r \in applied' \ applied : r \in Req /\ Waiting(r) /\ ~Waiting(r)'
           /\ \A r \in Req : ExecWrite(r) => Waiting(r) /\ ~Waiting(r)'
<1>1. ASSUME NEW r \in Req, ExecWrite(r) \/ ExecDelete(r) \/ ExecHttp(r) PROVE Waiting(r) /\ ~Waiting(r)'
  BY <1>1 DEF ExecWrite, ExecDelete, ExecHttp, Waiting, TypeOK
<1>2. ASSUME NEW r \in applied' \ applied PROVE r \in Req /\ (ExecWrite(r) \/ ExecDelete(r) \/ ExecHttp(r))
  BY <1>2 DEF Next, vars, Thread, Arrive, Refuse, AnswerDuplicate, Admit, ObserveBefore,
       RecordPrepared, ExecWrite, ExecDelete, ExecRead, ReadVerdict, ExecHttp, ExecFails,
       ObserveAfter, RecordOutcome, UpdateKey, ReconcilePending, FinishStart, Crash, Done, Foreign,
       durable
<1> QED
  BY <1>1, <1>2

\* A write that could not be attested stays one.
LEMMA UnattestedStep ==
    ASSUME IInv, AttestInv, [Next]_vars, NEW r \in WroteUnattested
    PROVE  /\ r \in WroteUnattested' /\ Target(r)' = Target(r) /\ Intended(r)' = Intended(r)
<1>1. r \in Req /\ r \in applied /\ Tool(r) = "write" /\ Attest(r) \notin minted /\ ~Waiting(r)
  BY DEF WroteUnattested, IInv, TypeOK, AttestInv
<1>2. req'[r] = req[r] /\ ~ExecWrite(r)
  BY <1>1, WaitingStep DEF IInv
<1>3. Attest(r) \notin minted'
  <2>1. minted' = minted \/ \E s \in Req : ExecWrite(s) /\ minted' = minted \cup {Attest(s)}
    BY MintedStep DEF IInv
  <2>2. \A s \in Req : Attest(s) = Attest(r) => s = r
    BY DEF Attest
  <2> QED
    BY <1>1, <1>2, <2>1, <2>2
<1>4. applied \subseteq applied'
  BY DEF Next, vars, Thread, Arrive, Refuse, AnswerDuplicate, Admit, ObserveBefore,
       RecordPrepared, ExecWrite, ExecDelete, ExecRead, ReadVerdict, ExecHttp, ExecFails,
       ObserveAfter, RecordOutcome, UpdateKey, ReconcilePending, FinishStart, Crash, Done, Foreign,
       durable
<1>5. Target(r)' = Target(r) /\ Intended(r)' = Intended(r) /\ Tool(r)' = Tool(r) /\ Attest(r)' = Attest(r)
  BY <1>2 DEF Target, Intended, Tool, Attest
<1> QED
  BY <1>1, <1>3, <1>4, <1>5 DEF WroteUnattested

\* Where no foreign actor was at work, none is at work in the step that led there.
LEMMA OwnStep ==
    ASSUME TypeOK, [Next]_vars, foreign' = 0
    PROVE  foreign = 0 /\ ~(\E q \in Path : Foreign(q))
<1>1. \A q \in Path : Foreign(q) => foreign' # 0
  BY DEF Foreign, TypeOK
<1>2. ASSUME NEW r \in Req, Thread(r) PROVE foreign' = foreign
  BY <1>2 DEF Thread, Refuse, AnswerDuplicate, Admit, ObserveBefore, RecordPrepared, ExecWrite,
       ExecDelete, ExecRead, ReadVerdict, ExecHttp, ExecFails, ObserveAfter, RecordOutcome,
       UpdateKey, bounds
<1>3. foreign' = foreign \/ \E q \in Path : Foreign(q)
  BY <1>2 DEF Next, vars, Arrive, ReconcilePending, FinishStart, Crash, Done, bounds
<1> QED
  BY <1>1, <1>3

\* Every step keeps the attestations what they say.
LEMMA AttestStep ==
    ASSUME IInv, AttestInv, [Next]_vars
    PROVE  AttestInv'
<1> USE DEF IInv
<1>1. ASSUME NEW a \in minted' PROVE a = Attest(a.rid)' /\ ~Waiting(a.rid)'
  <2>1. CASE a \in minted
    <3>1. a = Attest(a.rid) /\ a.rid \in Req /\ ~Waiting(a.rid)
      BY <2>1 DEF AttestInv, TypeOK, Attestation
    <3>2. req'[a.rid] = req[a.rid] /\ ~Waiting(a.rid)'
      BY <3>1, WaitingStep
    <3> QED
      BY <3>1, <3>2 DEF Attest, Target
  <2>2. ASSUME NEW r \in Req, ExecWrite(r), a = Attest(r) PROVE a = Attest(a.rid)' /\ ~Waiting(a.rid)'
    <3>1. a.rid = r /\ req' = req /\ ~Waiting(r)'
      BY <2>2, ExecutedStep DEF ExecWrite, Attest
    <3> QED
      BY <2>2, <3>1 DEF Attest, Target
  <2>3. a \in minted \/ \E r \in Req : ExecWrite(r) /\ a = Attest(r)
    BY <1>1, MintedStep
  <2> QED
    BY <2>1, <2>2, <2>3
<1>2. minted \subseteq minted'
  BY MintedStep
<1>3. \A r \in Req : fetched'[r].att \in minted' \cup {None}
  <2>1. ASSUME NEW s \in Req, ExecRead(s) PROVE \A r \in Req : fetched'[r].att \in minted' \cup {None}
    <3>1. Target(s) \in Path
      BY <2>1 DEF ExecRead, TypeOK, Target, Proposal, Invocation
    <3> QED
      BY <1>2, <2>1, <3>1 DEF ExecRead, TypeOK, AttestInv, EvidenceInv
  <2>2. ASSUME NEW s \in Req, ReadVerdict(s) PROVE \A r \in Req : fetched'[r].att \in minted' \cup {None}
    <3>1. fetched' \in {fetched, [fetched EXCEPT ![s] = NoFile]}
      BY <2>2 DEF ReadVerdict, TypeOK
    <3> QED
      BY <1>2, <3>1 DEF TypeOK, AttestInv, NoFile
  <2>3. fetched' = fetched \/ \E s \in Req : ExecRead(s) \/ ReadVerdict(s)
    BY DEF Next, vars, Thread, Arrive, Refuse, AnswerDuplicate, Admit, ObserveBefore,
       RecordPrepared, ExecWrite, ExecDelete, ExecHttp, ExecFails, ObserveAfter,
       RecordOutcome, UpdateKey, ReconcilePending, FinishStart, Crash, Done, Foreign
  <2> QED
    BY <1>2, <2>1, <2>2, <2>3 DEF AttestInv
<1>4. ASSUME NEW r \in applied' PROVE ~Waiting(r)'
  BY <1>4, ExecutedStep, WaitingStep DEF AttestInv, TypeOK
<1>5. ASSUME foreign' = 0, NEW p \in Path
      PROVE  /\ ~files'[p].link
             /\ \/ files'[p] = NoFile
                \/ /\ files'[p].att \in minted' /\ files'[p].att.target = p
                   /\ files'[p].att.digest = files'[p].content
                \/ /\ files'[p].att = None
                   /\ \E r \in WroteUnattested' :
                         Target(r)' = p /\ files'[p].content = Intended(r)'
  <2>1. foreign = 0 /\ ~(\E q \in Path : Foreign(q))
    BY <1>5, OwnStep
  <2>2. files' = files \/ \E r \in Req : ExecWrite(r) \/ ExecDelete(r)
    BY <2>1 DEF Next, vars, Thread, Arrive, Refuse, AnswerDuplicate, Admit, ObserveBefore,
       RecordPrepared, ExecRead, ReadVerdict, ExecHttp, ExecFails, ObserveAfter,
       RecordOutcome, UpdateKey, ReconcilePending, FinishStart, Crash, Done, durable
  <2>3. files'[p] = files[p] \/ files'[p] = NoFile
        \/ \E r \in Req : ExecWrite(r) /\ p = Target(r) /\ r \in applied' /\ \E att \in Attached(r) :
              files'[p] = Written(r, att) /\ minted' = minted \cup ({att} \ {None})
    BY <2>2 DEF ExecWrite, ExecDelete, TypeOK
  <2>4. CASE files'[p] = files[p]
    <3>1. CASE files[p].att = None /\ \E r \in WroteUnattested : Target(r) = p /\ files[p].content = Intended(r)
      <4>1. PICK r \in WroteUnattested : Target(r) = p /\ files[p].content = Intended(r)
        BY <3>1
      <4>2. r \in WroteUnattested' /\ Target(r)' = Target(r) /\ Intended(r)' = Intended(r)
        BY UnattestedStep
      <4> QED
        BY <2>1, <2>4, <3>1, <4>1, <4>2 DEF AttestInv
    <3> QED
      BY <1>2, <2>1, <2>4, <3>1 DEF AttestInv
  <2>5. CASE files'[p] = NoFile
    BY <2>5 DEF NoFile
  <2>6. ASSUME NEW r \in Req, ExecWrite(r), p = Target(r), r \in applied', NEW att \in Attached(r),
               files'[p] = Written(r, att), minted' = minted \cup ({att} \ {None})
        PROVE  /\ ~files'[p].link
               /\ \/ /\ files'[p].att \in minted' /\ files'[p].att.target = p
                     /\ files'[p].att.digest = files'[p].content
                  \/ /\ files'[p].att = None
                     /\ \E q \in WroteUnattested' :
                           Target(q)' = p /\ files'[p].content = Intended(q)'
    <3>1. files'[p].att = att /\ files'[p].content = req[r].inv.content /\ ~files'[p].link
      BY <2>6 DEF Written
    <3>2. req' = req /\ Tool(r) = "write"
      BY <2>6 DEF ExecWrite
    <3>3. Attest(r) # None
      BY <2>6, NoneAssumption DEF ExecWrite, Attest, Attestation, Tool, Target, Invocation, TypeOK, Proposal
    <3>4. CASE att = Attest(r)
      BY <2>6, <3>1, <3>3, <3>4 DEF Attest
    <3>5. CASE att = None
      <4>1. minted' = minted
        BY <2>6, <3>5
      <4>2. Attest(r) \notin minted
        BY <2>6, ExecutedStep DEF AttestInv, Attest
      <4>3. Attest(r)' = Attest(r) /\ Tool(r)' = "write" /\ Target(r)' = p
            /\ Intended(r)' = req[r].inv.content
        BY <2>6, <3>2 DEF Attest, Tool, Target, Intended
      <4>4. r \in WroteUnattested'
        BY <2>6, <4>1, <4>2, <4>3 DEF WroteUnattested
      <4> QED
        BY <3>1, <3>5, <4>3, <4>4
    <3> QED
      BY <3>4, <3>5 DEF Attached
  <2> QED
    BY <2>3, <2>4, <2>5, <2>6
<1> QED
  BY <1>1, <1>3, <1>4, <1>5 DEF AttestInv

\* No file is attested or recorded at first.
LEMMA AttestInit == Init => AttestInv
BY DEF Init, AttestInv, NoFile

\* The invariant about attestations holds in every reachable state.
LEMMA Attested == Spec => [](IInv /\ AttestInv)
<1>1. Init /\ IInv => IInv /\ AttestInv
  BY AttestInit
<1>2. IInv /\ AttestInv /\ [Next]_vars => AttestInv'
  BY AttestStep
<1> QED
  BY <1>1, <1>2, Invariance, PTL DEF Spec

\* A digest signed for a request is the content that request wrote.
LEMMA SignedContent ==
    ASSUME AttestInv, NEW a \in minted
    PROVE  a.digest = req[a.rid].inv.content /\ a.target = Target(a.rid)
BY DEF AttestInv, Attest

\* With nobody but the broker at work, a file is NoFile, what its own attestation says or
\* what a write left unattested, and verify_world has nothing else to accuse.
LEMMA NotAccused == ASSUME IInv, AttestInv PROVE NoFalseTamper
<1> SUFFICES ASSUME IInv, AttestInv, foreign = 0, NEW p \in Path
             PROVE  /\ \A kind \in {"moved", "changed", "missing"} : ~Reports(p, kind)
                    /\ Reports(p, "unattested") =>
                          \E r \in WroteUnattested : Target(r) = p /\ files[p].content = Intended(r)
  BY DEF NoFalseTamper, Findings
<1> USE NoneAssumption
<1>1. CASE files[p] = NoFile
  <2>1. files[p].att = None /\ ~Looked(p)
    BY <1>1 DEF NoFile, Looked, Readable
  <2> QED
    BY <1>1, <2>1 DEF Reports
<1>2. CASE /\ files[p].att \in minted /\ files[p].att.target = p
           /\ files[p].att.digest = files[p].content
  <2>1. files[p].att # None
    BY <1>2 DEF IInv, TypeOK
  <2>2. files[p].att.rid \in Logged
    BY <1>2 DEF IInv, EvidenceInv, Has, PreparedAt, Logged
  <2> QED
    BY <1>2, <2>1, <2>2 DEF Reports
<1>3. CASE /\ files[p].att = None
           /\ \E r \in WroteUnattested : Target(r) = p /\ files[p].content = Intended(r)
  BY <1>3 DEF Reports
<1> QED
  BY <1>1, <1>2, <1>3 DEF AttestInv

\* With nobody but the broker at work, verify_world calls no file moved, changed or
\* missing, and one unattested only after a write that could not be attested, at any
\* moment, whatever the handler threads interleave and wherever a crash strikes.
THEOREM NoFalseAccusation == Spec => []NoFalseTamper
BY NotAccused, Attested, PTL

\* The request _latest_entries finds has changed the path.
LEMMA LatestChanges ==
    ASSUME TypeOK, NEW p \in Path, Latest(p) # None
    PROVE  Latest(p) \in Req /\ Changes(Latest(p)) /\ Target(Latest(p)) = p
<1>1. Len(log) \in Nat /\ DOMAIN log = 1 .. Len(log) /\ \A j \in 1 .. Len(log) : log[j] \in LogRecord
  BY LenProperties, ElementOfSeq DEF TypeOK
<1>2. Successes(p) \in SUBSET (1 .. Len(log)) /\ Successes(p) # {} /\ Latest(p) = log[Max(Successes(p))].rid
  BY <1>1 DEF Latest, Successes
<1>3. Max(Successes(p)) \in Successes(p)
  BY <1>1, <1>2, MaxOfPositions
<1> QED
  BY <1>1, <1>2, <1>3 DEF Successes, LogRecord

\* A path about which verify_world reports nothing holds what the log's latest entry
\* says, or a link, or has a private name: under any foreign edit, copied attestation or
\* crash.
THEOREM CleanMeansLogged == Spec => []CleanWorldIsLogged
<1>1. IInv /\ AttestInv => CleanWorldIsLogged
  <2> SUFFICES ASSUME IInv, AttestInv, NEW p \in Path, Findings(p) = {}, Latest(p) # None,
                      ~files[p].link, p \notin Private
               PROVE  files[p].content = Intended(Latest(p))
    BY DEF CleanWorldIsLogged
  <2> USE NoneAssumption DEF IInv
  <2>1. \A kind \in FindingKinds : ~Reports(p, kind)
    BY DEF Findings
  <2>2. Latest(p) \in Req /\ Changes(Latest(p)) /\ Target(Latest(p)) = p
    BY LatestChanges
  <2>3. files[p].att # None => files[p].att \in minted /\ files[p].att.rid \in Logged
    BY DEF EvidenceInv, Has, PreparedAt, Logged
  <2>l. Looked(p) <=> files[p].content # Absent
    BY DEF Looked, Readable
  <2>4. files[p].content # Absent /\ files[p].att # None => files[p].att.target = p
    <3>1. ~Reports(p, "moved")
      BY <2>1 DEF FindingKinds
    <3> QED
      BY <2>l, <3>1 DEF Reports
  <2>5. CASE Tool(Latest(p)) = "write"
    <3>1. files[p].content # Absent
      <4>1. ~Reports(p, "gone")
        BY <2>1 DEF FindingKinds
      <4> QED
        BY <2>5, <4>1 DEF Reports
    <3>2. files[p].att # None
      <4>1. ~Reports(p, "unattested")
        BY <2>1 DEF FindingKinds
      <4> QED
        BY <2>l, <2>5, <3>1, <4>1 DEF Reports
    <3>3. files[p].content = files[p].att.digest
      <4>1. ~Reports(p, "changed")
        BY <2>1 DEF FindingKinds
      <4> QED
        BY <2>l, <2>4, <3>1, <3>2, <4>1 DEF Reports
    <3>4. Latest(p) = files[p].att.rid
      <4>1. ~Reports(p, "stale")
        BY <2>1 DEF FindingKinds
      <4>2. ~Superseded(p)
        BY <2>l, <2>4, <3>1, <3>2, <4>1 DEF Reports
      <4> QED
        BY <2>3, <2>5, <3>2, <4>2 DEF Superseded
    <3> QED
      BY <2>3, <2>5, <3>2, <3>3, <3>4, SignedContent DEF Intended
  <2>6. CASE Tool(Latest(p)) = "delete"
    <3>1. ~Reports(p, "undeleted")
      BY <2>1 DEF FindingKinds
    <3>2. files[p].content = Absent
      BY <2>l, <2>3, <2>4, <2>6, <3>1 DEF Reports
    <3> QED
      BY <2>6, <3>2 DEF Intended
  <2> QED
    BY <2>2, <2>5, <2>6 DEF Changes
<1> QED
  BY <1>1, Attested, PTL

\* A read the gate delivers is the content of the log's latest write of the path at the
\* moment of the verdict, or vouched for: never foreign, moved, replayed or superseded.
THEOREM GateDeliversLatest == ReadGate => (Spec => GatedReadIsLatest)
<1> SUFFICES ASSUME ReadGate PROVE Spec => GatedReadIsLatest
  OBVIOUS
<1> DEFINE Delivers(r) ==
      ReadVerdict(r) /\ effect'[r] = "succeeded" =>
          LET l == Latest(Target(r))
          IN  \/ l # None /\ Tool(l) = "write" /\ fetched[r].content = req[l].inv.content
              \/ <<Target(r), fetched[r].content>> \in Vouched
<1>1. IInv /\ AttestInv => \A r \in Req : Delivers(r)
  <2> SUFFICES ASSUME IInv, AttestInv, NEW r \in Req, ReadVerdict(r), effect'[r] = "succeeded",
                      <<Target(r), fetched[r].content>> \notin Vouched
               PROVE  LET l == Latest(Target(r))
                      IN  l # None /\ Tool(l) = "write" /\ fetched[r].content = req[l].inv.content
    OBVIOUS
  <2>1. Attributed(fetched[r], Target(r))
    BY DEF ReadVerdict, IInv, TypeOK
  <2>2. fetched[r].att \in minted
    BY <2>1 DEF AttestInv, Attributed
  <2>3. fetched[r].att.rid \in Req /\ fetched[r].content = req[fetched[r].att.rid].inv.content
    BY <2>1, <2>2, SignedContent DEF IInv, TypeOK, Attributed, Attestation
  <2> QED
    BY <2>1, <2>3, NoneAssumption DEF Attributed
<1> QED
  BY <1>1, Attested, PTL DEF GatedReadIsLatest

-----------------------------------------------------------------------------
(* Closing a request.                                                      *)

\* A prepared request is closed at most once, after its prepared record, by its own
\* thread or by a restart; a thread that has not got that far is not closed.
CloseInv ==
    /\ \A r \in Req : \A i, j \in Closed(r) : i = j
    /\ \A r \in Req : \A i \in Closed(r) : \E j \in Prepared(r) : j < i
    /\ \A r \in Req : Closed(r) # {} => pc[r] \in {"recorded", "replied", "lost"}
    /\ mode = "up" => \A r \in Req : pc[r] = "lost" => r \notin Open

Closing(e) == e.event \in {"outcome", "reconciled"}

\* What one more record changes for the readers of the log.
LEMMA LogAfter ==
    ASSUME TypeOK, NEW e \in LogRecord, Recorded(e)
    PROVE  /\ Len(log) \in Nat /\ DOMAIN log = 1 .. Len(log) /\ DOMAIN log' = 1 .. Len(log) + 1
           /\ \A i \in DOMAIN log : log'[i] = log[i]
           /\ log'[Len(log) + 1] = e
           /\ \A r : Closed(r)' = IF e.rid = r /\ Closing(e) THEN Closed(r) \cup {Len(log) + 1}
                                                              ELSE Closed(r)
           /\ \A r : Prepared(r)' = IF e.rid = r /\ e.event = "prepared"
                                    THEN Prepared(r) \cup {Len(log) + 1} ELSE Prepared(r)
<1>1. /\ Len(log) \in Nat /\ DOMAIN log = 1 .. Len(log) /\ DOMAIN log' = 1 .. Len(log) + 1
      /\ \A i \in DOMAIN log : log'[i] = log[i]
      /\ log'[Len(log) + 1] = e
  BY AppendRecord DEF TypeOK, Recorded
<1>2. ASSUME NEW r
      PROVE  Closed(r)' = IF e.rid = r /\ Closing(e) THEN Closed(r) \cup {Len(log) + 1} ELSE Closed(r)
  BY <1>1 DEF Closed, Closing
<1>3. ASSUME NEW r
      PROVE  Prepared(r)' = IF e.rid = r /\ e.event = "prepared"
                            THEN Prepared(r) \cup {Len(log) + 1} ELSE Prepared(r)
  BY <1>1 DEF Prepared
<1> QED
  BY <1>1, <1>2, <1>3

\* The records that are appended, and by whom.
NoRecord      == log' = log
OtherEntry    == \E e \in LogRecord : Recorded(e) /\ ~Closing(e) /\ e.event # "prepared"
PreparedBy(r) == /\ RecordPrepared(r)
                 /\ Recorded(Entry("prepared", r, before[r], "none", "none"))
OutcomeBy(r)  == /\ RecordOutcome(r)
                 /\ Recorded(Entry("outcome", r, before[r], effect[r], verdict[r]))
ClosedAtStart(r) == /\ ReconcilePending(r)
                    /\ \E v \in Verdict : Recorded(Entry("reconciled", r, None, "none", v))

\* There is no other step.
LEMMA RecordsOf ==
    ASSUME TypeOK, KeyInv, [Next]_vars
    PROVE  \/ NoRecord \/ OtherEntry
           \/ \E r \in Req : PreparedBy(r) \/ OutcomeBy(r) \/ ClosedAtStart(r)
<1>1. ASSUME NEW r \in Req, Thread(r)
      PROVE  NoRecord \/ OtherEntry \/ PreparedBy(r) \/ OutcomeBy(r)
  <2>1. CASE Refuse(r)
    <3>1. Entry("decision", r, None, "none", "none") \in LogRecord
      BY DEF Entry, LogRecord, Event, State, Effect, Verdict
    <3> QED
      BY <2>1, <3>1 DEF Refuse, RecordRefusal, AppendRaises, NoRecord, OtherEntry, Closing, Entry
  <2>2. CASE AnswerDuplicate(r)
    <3>1. PICK a \in {"already_applied", "none"} : RecordRefusal(Entry("duplicate", r, None, a, "none"))
      BY <2>2 DEF AnswerDuplicate
    <3>2. Entry("duplicate", r, None, a, "none") \in LogRecord
      BY DEF Entry, LogRecord, Event, State, Effect, Verdict
    <3> QED
      BY <3>1, <3>2 DEF RecordRefusal, AppendRaises, NoRecord, OtherEntry, Closing, Entry
  <2>3. CASE RecordPrepared(r)
    BY <2>3 DEF RecordPrepared, AppendRaises, RecordedButRaises, NoRecord, PreparedBy
  <2>4. CASE RecordOutcome(r)
    BY <2>4 DEF RecordOutcome, AppendRaises, NoRecord, OutcomeBy
  <2>5. CASE ~(Refuse(r) \/ AnswerDuplicate(r) \/ RecordPrepared(r) \/ RecordOutcome(r))
    BY <1>1, <2>5 DEF Thread, Admit, ObserveBefore, ExecWrite, ExecDelete, ExecRead, ReadVerdict,
         ExecHttp, ExecFails, ObserveAfter, UpdateKey, durable, NoRecord
  <2> QED
    BY <2>1, <2>2, <2>3, <2>4, <2>5
<1>2. ASSUME NEW r \in Req, ReconcilePending(r) PROVE ClosedAtStart(r)
  <2>1. PICK v \in StartVerdicts(r) : Recorded(Entry("reconciled", r, None, "none", v))
    BY <1>2 DEF ReconcilePending, Recorded
  <2>2. v \in Verdict
    BY ReconcileType DEF StartVerdicts, Verdict
  <2> QED
    BY <1>2, <2>1, <2>2 DEF ClosedAtStart
<1>3. CASE ~(\E r \in Req : Thread(r) \/ ReconcilePending(r))
  BY <1>3 DEF Next, vars, Arrive, FinishStart, Crash, Done, Foreign, durable, NoRecord
<1> QED
  BY <1>1, <1>2, <1>3

\* The records of threads and of a restart are records.
LEMMA EntryTypes ==
    ASSUME TypeOK, NEW r \in Req, NEW v \in Verdict
    PROVE  /\ Entry("prepared", r, before[r], "none", "none") \in LogRecord
           /\ Entry("outcome", r, before[r], effect[r], verdict[r]) \in LogRecord
           /\ Entry("reconciled", r, None, "none", v) \in LogRecord
BY DEF TypeOK, Entry, LogRecord, Event, State, Effect, Verdict

\* Which requests a step closes, and which it prepares.
Closes(r)   == OutcomeBy(r) \/ ClosedAtStart(r)

\* Every step keeps the records, and adds the closing ones of the requests it closes.
LEMMA LogStep ==
    ASSUME TypeOK, KeyInv, [Next]_vars
    PROVE  /\ Len(log) \in Nat /\ DOMAIN log = 1 .. Len(log)
           /\ \A i \in DOMAIN log : i \in DOMAIN log' /\ log'[i] = log[i]
           /\ \A r \in Req : Closed(r)' = Closed(r)
                             \/ (Closes(r) /\ Closed(r)' = Closed(r) \cup {Len(log) + 1})
           /\ \A r \in Req : Prepared(r)' = Prepared(r)
                             \/ (PreparedBy(r) /\ Prepared(r)' = Prepared(r) \cup {Len(log) + 1})
<1>0. Len(log) \in Nat /\ DOMAIN log = 1 .. Len(log)
  BY LenProperties DEF TypeOK
<1>1. CASE NoRecord
  BY <1>0, <1>1 DEF NoRecord, Closed, Prepared
<1>2. CASE OtherEntry
  <2>1. PICK e \in LogRecord : Recorded(e) /\ ~Closing(e) /\ e.event # "prepared"
    BY <1>2 DEF OtherEntry
  <2> QED
    BY <2>1, LogAfter
<1>3. ASSUME NEW r \in Req, PreparedBy(r) \/ OutcomeBy(r) \/ ClosedAtStart(r)
      PROVE  /\ \A i \in DOMAIN log : i \in DOMAIN log' /\ log'[i] = log[i]
             /\ \A s \in Req : Closed(s)' = Closed(s)
                               \/ (Closes(s) /\ Closed(s)' = Closed(s) \cup {Len(log) + 1})
             /\ \A s \in Req : Prepared(s)' = Prepared(s)
                               \/ (PreparedBy(s) /\ Prepared(s)' = Prepared(s) \cup {Len(log) + 1})
  <2>1. PICK e \in LogRecord : /\ Recorded(e) /\ e.rid = r
                               /\ Closing(e) => Closes(r)
                               /\ e.event = "prepared" => PreparedBy(r)
    <3>0. \E v \in Verdict : TRUE
      BY DEF Verdict
    <3>1. CASE PreparedBy(r)
      BY <3>0, <3>1, EntryTypes DEF PreparedBy, Closing, Entry
    <3>2. CASE OutcomeBy(r)
      BY <3>0, <3>2, EntryTypes DEF OutcomeBy, Closes, Entry
    <3>3. CASE ClosedAtStart(r)
      BY <3>3, EntryTypes DEF ClosedAtStart, Closes, Entry
    <3> QED
      BY <1>3, <3>1, <3>2, <3>3
  <2> QED
    BY <1>0, <2>1, LogAfter
<1> QED
  BY <1>0, <1>1, <1>2, <1>3, RecordsOf

\* A request is closed by the step that finds it prepared and not closed.
LEMMA ClosesOpen ==
    ASSUME TypeOK, KeyInv, CloseInv, NEW r \in Req, Closes(r)
    PROVE  /\ Closed(r) = {} /\ Prepared(r) # {}
           /\ pc'[r] \in {"recorded", "replied", "lost"}
<1>1. CASE OutcomeBy(r)
  <2>1. pc[r] = "reconciled" /\ pc'[r] = "recorded"
    BY <1>1 DEF OutcomeBy, RecordOutcome, TypeOK
  <2>2. Has(r)
    BY <2>1 DEF KeyInv, Committed, Running
  <2> QED
    BY <2>1, <2>2, HasIsPrepared DEF CloseInv
<1>2. CASE ClosedAtStart(r)
  <2>1. mode = "starting" /\ r \in Open /\ pc' = pc
    BY <1>2 DEF ClosedAtStart, ReconcilePending
  <2>2. ~Running(r) /\ ~Deciding(r) /\ pc[r] \notin {"idle", "arrived"}
    BY <2>1, HasIsPrepared, PreparedHasArrived DEF KeyInv, Open
  <2> QED
    BY <2>1, <2>2 DEF Open, Running, Deciding, TypeOK, PC
<1> QED
  BY <1>1, <1>2 DEF Closes

\* A thread that has recorded, replied or died does not come back.
LEMMA PcForward ==
    ASSUME TypeOK, [Next]_vars, NEW r \in Req
    PROVE  /\ pc[r] \in {"recorded", "replied", "lost"} => pc'[r] \in {"recorded", "replied", "lost"}
           /\ pc'[r] = "lost" => pc[r] = "lost" \/ Crash
<1>1. ASSUME NEW s \in Req, Arrive(s) PROVE pc[s] = "idle" /\ pc' = [pc EXCEPT ![s] = "arrived"]
  BY <1>1 DEF Arrive
<1>2. ASSUME NEW s \in Req, Thread(s)
      PROVE  /\ pc[s] \notin {"replied", "lost"}
             /\ \E x \in PC \ {"idle", "arrived", "lost"} : pc' = [pc EXCEPT ![s] = x]
             /\ pc[s] = "recorded" => pc' = [pc EXCEPT ![s] = "replied"]
  BY <1>2 DEF PC, Thread, Refuse, AnswerDuplicate, Admit, ObserveBefore, RecordPrepared,
       ExecWrite, ExecDelete, ExecRead, ReadVerdict, ExecHttp, ExecFails, ObserveAfter,
       RecordOutcome, UpdateKey
<1>3. CASE Crash
  BY <1>3 DEF Crash, TypeOK
<1>4. CASE ~(Crash \/ \E s \in Req : Arrive(s) \/ Thread(s))
  BY <1>4 DEF Next, vars, ReconcilePending, FinishStart, Done, Foreign
<1> QED
  BY <1>1, <1>2, <1>3, <1>4 DEF TypeOK

\* Only a finished start makes a broker serve.
LEMMA ServesAfterStart ==
    ASSUME [Next]_vars, mode' = "up"
    PROVE  mode = "up" \/ FinishStart
BY DEF Next, vars, Arrive, Thread, Refuse, AnswerDuplicate, Admit, ObserveBefore, RecordPrepared,
       ExecWrite, ExecDelete, ExecRead, ReadVerdict, ExecHttp, ExecFails, ObserveAfter,
       RecordOutcome, UpdateKey, ReconcilePending, Crash, Done, Foreign

\* Every step closes a request at most once.
LEMMA CloseStep ==
    ASSUME TypeOK, KeyInv, CloseInv, [Next]_vars
    PROVE  CloseInv'
<1>0. /\ Len(log) \in Nat /\ DOMAIN log = 1 .. Len(log)
      /\ \A r \in Req : Closed(r)' = Closed(r)
                        \/ (Closes(r) /\ Closed(r)' = Closed(r) \cup {Len(log) + 1})
      /\ \A r \in Req : Prepared(r)' = Prepared(r)
                        \/ (PreparedBy(r) /\ Prepared(r)' = Prepared(r) \cup {Len(log) + 1})
  BY LogStep
<1>1. ASSUME NEW r \in Req PROVE \A i, j \in Closed(r)' : i = j
  BY <1>0, ClosesOpen DEF CloseInv
<1>2. ASSUME NEW r \in Req, NEW i \in Closed(r)' PROVE \E j \in Prepared(r)' : j < i
  <2>1. Prepared(r) \subseteq Prepared(r)' /\ Prepared(r) \subseteq 1 .. Len(log)
    BY <1>0 DEF Prepared
  <2>2. CASE i \in Closed(r)
    BY <2>1, <2>2 DEF CloseInv
  <2>3. CASE i \notin Closed(r)
    <3>1. i = Len(log) + 1 /\ Prepared(r) # {}
      BY <1>0, <1>2, <2>3, ClosesOpen
    <3> QED
      BY <1>0, <2>1, <3>1
  <2> QED
    BY <2>2, <2>3
<1>3. ASSUME NEW r \in Req, Closed(r)' # {} PROVE pc'[r] \in {"recorded", "replied", "lost"}
  BY <1>0, <1>3, ClosesOpen, PcForward DEF CloseInv
<1>4. ASSUME mode' = "up", NEW r \in Req, pc'[r] = "lost" PROVE r \notin Open'
  <2>1. CASE FinishStart
    BY <2>1 DEF FinishStart, durable, Open, Prepared, Closed
  <2>2. CASE ~FinishStart
    <3>1. mode = "up" /\ pc[r] = "lost"
      BY <1>4, <2>2, PcForward, ServesAfterStart DEF Crash
    <3>2. ~PreparedBy(r)
      BY <3>1 DEF PreparedBy, RecordPrepared
    <3>3. Prepared(r)' = Prepared(r) /\ (Closed(r) # {} => Closed(r)' # {})
      BY <1>0, <3>2
    <3> QED
      BY <3>1, <3>3 DEF CloseInv, Open
  <2> QED
    BY <2>1, <2>2
<1> QED
  BY <1>1, <1>2, <1>3, <1>4 DEF CloseInv

\* No request is prepared at first.
LEMMA CloseInit == Init => CloseInv
BY DEF Init, CloseInv, Closed

\* The invariant about closing holds in every reachable state.
LEMMA ClosedOnceEach == Spec => [](IInv /\ CloseInv)
<1>1. Init /\ IInv => IInv /\ CloseInv
  BY CloseInit
<1>2. IInv /\ CloseInv /\ [Next]_vars => CloseInv'
  BY CloseStep DEF IInv
<1> QED
  BY <1>1, <1>2, Invariance, PTL DEF Spec

\* Every prepared request is closed by one verdict at most, after its prepared record, and
\* none that a crash interrupted is open while the broker serves.
THEOREM EachClosedOnce == Spec => []ClosedOnce
<1>1. IInv /\ CloseInv => ClosedOnce
  BY DEF CloseInv, ClosedOnce, Open
<1> QED
  BY <1>1, ClosedOnceEach, PTL

-----------------------------------------------------------------------------
(* The key table and the one a restart rebuilds.                           *)

\* A running request holds its key as pending. A key in the table names the last request
\* the log prepared under it, and once settled and recorded says what the log says.
AnswerInv ==
    /\ \A r \in Req : pc[r] \in {"executed", "reconciled", "recorded"} =>
          effect[r] \in {"succeeded", "failed", "unknown"}
    /\ \A r \in Req : pc[r] = "recorded" =>
          \A i \in Closed(r) : log[i].event = "outcome" /\ log[i].effect = effect[r]
    /\ \A r \in Req : Running(r) /\ KeyOf(r) # None =>
          keys[KeyOf(r)] = [rid |-> r, state |-> "pending"]
    /\ mode = "up" => \A k \in Key : keys[k] # None =>
          KeyUses(k) # {} /\ log[Max(KeyUses(k))].rid = keys[k].rid
    /\ mode = "up" => \A k \in Key :
          keys[k] # None /\ keys[k].state # "pending" /\ Closed(keys[k].rid) # {}
          => KeyState(keys[k].rid) = keys[k].state

\* A position that no other exceeds is the greatest.
LEMMA MaxIsLast ==
    ASSUME NEW n \in Nat, NEW S \in SUBSET (1 .. n), NEW m \in S, \A j \in S : j <= m
    PROVE  Max(S) = m
<1>1. Max(S) \in S /\ \A j \in S : j <= Max(S)
  BY MaxOfPositions
<1>2. Max(S) \in 1 .. n /\ m \in 1 .. n /\ m <= Max(S) /\ Max(S) <= m
  BY <1>1
<1> QED
  BY <1>2

\* The last use of a key is a prepared record of a request that carries it.
LEMMA LastUse ==
    ASSUME TypeOK, KeyInv, NEW k \in Key, KeyUses(k) # {}
    PROVE  LET r == log[Max(KeyUses(k))].rid IN r \in Req /\ Has(r) /\ KeyOf(r) = k
<1>1. Len(log) \in Nat /\ KeyUses(k) \in SUBSET (1 .. Len(log))
  BY LenProperties DEF TypeOK, KeyUses
<1>2. Max(KeyUses(k)) \in KeyUses(k)
  BY <1>1, MaxOfPositions
<1> QED
  BY <1>2, PreparedRequests DEF KeyUses, PreparedAt, Has

\* What a step does to the uses of a key: only a prepared record of a request that carries
\* the key adds one, at the end.
LEMMA UsesStep ==
    ASSUME TypeOK, KeyInv, [Next]_vars, NEW k \in Key
    PROVE  \/ KeyUses(k)' = KeyUses(k)
           \/ \E r \in Req : /\ PreparedBy(r) /\ KeyOf(r) = k
                             /\ KeyUses(k)' = KeyUses(k) \cup {Len(log) + 1}
                             /\ log'[Len(log) + 1].rid = r
<1>0. \A i \in DOMAIN log : log[i].event = "prepared" => req'[log[i].rid] = req[log[i].rid]
  BY ProposalKept, PreparedHasArrived DEF Has, PreparedAt
<1> USE DEF KeyOf
<1>1. CASE NoRecord
  BY <1>0, <1>1 DEF NoRecord, KeyUses
<1>2. ASSUME NEW e \in LogRecord, Recorded(e), e.event # "prepared"
      PROVE  KeyUses(k)' = KeyUses(k)
  BY <1>0, <1>2, LogAfter DEF KeyUses
<1>3. ASSUME NEW r \in Req, PreparedBy(r)
      PROVE  \/ KeyUses(k)' = KeyUses(k)
             \/ /\ KeyOf(r) = k /\ KeyUses(k)' = KeyUses(k) \cup {Len(log) + 1}
                /\ log'[Len(log) + 1].rid = r
  <2>1. PICK e \in LogRecord : Recorded(e) /\ e.rid = r /\ e.event = "prepared"
    <3>1. "none" \in Verdict
      BY DEF Verdict
    <3> QED
      BY <1>3, <3>1, EntryTypes DEF PreparedBy, Entry
  <2>2. req' = req
    BY <1>3 DEF PreparedBy, RecordPrepared
  <2>3. /\ DOMAIN log' = 1 .. Len(log) + 1 /\ DOMAIN log = 1 .. Len(log) /\ Len(log) \in Nat
        /\ \A i \in DOMAIN log : log'[i] = log[i]
        /\ log'[Len(log) + 1] = e
    BY <2>1, LogAfter
  <2> QED
    BY <2>1, <2>2, <2>3 DEF KeyUses
<1>4. ASSUME NEW r \in Req, OutcomeBy(r) \/ ClosedAtStart(r)
      PROVE  \E e \in LogRecord : Recorded(e) /\ e.event # "prepared"
  <2>0. "none" \in Verdict
    BY DEF Verdict
  <2>1. CASE OutcomeBy(r)
    BY <2>0, <2>1, EntryTypes DEF OutcomeBy, Entry
  <2>2. CASE ClosedAtStart(r)
    BY <2>2, EntryTypes DEF ClosedAtStart, Entry
  <2> QED
    BY <1>4, <2>1, <2>2
<1> QED
  BY <1>1, <1>2, <1>3, <1>4, RecordsOf DEF OtherEntry

\* A prepared record is a use of its request's key.
LEMMA OneMoreUse ==
    ASSUME TypeOK, KeyInv, [Next]_vars, NEW r \in Req, PreparedBy(r), NEW k \in Key, KeyOf(r) = k
    PROVE  KeyUses(k)' # KeyUses(k)
<1>1. PICK e \in LogRecord : Recorded(e) /\ e.rid = r /\ e.event = "prepared"
  <2>1. "none" \in Verdict
    BY DEF Verdict
  <2> QED
    BY <2>1, EntryTypes DEF PreparedBy, Entry
<1>2. req' = req
  BY DEF PreparedBy, RecordPrepared
<1>3. Len(log) + 1 \in DOMAIN log' /\ Len(log) + 1 \notin DOMAIN log /\ log'[Len(log) + 1] = e
  BY <1>1, LogAfter
<1> QED
  BY <1>1, <1>2, <1>3 DEF KeyUses, KeyOf

\* How a step changes the key table: a prepared request takes its free key, a thread that
\* replies settles the one it holds, and a restart rebuilds or forgets them all.
LEMMA KeysStep ==
    ASSUME TypeOK, KeyInv, AnswerInv, [Next]_vars
    PROVE  \/ keys' = keys
           \/ \E r \in Req : PreparedBy(r) /\ keys' = PendingKey(r)
           \/ \E r \in Req : UpdateKey(r)
           \/ FinishStart \/ Crash
BY DEF Next, vars, Thread, Arrive, Refuse, AnswerDuplicate, Admit, ObserveBefore, RecordPrepared,
       ExecWrite, ExecDelete, ExecRead, ReadVerdict, ExecHttp, ExecFails, ObserveAfter,
       RecordOutcome, UpdateKey, ReconcilePending, Done, Foreign, durable, PreparedBy

\* A thread's effect is set when it executes, and only by itself.
LEMMA EffectStep ==
    ASSUME TypeOK, AnswerInv, [Next]_vars, NEW r \in Req
    PROVE  /\ pc'[r] \in {"executed", "reconciled", "recorded"} =>
                effect'[r] \in {"succeeded", "failed", "unknown"}
           /\ pc'[r] = "recorded" => effect'[r] = effect[r] /\ (pc[r] = "recorded" \/ RecordOutcome(r))
<1>1. ASSUME NEW s \in Req, Thread(s)
      PROVE  /\ pc'[r] \in {"executed", "reconciled", "recorded"} =>
                   effect'[r] \in {"succeeded", "failed", "unknown"}
             /\ pc'[r] = "recorded" => effect'[r] = effect[r] /\ (pc[r] = "recorded" \/ RecordOutcome(r))
  <2>1. CASE ExecWrite(s) \/ ExecDelete(s) \/ ExecHttp(s) \/ ExecFails(s) \/ ReadVerdict(s)
    BY <2>1 DEF ExecWrite, ExecDelete, ExecHttp, ExecFails, ReadVerdict, Reported, TypeOK, AnswerInv
  <2>2. CASE AnswerDuplicate(s)
    BY <2>2 DEF AnswerDuplicate, TypeOK, AnswerInv
  <2>3. CASE Refuse(s) \/ Admit(s) \/ ObserveBefore(s) \/ RecordPrepared(s) \/ ExecRead(s)
             \/ ObserveAfter(s) \/ RecordOutcome(s) \/ UpdateKey(s)
    BY <2>3 DEF Refuse, Admit, ObserveBefore, RecordPrepared, ExecRead, ObserveAfter, RecordOutcome,
         UpdateKey, TypeOK, AnswerInv
  <2> QED
    BY <1>1, <2>1, <2>2, <2>3 DEF Thread
<1>2. CASE ~(\E s \in Req : Thread(s))
  BY <1>2 DEF Next, vars, Arrive, ReconcilePending, FinishStart, Crash, Done, Foreign, TypeOK, AnswerInv
<1> QED
  BY <1>1, <1>2

\* The state a rebuilt table gives a request depends on its closing records only.
LEMMA KeyStateKept ==
    ASSUME TypeOK, KeyInv, [Next]_vars, NEW r \in Req, ~Closes(r)
    PROVE  Closed(r)' = Closed(r) /\ KeyState(r)' = KeyState(r)
<1>1. Closed(r)' = Closed(r) /\ \A i \in Closed(r) : log'[i] = log[i]
  BY LogStep DEF Closed
<1> QED
  BY <1>1 DEF KeyState, Means

\* While the broker serves, a request whose key is settled is closed by nobody: its thread
\* has replied.
LEMMA SettledStays ==
    ASSUME TypeOK, KeyInv, AnswerInv, mode = "up", NEW k \in Key, keys[k] # None,
           keys[k].state # "pending"
    PROVE  keys[k].rid \in Req /\ KeyOf(keys[k].rid) = k /\ ~Closes(keys[k].rid)
<1>1. keys[k].rid \in Req /\ KeyOf(keys[k].rid) = k
  BY LastUse DEF AnswerInv
<1>2. ~Running(keys[k].rid)
  <2>1. ASSUME Running(keys[k].rid) PROVE keys[k] = [rid |-> keys[k].rid, state |-> "pending"]
    BY <1>1, <2>1, NoneAssumption DEF AnswerInv
  <2> QED
    BY <2>1
<1> QED
  BY <1>1, <1>2 DEF Closes, OutcomeBy, RecordOutcome, ClosedAtStart, ReconcilePending, Running

\* A thread that replies settles the entry it holds.
LEMMA SettledEntry ==
    ASSUME TypeOK, KeyInv, AnswerInv, NEW r \in Req, UpdateKey(r), NEW k \in Key, KeyOf(r) = k
    PROVE  keys[k] # None /\ keys[k].rid = r /\ keys'[k] = [rid |-> r, state |-> StateAfter(r)]
<1>1. keys[k] = [rid |-> r, state |-> "pending"] /\ k # None
  BY NoneAssumption DEF UpdateKey, AnswerInv, Running
<1>2. keys' = [keys EXCEPT ![k].state = StateAfter(r)]
  BY <1>1 DEF UpdateKey
<1>3. keys'[k] = [keys[k] EXCEPT !.state = StateAfter(r)]
  BY <1>2 DEF TypeOK
<1>4. keys[k] # None
  BY <1>1, RunningHasKey DEF UpdateKey, Running
<1> QED
  BY <1>1, <1>3, <1>4

\* A thread that replies settles its key as the log says, if its outcome was recorded.
LEMMA SettledAsRecorded ==
    ASSUME TypeOK, KeyInv, CloseInv, AnswerInv, NEW r \in Req, UpdateKey(r), Closed(r) # {}
    PROVE  KeyState(r) = StateAfter(r)
<1>1. pc[r] = "recorded"
  BY DEF UpdateKey
<1>2. PICK i \in Closed(r) : log[i].event = "outcome" /\ log[i].effect = effect[r]
  BY <1>1 DEF AnswerInv
<1>3. Closed(r) = {i}
  BY <1>2 DEF CloseInv
<1>4. KeyState(r) = CASE Means(log[i], "succeeded", "confirmedSuccess") -> "done"
                      [] Means(log[i], "failed", "confirmedFailure")    -> "failed"
                      [] OTHER                                          -> "pending"
  BY <1>3 DEF KeyState
<1>5. effect[r] \in {"succeeded", "failed", "unknown"}
  BY <1>1 DEF AnswerInv
<1> QED
  BY <1>2, <1>4, <1>5 DEF Means, StateAfter

\* Every step keeps the key table in agreement with the log.
LEMMA AnswerStep ==
    ASSUME TypeOK, KeyInv, CloseInv, AnswerInv, TypeOK', KeyInv', [Next]_vars
    PROVE  AnswerInv'
<1> USE NoneAssumption
<1>1. ASSUME NEW r \in Req, pc'[r] \in {"executed", "reconciled", "recorded"}
      PROVE  effect'[r] \in {"succeeded", "failed", "unknown"}
  BY <1>1, EffectStep
<1>2. ASSUME NEW r \in Req, pc'[r] = "recorded", NEW i \in Closed(r)'
      PROVE  log'[i].event = "outcome" /\ log'[i].effect = effect'[r]
  <2>1. effect'[r] = effect[r] /\ (pc[r] = "recorded" \/ RecordOutcome(r))
    BY <1>2, EffectStep
  <2>2. CASE pc[r] = "recorded"
    <3>1. ~Closes(r)
      BY <2>2 DEF Closes, OutcomeBy, RecordOutcome, ClosedAtStart, ReconcilePending, KeyInv, Running
    <3>2. i \in Closed(r) /\ log'[i] = log[i]
      BY <1>2, <3>1, LogStep DEF Closed
    <3> QED
      BY <2>1, <2>2, <3>2 DEF AnswerInv
  <2>3. CASE RecordOutcome(r)
    <3>1. Closed(r) = {}
      BY <2>3 DEF RecordOutcome, CloseInv
    <3>2. OutcomeBy(r) /\ i = Len(log) + 1
      BY <1>2, <2>3, <3>1, LogStep DEF Closes, RecordOutcome, ClosedAtStart, ReconcilePending, KeyInv, Running
    <3>3. Entry("outcome", r, before[r], effect[r], verdict[r]) \in LogRecord
      BY EntryTypes DEF TypeOK
    <3>4. log'[i] = Entry("outcome", r, before[r], effect[r], verdict[r])
      BY <3>2, <3>3, LogAfter DEF OutcomeBy
    <3> QED
      BY <2>1, <3>4 DEF Entry
  <2> QED
    BY <2>1, <2>2, <2>3
<1>3. ASSUME NEW r \in Req, Running(r)', KeyOf(r)' # None
      PROVE  keys'[KeyOf(r)'] = [rid |-> r, state |-> "pending"]
  <2>1. ~Crash /\ ~FinishStart
    BY <1>3 DEF Running, KeyInv, Crash, FinishStart
  <2>2. ~Running(r) => RecordPrepared(r) /\ pc'[r] = "prepared"
    <3>1. ASSUME NEW s \in Req, Thread(s), s # r PROVE pc'[r] = pc[r]
      <4>1. CASE Refuse(s) \/ AnswerDuplicate(s) \/ Admit(s) \/ ObserveBefore(s) \/ RecordPrepared(s)
        BY <3>1, <4>1 DEF TypeOK, Refuse, AnswerDuplicate, Admit, ObserveBefore, RecordPrepared
      <4>2. CASE ExecWrite(s) \/ ExecDelete(s) \/ ExecRead(s) \/ ExecHttp(s) \/ ExecFails(s)
        BY <3>1, <4>2 DEF TypeOK, ExecWrite, ExecDelete, ExecRead, ExecHttp, ExecFails
      <4>3. CASE ReadVerdict(s) \/ ObserveAfter(s) \/ RecordOutcome(s) \/ UpdateKey(s)
        BY <3>1, <4>3 DEF TypeOK, ReadVerdict, ObserveAfter, RecordOutcome, UpdateKey
      <4> QED
        BY <3>1, <4>1, <4>2, <4>3 DEF Thread
    <3>2. ASSUME Thread(r) PROVE Running(r) \/ (RecordPrepared(r) /\ pc'[r] = "prepared")
      <4>1. CASE Refuse(r) \/ AnswerDuplicate(r) \/ Admit(r) \/ ObserveBefore(r)
        BY <1>3, <4>1 DEF TypeOK, Running, Refuse, AnswerDuplicate, Admit, ObserveBefore
      <4>2. CASE RecordPrepared(r)
        BY <1>3, <4>2 DEF TypeOK, Running, RecordPrepared
      <4>3. CASE ExecWrite(r) \/ ExecDelete(r) \/ ExecRead(r) \/ ExecHttp(r) \/ ExecFails(r)
        <5>1. pc[r] = "prepared"
          BY <4>3 DEF ExecWrite, ExecDelete, ExecRead, ExecHttp, ExecFails
        <5> QED
          BY <5>1 DEF Running
      <4>4. ReadVerdict(r) => pc[r] = "fetched"
        BY DEF ReadVerdict
      <4>5. ObserveAfter(r) => pc[r] = "executed"
        BY DEF ObserveAfter
      <4>6. RecordOutcome(r) => pc[r] = "reconciled"
        BY DEF RecordOutcome
      <4>7. UpdateKey(r) => pc[r] = "recorded"
        BY DEF UpdateKey
      <4> QED
        BY <3>2, <4>1, <4>2, <4>3, <4>4, <4>5, <4>6, <4>7 DEF Thread, Running
    <3>3. ASSUME NEW s \in Req, Thread(s) PROVE Running(r) \/ (RecordPrepared(r) /\ pc'[r] = "prepared")
      <4>1. CASE s = r
        BY <3>2, <3>3, <4>1
      <4>2. CASE s # r
        <5>1. pc'[r] = pc[r]
          BY <3>1, <3>3, <4>2
        <5> QED
          BY <1>3, <5>1 DEF Running
      <4> QED
        BY <4>1, <4>2
    <3> QED
      BY <1>3, <2>1, <3>3 DEF TypeOK, Next, vars, Running, Arrive, ReconcilePending, Done, Foreign
  <2>3. pc[r] # "idle" /\ KeyOf(r)' = KeyOf(r) /\ KeyOf(r) \in Key
    <3>1. pc[r] # "idle"
      BY <2>2 DEF Running, RecordPrepared
    <3> QED
      BY <1>3, <3>1, ProposalKept, PreparedRequests DEF KeyOf
  <2>4. CASE RecordPrepared(r) /\ pc'[r] = "prepared"
    <3>1. keys' = PendingKey(r)
      BY <2>4 DEF RecordPrepared, TypeOK
    <3> QED
      BY <1>3, <2>3, <3>1 DEF PendingKey, TypeOK
  <2>5. CASE Running(r)
    <3>1. keys[KeyOf(r)] = [rid |-> r, state |-> "pending"]
      BY <1>3, <2>3, <2>5 DEF AnswerInv
    <3>2. ASSUME NEW s \in Req, PreparedBy(s), keys' = PendingKey(s) PROVE keys'[KeyOf(r)] = keys[KeyOf(r)]
      <4>1. KeyOf(s) # None => keys[KeyOf(s)] = None
        BY <3>2 DEF PreparedBy, RecordPrepared, KeyInv, Deciding
      <4>2. keys[KeyOf(r)] # None
        BY <1>3, <2>3, <2>5, RunningHasKey
      <4>3. KeyOf(s) # KeyOf(r)
        BY <1>3, <2>3, <4>1, <4>2
      <4> QED
        BY <2>3, <3>2, <4>3 DEF PendingKey, TypeOK
    <3>3. ASSUME NEW s \in Req, UpdateKey(s) PROVE keys'[KeyOf(r)] = keys[KeyOf(r)]
      <4>1. s # r
        BY <1>3, <3>3 DEF UpdateKey, Running, TypeOK
      <4>2. Running(s)
        BY <3>3 DEF UpdateKey, Running
      <4>3. KeyOf(s) # KeyOf(r)
        BY <1>3, <2>3, <2>5, <4>1, <4>2 DEF KeyInv, Committed
      <4> QED
        BY <2>3, <3>3, <4>3 DEF UpdateKey, TypeOK
    <3> QED
      BY <2>1, <2>3, <3>1, <3>2, <3>3, KeysStep
  <2> QED
    BY <2>2, <2>4, <2>5
<1>4. ASSUME mode' = "up", NEW k \in Key, keys'[k] # None
      PROVE  KeyUses(k)' # {} /\ log'[Max(KeyUses(k)')].rid = keys'[k].rid
  <2>1. CASE FinishStart
    <3>1. keys' = RebuiltKeys /\ log' = log /\ req' = req
      BY <2>1 DEF FinishStart, durable
    <3>2. KeyUses(k)' = KeyUses(k)
      BY <3>1 DEF KeyUses, KeyOf
    <3>3. KeyUses(k) # {} /\ RebuiltKeys[k].rid = log[Max(KeyUses(k))].rid
      BY <1>4, <3>1 DEF RebuiltKeys
    <3> QED
      BY <3>1, <3>2, <3>3
  <2>2. ASSUME NEW r \in Req, PreparedBy(r), KeyOf(r) = k,
               KeyUses(k)' = KeyUses(k) \cup {Len(log) + 1}, log'[Len(log) + 1].rid = r
        PROVE  KeyUses(k)' # {} /\ log'[Max(KeyUses(k)')].rid = keys'[k].rid
    <3>1. keys[k] = None
      BY <2>2 DEF PreparedBy, RecordPrepared, KeyInv, Deciding
    <3>2. keys'[k] = [rid |-> r, state |-> "pending"]
      BY <1>4, <2>2, <3>1 DEF PreparedBy, RecordPrepared, PendingKey, TypeOK
    <3>3. Len(log) \in Nat /\ KeyUses(k) \subseteq 1 .. Len(log)
      BY LogStep DEF KeyUses
    <3>4. Max(KeyUses(k)') = Len(log) + 1
      <4> DEFINE n == Len(log) + 1
      <4>1. n \in Nat /\ KeyUses(k)' \in SUBSET (1 .. n) /\ n \in KeyUses(k)'
            /\ \A j \in KeyUses(k)' : j <= n
        BY <2>2, <3>3
      <4> QED
        BY <4>1, MaxIsLast
    <3> QED
      BY <2>2, <3>2, <3>4
  <2>3. CASE KeyUses(k)' = KeyUses(k) /\ ~FinishStart
    <3>1. mode = "up"
      BY <1>4, <2>3, ServesAfterStart
    <3>2. ~Crash
      BY <1>4 DEF Crash
    <3>3. keys[k] # None /\ keys'[k].rid = keys[k].rid
      <4>1. CASE keys' = keys
        BY <1>4, <4>1
      <4>2. ASSUME NEW r \in Req, PreparedBy(r), keys' = PendingKey(r)
            PROVE  keys[k] # None /\ keys'[k].rid = keys[k].rid
        <5>1. CASE KeyOf(r) = k
          BY <2>3, <4>2, <5>1, OneMoreUse
        <5>2. CASE KeyOf(r) # k
          BY <1>4, <4>2, <5>2 DEF PendingKey, TypeOK
        <5> QED
          BY <5>1, <5>2
      <4>3. ASSUME NEW r \in Req, UpdateKey(r)
            PROVE  keys[k] # None /\ keys'[k].rid = keys[k].rid
        <5>1. KeyOf(r) # None => KeyOf(r) \in Key /\ keys[KeyOf(r)] = [rid |-> r, state |-> "pending"]
          BY <4>3, PreparedRequests DEF UpdateKey, AnswerInv, Running
        <5>2. CASE KeyOf(r) = k
          <6>1. /\ keys[k] # None /\ keys[k].rid = r
                /\ keys'[k] = [rid |-> r, state |-> StateAfter(r)]
            BY <4>3, <5>2, SettledEntry
          <6> QED
            BY <6>1
        <5>3. CASE KeyOf(r) # k
          BY <1>4, <4>3, <5>1, <5>3 DEF UpdateKey, TypeOK
        <5> QED
          BY <5>2, <5>3
      <4> QED
        BY <2>3, <3>2, <4>1, <4>2, <4>3, KeysStep
    <3>4. KeyUses(k) # {} /\ log[Max(KeyUses(k))].rid = keys[k].rid
      BY <3>1, <3>3 DEF AnswerInv
    <3>5. log'[Max(KeyUses(k))] = log[Max(KeyUses(k))]
      <4>1. Len(log) \in Nat /\ KeyUses(k) \in SUBSET (1 .. Len(log)) /\ KeyUses(k) \subseteq DOMAIN log
        BY LogStep DEF KeyUses
      <4>2. Max(KeyUses(k)) \in DOMAIN log
        BY <3>4, <4>1, MaxOfPositions
      <4> QED
        BY <4>2, LogStep
    <3> QED
      BY <2>3, <3>3, <3>4, <3>5
  <2> QED
    BY <2>1, <2>2, <2>3, UsesStep
<1>5. ASSUME mode' = "up", NEW k \in Key, keys'[k] # None, keys'[k].state # "pending",
             Closed(keys[k].rid)' # {}
      PROVE  KeyState(keys[k].rid)' = keys'[k].state
  <2>1. CASE FinishStart
    <3>1. keys' = RebuiltKeys /\ log' = log
      BY <2>1 DEF FinishStart, durable
    <3>2. RebuiltKeys[k].state = KeyState(RebuiltKeys[k].rid)
      BY <1>5, <3>1 DEF RebuiltKeys
    <3>3. PICK r : r = keys'[k].rid
      OBVIOUS
    <3>4. KeyState(r)' = KeyState(r)
      BY <3>1 DEF KeyState, Closed, Means
    <3> QED
      BY <3>1, <3>2, <3>3, <3>4
  <2>2. CASE keys'[k] = keys[k] /\ ~FinishStart
    <3>1. mode = "up" /\ keys[k] # None /\ keys[k].state # "pending"
      BY <1>5, <2>2, ServesAfterStart
    <3>2. PICK r \in Req : r = keys[k].rid /\ ~Closes(r)
      BY <3>1, SettledStays
    <3>3. Closed(r)' = Closed(r) /\ KeyState(r)' = KeyState(r)
      BY <3>2, KeyStateKept
    <3>4. Closed(r) # {}
      BY <1>5, <2>2, <3>2, <3>3 DEF Closed
    <3>5. KeyState(r) = keys[k].state
      BY <3>1, <3>2, <3>4 DEF AnswerInv
    <3> QED
      BY <2>2, <3>2, <3>3, <3>5 DEF KeyState, Closed
  <2>3. ASSUME NEW r \in Req, UpdateKey(r), KeyOf(r) = k
        PROVE  KeyState(keys[k].rid)' = keys'[k].state
    <3>1. keys'[k] = [rid |-> r, state |-> StateAfter(r)] /\ log' = log
      BY <2>3, SettledEntry DEF UpdateKey, durable
    <3>2. Closed(r)' = Closed(r) /\ KeyState(r)' = KeyState(r)
      BY <3>1 DEF KeyState, Closed, Means
    <3>3. Closed(r) # {}
      BY <1>5, <3>1, <3>2 DEF Closed
    <3>4. KeyState(r) = StateAfter(r)
      BY <2>3, <3>3, SettledAsRecorded
    <3> QED
      BY <3>1, <3>2, <3>4 DEF KeyState, Closed
  <2>4. ASSUME NEW r \in Req, UpdateKey(r), KeyOf(r) # k PROVE keys'[k] = keys[k]
    BY <2>4, PreparedRequests DEF UpdateKey, TypeOK
  <2>5. ASSUME NEW r \in Req, keys' = PendingKey(r) PROVE keys'[k] = keys[k]
    BY <1>5, <2>5 DEF PendingKey, TypeOK
  <2>6. ~Crash
    BY <1>5 DEF Crash
  <2> QED
    BY <2>1, <2>2, <2>3, <2>4, <2>5, <2>6, KeysStep
<1> QED
  BY <1>1, <1>2, <1>3, <1>4, <1>5 DEF AnswerInv

\* No key is answered at first.
LEMMA AnswerInit == Init => AnswerInv
BY DEF Init, AnswerInv, Running

\* The invariant about the key table holds in every reachable state.
LEMMA AnswersKept == Spec => [](IInv /\ CloseInv /\ AnswerInv)
<1>1. Init => AnswerInv
  BY AnswerInit
<1>2. IInv /\ IInv' /\ CloseInv /\ AnswerInv /\ [Next]_vars => AnswerInv'
  BY AnswerStep DEF IInv
<1> QED
  BY <1>1, <1>2, ClosedOnceEach, PTL DEF Spec

\* What a key answers does not depend on a restart: the answer in memory, once settled
\* and recorded, is the one reconcile_pending would rebuild from the log.
THEOREM AnswersSurviveRestart == Spec => []RestartKeepsAnswers
<1>1. IInv /\ CloseInv /\ AnswerInv => RestartKeepsAnswers
  <2> SUFFICES ASSUME IInv, CloseInv, AnswerInv, mode = "up", NEW k \in Key, keys[k] # None,
                      keys[k].state # "pending", keys[k].rid \notin Open
               PROVE  RebuiltKeys[k] = keys[k]
    BY DEF RestartKeepsAnswers
  <2>1. /\ KeyUses(k) # {} /\ log[Max(KeyUses(k))].rid = keys[k].rid
    BY DEF AnswerInv
  <2>2. keys[k].rid \in Req /\ Has(keys[k].rid)
    BY <2>1, LastUse DEF IInv
  <2>3. Closed(keys[k].rid) # {}
    BY <2>2, HasIsPrepared DEF Open
  <2>4. KeyState(keys[k].rid) = keys[k].state
    BY <2>3 DEF AnswerInv
  <2>5. keys[k] = [rid |-> keys[k].rid, state |-> keys[k].state]
    BY DEF IInv, TypeOK, KeyEntry
  <2> QED
    BY <2>1, <2>4, <2>5 DEF RebuiltKeys
<1> QED
  BY <1>1, AnswersKept, PTL

-----------------------------------------------------------------------------
(* What the workspace holds, where the log is serial.                      *)

\* the changes of a path that the log shows, and what it says the path holds
ChangesOf(p)     == {r \in Req : Prepared(r) # {} /\ Changes(r) /\ Target(r) = p}
LoggedContent(p) == IF Latest(p) = None THEN Absent ELSE Intended(Latest(p))

\* SerialLog of a log that still grows: every change is closed before the next is prepared
SerialSoFar(p) ==
    \A r, s \in ChangesOf(p) : \A i \in Prepared(r), j \in Prepared(s) :
        r # s /\ i < j => \E k \in Closed(r) : k < j

Holds(r)    == files[Target(r)].content = Intended(r)
Succeeds(e) == e.effect = "succeeded" \/ e.verdict = "confirmedSuccess"

\* A path holds what the log says, or what the one open change intended; and what a
\* thread is about to record of its own change is what the path holds.
WorldInv ==
    /\ \A r \in Req : pc[r] = "fetched" => ~Changes(r)
    /\ foreign = 0 =>
        /\ \A p \in Path : SerialSoFar(p) =>
              files[p].content = LoggedContent(p) \/ \E r \in ChangesOf(p) \cap Open : Holds(r)
        /\ \A r \in Req :
              Changes(r) /\ pc[r] \in {"executed", "reconciled"} /\ SerialSoFar(Target(r)) =>
                  /\ effect[r] = "succeeded" => Holds(r)
                  /\ pc[r] = "reconciled" => (verdict[r] = "confirmedSuccess" <=> Holds(r))

\* Where the log is serial, one change of a path is open at a time.
LEMMA OneOpen ==
    ASSUME TypeOK, NEW p \in Path, SerialSoFar(p),
           NEW r \in ChangesOf(p) \cap Open, NEW s \in ChangesOf(p) \cap Open
    PROVE  r = s
<1> SUFFICES ASSUME r # s PROVE FALSE
  OBVIOUS
<1>1. PICK i \in Prepared(r) : TRUE
  BY DEF ChangesOf
<1>2. PICK j \in Prepared(s) : TRUE
  BY DEF ChangesOf
<1>3. i \in Nat /\ j \in Nat /\ i # j
  BY LenProperties DEF TypeOK, Prepared
<1> QED
  BY <1>3 DEF SerialSoFar, Open

\* A thread that executes has a prepared record and no closing one.
LEMMA ExecutesOpen ==
    ASSUME IInv, CloseInv, NEW r \in Req, Running(r), pc[r] # "recorded"
    PROVE  r \in Open
BY HasIsPrepared DEF IInv, KeyInv, CloseInv, Committed, Running, Open

\* What a prepared request proposed does not change.
LEMMA PreparedIsKept ==
    ASSUME IInv, [Next]_vars, NEW r, Prepared(r) # {}
    PROVE  /\ r \in Req /\ req'[r] = req[r]
           /\ Changes(r)' = Changes(r) /\ Target(r)' = Target(r) /\ Intended(r)' = Intended(r)
<1>1. r \in Req /\ req'[r] = req[r]
  BY HasIsPrepared, PreparedHasArrived, ProposalKept DEF IInv
<1> QED
  BY <1>1 DEF Changes, Target, Tool, Intended

\* A log that is serial was serial before.
LEMMA SerialBefore ==
    ASSUME IInv, [Next]_vars, NEW p \in Path, SerialSoFar(p)'
    PROVE  SerialSoFar(p)
<1> SUFFICES ASSUME NEW r \in ChangesOf(p), NEW s \in ChangesOf(p), NEW i \in Prepared(r),
                    NEW j \in Prepared(s), r # s, i < j
             PROVE  \E k \in Closed(r) : k < j
  BY DEF SerialSoFar
<1>1. /\ Len(log) \in Nat /\ DOMAIN log = 1 .. Len(log)
      /\ Closed(r)' \subseteq Closed(r) \cup {Len(log) + 1}
      /\ Prepared(r) \subseteq Prepared(r)' /\ Prepared(s) \subseteq Prepared(s)'
  BY LogStep DEF IInv, ChangesOf
<1>2. r \in ChangesOf(p)' /\ s \in ChangesOf(p)'
  BY <1>1, PreparedIsKept DEF ChangesOf
<1>3. PICK k \in Closed(r)' : k < j
  BY <1>1, <1>2 DEF SerialSoFar
<1>4. j \in 1 .. Len(log)
  BY <1>1 DEF Prepared
<1> QED
  BY <1>1, <1>3, <1>4

\* What a record that closes a request says of it does not change.
LEMMA ClosedIsKept ==
    ASSUME IInv, CloseInv, [Next]_vars, NEW i \in DOMAIN log,
           log[i].event \in {"outcome", "reconciled"}
    PROVE  log[i].rid \in Req /\ req'[log[i].rid] = req[log[i].rid]
<1> DEFINE r == log[i].rid
<1>1. r \in Req
  <2>1. log \in Seq(LogRecord)
    BY DEF IInv, TypeOK
  <2>2. log[i] \in LogRecord
    BY <2>1, ElementOfSeq, LenProperties
  <2> QED
    BY <2>2 DEF LogRecord
<1>2. i \in Closed(r)
  BY DEF Closed
<1>3. Prepared(r) # {}
  BY <1>1, <1>2 DEF CloseInv
<1>4. Has(r)
  BY <1>1, <1>3, HasIsPrepared
<1>5. pc[r] # "idle"
  BY <1>4, PreparedHasArrived DEF IInv
<1> QED
  BY <1>1, <1>5, ProposalKept DEF IInv

\* The records that count for a path: the old ones, and the new one if it closes a change
\* of the path with success.
LEMMA SuccessesStep ==
    ASSUME IInv, CloseInv, [Next]_vars, NEW p \in Path
    PROVE  LET n == Len(log) + 1
           IN  /\ n \notin Successes(p)' => /\ Latest(p)' = Latest(p)
                                            /\ LoggedContent(p)' = LoggedContent(p)
               /\ n \in Successes(p)' => \E r \in Req :
                     Closes(r) /\ Changes(r) /\ Target(r) = p /\ Latest(p)' = r
<1> DEFINE n == Len(log) + 1
<1>1. /\ Len(log) \in Nat /\ DOMAIN log = 1 .. Len(log)
      /\ \A i \in DOMAIN log : i \in DOMAIN log' /\ log'[i] = log[i]
  BY LogStep DEF IInv
<1>2. DOMAIN log' \subseteq 1 .. n
  <2>1. ASSUME NEW e \in LogRecord, log' = Append(log, e) PROVE DOMAIN log' = 1 .. n
    BY <2>1, AppendRecord DEF IInv, TypeOK
  <2> QED
    BY <1>1, <2>1, LogGrows DEF IInv
<1>3. \A i \in DOMAIN log : i \in Successes(p)' <=> i \in Successes(p)
  <2> SUFFICES ASSUME NEW i \in DOMAIN log PROVE i \in Successes(p)' <=> i \in Successes(p)
    OBVIOUS
  <2>1. log'[i] = log[i] /\ i \in DOMAIN log'
    BY <1>1
  <2>2. log[i].event \in {"outcome", "reconciled"} => req'[log[i].rid] = req[log[i].rid]
    BY ClosedIsKept
  <2> QED
    BY <2>1, <2>2 DEF Successes, Changes, Target, Tool
<1>4. Successes(p) \subseteq DOMAIN log /\ Successes(p)' \subseteq DOMAIN log'
  BY DEF Successes
<1>5. CASE n \notin Successes(p)'
  <2>0. \A i \in Successes(p)' : i \in DOMAIN log
    <3> SUFFICES ASSUME NEW i \in Successes(p)' PROVE i \in DOMAIN log
      OBVIOUS
    <3>1. i \in 1 .. n /\ i # n
      BY <1>2, <1>4, <1>5
    <3> QED
      BY <1>1, <3>1
  <2>1. Successes(p)' = Successes(p)
    BY <1>3, <1>4, <2>0
  <2>2. CASE Successes(p) = {}
    BY <2>1, <2>2, <1>5 DEF Latest, LoggedContent
  <2>3. CASE Successes(p) # {}
    <3>1. Max(Successes(p)) \in Successes(p)
      BY <1>1, <1>4, <2>3, MaxOfPositions
    <3>2. Latest(p)' = log'[Max(Successes(p))].rid /\ Latest(p) = log[Max(Successes(p))].rid
      BY <2>1, <2>3 DEF Latest, Max
    <3>3. Latest(p)' = Latest(p)
      BY <1>1, <1>4, <3>1, <3>2
    <3>4. req'[Latest(p)] = req[Latest(p)]
      BY <1>4, <3>1, <3>2, ClosedIsKept DEF Successes
    <3>5. LoggedContent(p)' = LoggedContent(p)
      BY <3>3, <3>4 DEF LoggedContent, Intended, Tool
    <3> QED
      BY <1>5, <3>3, <3>5
  <2> QED
    BY <2>2, <2>3
<1>6. CASE n \in Successes(p)'
  <2> DEFINE S == Successes(p)'
  <2>1. n \in Nat /\ S \in SUBSET (1 .. n) /\ n \in S /\ \A j \in S : j <= n
    BY <1>1, <1>2, <1>4, <1>6
  <2> HIDE DEF S, n
  <2>2. Max(S) = n
    BY <2>1, MaxIsLast
  <2> USE DEF S, n
  <2>3. Latest(p)' = log'[n].rid
    BY <1>6, <2>2 DEF Latest, Max
  <2>4. n \in DOMAIN log' /\ log'[n].event \in {"outcome", "reconciled"}
    BY <1>6 DEF Successes
  <2>5. log'[n] \in LogRecord
    <3>1. log' \in Seq(LogRecord)
      BY TypeStep DEF IInv, TypeOK
    <3> QED
      BY <2>4, <3>1, ElementOfSeq, LenProperties
  <2>6. PICK r \in Req : r = log'[n].rid
    BY <2>5 DEF LogRecord
  <2>7. n \in Closed(r)' /\ n \notin Closed(r)
    BY <1>1, <2>4, <2>6 DEF Closed
  <2>8. Closes(r)
    BY <2>7, LogStep DEF IInv
  <2>9. Changes(r)' /\ Target(r)' = p
    BY <1>6, <2>6 DEF Successes, Changes, Target, Tool
  <2>10. Changes(r) /\ Target(r) = p
    BY <2>8, <2>9, ClosesOpen, PreparedIsKept DEF IInv
  <2> QED
    BY <1>6, <2>3, <2>6, <2>8, <2>10
<1> QED
  BY <1>5, <1>6

\* A closing record of a change counts for its path if it says that the change succeeded.
LEMMA NewSuccess ==
    ASSUME IInv, CloseInv, [Next]_vars, NEW p \in Path,
           NEW r \in Req, Closes(r), Changes(r), Target(r) = p
    PROVE  LET n == Len(log) + 1 IN n \in Successes(p)' <=> Succeeds(log'[n])
<1> DEFINE n == Len(log) + 1
<1>1. PICK e \in LogRecord : Recorded(e) /\ e.rid = r /\ e.event \in {"outcome", "reconciled"}
  <2>0. \E v \in Verdict : TRUE
    BY DEF Verdict
  <2>1. CASE OutcomeBy(r)
    BY <2>0, <2>1, EntryTypes DEF OutcomeBy, Entry, IInv
  <2>2. CASE ClosedAtStart(r)
    BY <2>2, EntryTypes DEF ClosedAtStart, Entry, IInv
  <2> QED
    BY <2>1, <2>2 DEF Closes
<1>2. n \in DOMAIN log' /\ log'[n] = e
  BY <1>1, LogAfter DEF IInv
<1>3. req'[r] = req[r]
  BY ClosesOpen, PreparedIsKept DEF IInv
<1>4. r = log'[n].rid /\ log'[n].event \in {"outcome", "reconciled"}
  BY <1>1, <1>2
<1>5. Changes(r)' /\ Target(r)' = p
  BY <1>3 DEF Changes, Target, Tool
<1> HIDE DEF n
<1>6. n \in Successes(p)' <=> Succeeds(log'[n])
  BY <1>2, <1>4, <1>5 DEF Successes, Succeeds, Changes, Target, Tool
<1> QED
  BY <1>6 DEF n

\* Where the log is serial, a change is closed with success exactly if its path holds what
\* it intended, by its own thread and at a restart, whatever the effect reported.
LEMMA ClosedAsItHolds ==
    ASSUME "observe" \notin Faults, IInv, CloseInv, AttestInv, WorldInv, foreign = 0,
           NEW r \in Req, Closes(r), Changes(r), SerialSoFar(Target(r))
    PROVE  Succeeds(log'[Len(log) + 1]) <=> Holds(r)
<1>0. \E v \in Verdict : TRUE
  BY DEF Verdict
<1>1. CASE OutcomeBy(r)
  <2>1. log'[Len(log) + 1] = Entry("outcome", r, before[r], effect[r], verdict[r])
    BY <1>0, <1>1, EntryTypes, LogAfter DEF OutcomeBy, IInv
  <2>2. pc[r] = "reconciled"
    BY <1>1 DEF OutcomeBy, RecordOutcome
  <2> QED
    BY <2>1, <2>2 DEF WorldInv, Succeeds, Entry
<1>2. CASE ClosedAtStart(r)
  <2>1. PICK v \in StartVerdicts(r) : Recorded(Entry("reconciled", r, None, "none", v))
    BY <1>2 DEF ClosedAtStart, ReconcilePending, Recorded
  <2>2. v \in Verdict
    BY <2>1, ReconcileType DEF StartVerdicts, Verdict
  <2>3. log'[Len(log) + 1] = Entry("reconciled", r, None, "none", v)
    BY <2>1, <2>2, EntryTypes, LogAfter DEF IInv
  <2>4. \E b : v = Reconcile(b, Intended(r), files[Target(r)].content)
    <3>1. Target(r) \in Path
      BY ClosesOpen, HasIsPrepared, PreparedHasArrived DEF IInv, TypeOK, Target, Proposal, Invocation
    <3>2. ~files[Target(r)].link
      BY <3>1 DEF AttestInv
    <3> QED
      BY <2>1, <3>2 DEF StartVerdicts, Observations
  <2>5. files[Target(r)].content # Unavailable
    <3>1. pc[r] # "idle" /\ r \in Req
      BY ClosesOpen, HasIsPrepared, PreparedHasArrived DEF IInv
    <3>2. Target(r) \in Path
      BY <3>1 DEF IInv, TypeOK, Target, Proposal, Invocation
    <3> QED
      BY <3>2, ConstantsAssumption DEF IInv, TypeOK, File
  <2>6. v = "confirmedSuccess" <=> Holds(r)
    BY <2>4, <2>5 DEF Reconcile, Holds
  <2> QED
    BY <2>3, <2>6 DEF Succeeds, Entry
<1> QED
  BY <1>1, <1>2 DEF Closes

\* Without a foreign actor, only an effect of the broker changes the workspace.
LEMMA OwnFiles ==
    ASSUME IInv, CloseInv, [Next]_vars, foreign' = 0
    PROVE  /\ foreign = 0
           /\ \A p \in Path :
                 \/ files'[p] = files[p]
                 \/ \E r \in Req : /\ ExecWrite(r) \/ ExecDelete(r)
                                  /\ r \in ChangesOf(p) \cap Open
                                  /\ files'[p].content = Intended(r)
<1>1. foreign = 0 /\ ~(\E q \in Path : Foreign(q))
  BY OwnStep DEF IInv
<1>2. files' = files \/ \E r \in Req : ExecWrite(r) \/ ExecDelete(r)
  BY <1>1 DEF Next, vars, Thread, Arrive, Refuse, AnswerDuplicate, Admit, ObserveBefore,
     RecordPrepared, ExecRead, ReadVerdict, ExecHttp, ExecFails, ObserveAfter,
     RecordOutcome, UpdateKey, ReconcilePending, FinishStart, Crash, Done, durable
<1>3. ASSUME NEW p \in Path, NEW r \in Req, ExecWrite(r) \/ ExecDelete(r), files'[p] # files[p]
      PROVE  r \in ChangesOf(p) \cap Open /\ files'[p].content = Intended(r)
  <2>1. pc[r] = "prepared" /\ Changes(r)
    BY <1>3 DEF ExecWrite, ExecDelete, Changes
  <2>2. r \in Open
    BY <2>1, ExecutesOpen DEF Running
  <2>3. Target(r) = p /\ files'[p].content = Intended(r)
    BY <1>3 DEF ExecWrite, ExecDelete, IInv, TypeOK, Written, NoFile, Intended
  <2> QED
    BY <2>1, <2>2, <2>3 DEF ChangesOf, Open
<1> QED
  BY <1>1, <1>2, <1>3

\* Every step leaves a path with what the log says, or with what the open change intended.
LEMMA PathStep ==
    ASSUME "observe" \notin Faults, IInv, CloseInv, AttestInv, WorldInv, [Next]_vars, foreign' = 0,
           NEW p \in Path, SerialSoFar(p)'
    PROVE  \/ files'[p].content = LoggedContent(p)'
           \/ \E r \in (ChangesOf(p) \cap Open)' : Holds(r)'
<1> DEFINE n == Len(log) + 1
<1>0. foreign = 0 /\ SerialSoFar(p)
  BY OwnFiles, SerialBefore
<1>1. ASSUME NEW r \in Req, ExecWrite(r) \/ ExecDelete(r), r \in ChangesOf(p) \cap Open,
             files'[p].content = Intended(r)
      PROVE  r \in (ChangesOf(p) \cap Open)' /\ Holds(r)'
  <2>1. log' = log /\ req' = req
    BY <1>1 DEF ExecWrite, ExecDelete
  <2> QED
    BY <1>1, <2>1 DEF ChangesOf, Open, Prepared, Closed, Holds, Changes, Target, Tool, Intended
<1>2. CASE files'[p] = files[p]
  <2>1. CASE n \in Successes(p)'
    <3>1. PICK r \in Req : Closes(r) /\ Changes(r) /\ Target(r) = p /\ Latest(p)' = r
      BY <2>1, SuccessesStep
    <3>2. Holds(r)
      BY <1>0, <2>1, <3>1, NewSuccess, ClosedAsItHolds
    <3>3. Intended(r)' = Intended(r)
      BY <3>1, ClosesOpen, PreparedIsKept DEF IInv
    <3>4. r # None
      BY NoneAssumption
    <3> QED
      BY <1>2, <3>1, <3>2, <3>3, <3>4 DEF Holds, LoggedContent, Intended, Tool
  <2>2. CASE n \notin Successes(p)' /\ files[p].content = LoggedContent(p)
    BY <1>2, <2>2, SuccessesStep
  <2>3. ASSUME n \notin Successes(p)', NEW r \in ChangesOf(p) \cap Open, Holds(r)
        PROVE  r \in (ChangesOf(p) \cap Open)' /\ Holds(r)'
    <3>1. r \in Req /\ Changes(r) /\ Target(r) = p /\ Prepared(r) # {} /\ Closed(r) = {}
      BY DEF ChangesOf, Open
    <3>2. ~Closes(r)
      BY <1>0, <2>3, <3>1, NewSuccess, ClosedAsItHolds
    <3>3. Closed(r)' = {} /\ Prepared(r)' # {}
      BY <3>1, <3>2, LogStep DEF IInv
    <3>4. Changes(r)' /\ Target(r)' = p /\ Intended(r)' = Intended(r)
      BY <3>1, PreparedIsKept
    <3>5. Holds(r)'
      BY <1>2, <2>3, <3>1, <3>4 DEF Holds
    <3> QED
      BY <3>1, <3>3, <3>4, <3>5 DEF ChangesOf, Open
  <2> QED
    BY <1>0, <2>1, <2>2, <2>3 DEF WorldInv
<1> QED
  BY <1>1, <1>2, OwnFiles

\* The steps that bring a thread to where it holds an effect and perhaps a verdict.
LEMMA ThreadMoves ==
    ASSUME IInv, WorldInv, [Next]_vars, NEW r \in Req
    PROVE  /\ pc'[r] = "fetched" => ~Changes(r)'
           /\ pc'[r] \in {"executed", "reconciled"} /\ Changes(r)' =>
                 \/ ExecWrite(r) \/ ExecDelete(r) \/ ExecFails(r) \/ ObserveAfter(r)
                 \/ pc'[r] = pc[r] /\ effect'[r] = effect[r] /\ verdict'[r] = verdict[r]
<1> DEFINE Kept == pc'[r] = pc[r] /\ effect'[r] = effect[r] /\ verdict'[r] = verdict[r]
           Elsewhere == pc'[r] \notin {"fetched", "executed", "reconciled"}
<1>1. ASSUME NEW s \in Req, Thread(s), s # r PROVE Kept /\ Changes(r)' = Changes(r)
  BY <1>1 DEF IInv, TypeOK, Thread, Refuse, AnswerDuplicate, Admit, ObserveBefore, RecordPrepared,
       ExecWrite, ExecDelete, ExecRead, ReadVerdict, ExecHttp, ExecFails, ObserveAfter,
       RecordOutcome, UpdateKey, Changes, Tool
<1>2. CASE Thread(r)
  <2>1. CASE ExecRead(r) \/ ReadVerdict(r) \/ ExecHttp(r)
    <3>1. ~Changes(r)' /\ pc'[r] # "idle"
      BY <2>1 DEF ExecRead, ReadVerdict, ExecHttp, Changes, Tool, WorldInv, IInv, TypeOK
    <3> QED
      BY <3>1
  <2>2. CASE ExecWrite(r) \/ ExecDelete(r) \/ ExecFails(r) \/ ObserveAfter(r)
    <3>1. pc'[r] # "fetched"
      BY <2>2 DEF ExecWrite, ExecDelete, ExecFails, ObserveAfter, IInv, TypeOK
    <3> QED
      BY <2>2, <3>1
  <2>3. CASE Refuse(r) \/ AnswerDuplicate(r) \/ Admit(r) \/ ObserveBefore(r) \/ RecordPrepared(r)
             \/ RecordOutcome(r) \/ UpdateKey(r)
    <3>1. Elsewhere
      BY <2>3 DEF Refuse, AnswerDuplicate, Admit, ObserveBefore, RecordPrepared, RecordOutcome,
           UpdateKey, IInv, TypeOK
    <3> QED
      BY <3>1
  <2> QED
    BY <1>2, <2>1, <2>2, <2>3 DEF Thread
<1>3. ASSUME NEW s \in Req, Arrive(s) PROVE Elsewhere \/ (Kept /\ Changes(r)' = Changes(r))
  BY <1>3 DEF Arrive, IInv, TypeOK, Changes, Tool
<1>4. CASE ~(\E s \in Req : Thread(s) \/ Arrive(s))
  <2>1. Elsewhere \/ (Kept /\ Changes(r)' = Changes(r))
    BY <1>4 DEF IInv, TypeOK, Next, vars, ReconcilePending, FinishStart, Crash, Done, Foreign,
         Changes, Tool
  <2> QED
    BY <2>1 DEF WorldInv
<1> QED
  BY <1>1, <1>2, <1>3, <1>4 DEF WorldInv

\* What a thread is about to record of its own change stays what the path holds.
LEMMA ThreadWorldStep ==
    ASSUME "observe" \notin Faults, IInv, CloseInv, AttestInv, WorldInv, [Next]_vars, foreign' = 0,
           NEW r \in Req, Changes(r)', pc'[r] \in {"executed", "reconciled"},
           NEW p \in Path, Target(r)' = p, SerialSoFar(p)'
    PROVE  /\ effect'[r] = "succeeded" => Holds(r)'
           /\ pc'[r] = "reconciled" => (verdict'[r] = "confirmedSuccess" <=> Holds(r)')
<1>0. foreign = 0 /\ SerialSoFar(p)
  BY OwnFiles, SerialBefore
<1>1. CASE ExecWrite(r) \/ ExecDelete(r)
  <2>1. req' = req /\ Target(r) = p
    BY <1>1 DEF ExecWrite, ExecDelete, Target
  <2>2. pc'[r] = "executed"
    BY <1>1 DEF ExecWrite, ExecDelete, IInv, TypeOK
  <2>3. effect'[r] = "succeeded" => files'[p].content = Intended(r)
    BY <1>1, <2>1 DEF ExecWrite, ExecDelete, IInv, TypeOK, Written, NoFile, Intended
  <2> QED
    BY <2>1, <2>2, <2>3 DEF Holds, Intended, Target, Tool
<1>2. CASE ExecFails(r)
  BY <1>2 DEF ExecFails, IInv, TypeOK
<1>3. CASE ObserveAfter(r)
  <2>1. /\ req' = req /\ files' = files /\ effect' = effect /\ pc[r] = "executed"
        /\ Changes(r) /\ Target(r) = p
    BY <1>3 DEF ObserveAfter, durable, Changes, Target, Tool
  <2>2. Holds(r)' <=> Holds(r)
    BY <2>1 DEF Holds, Intended, Target, Tool
  <2>3. verdict'[r] = Reconcile(before[r], Intended(r), files[p].content)
    BY <1>0, <1>3, <2>1 DEF ObserveAfter, Observations, IInv, TypeOK, AttestInv
  <2>4. files[p].content # Unavailable
    BY ConstantsAssumption DEF IInv, TypeOK, File
  <2>5. verdict'[r] = "confirmedSuccess" <=> Holds(r)
    BY <2>1, <2>3, <2>4 DEF Reconcile, Holds
  <2> QED
    BY <1>0, <2>1, <2>2, <2>5 DEF WorldInv
<1>4. CASE pc'[r] = pc[r] /\ effect'[r] = effect[r] /\ verdict'[r] = verdict[r]
  <2>1. r \in Open
    BY <1>4, ExecutesOpen DEF Running
  <2>2. Changes(r) /\ Target(r) = p /\ Intended(r)' = Intended(r) /\ r \in ChangesOf(p)
    BY <2>1, PreparedIsKept DEF Open, ChangesOf
  <2>3. ASSUME NEW s \in Req, ExecWrite(s) \/ ExecDelete(s), s \in ChangesOf(p) \cap Open
        PROVE  FALSE
    <3>1. s = r
      BY <1>0, <2>1, <2>2, <2>3, OneOpen DEF IInv
    <3> QED
      BY <1>4, <2>3, <3>1 DEF ExecWrite, ExecDelete
  <2>4. files'[p] = files[p]
    BY <2>3, OwnFiles
  <2>5. Holds(r)' <=> Holds(r)
    BY <2>2, <2>4 DEF Holds
  <2> QED
    BY <1>0, <1>4, <2>2, <2>5 DEF WorldInv
<1> QED
  BY <1>1, <1>2, <1>3, <1>4, ThreadMoves

\* Every step keeps the workspace what a serial log says it is.
LEMMA WorldStep ==
    ASSUME "observe" \notin Faults, IInv, CloseInv, AttestInv, WorldInv, [Next]_vars
    PROVE  WorldInv'
<1>1. ASSUME foreign' = 0, NEW r \in Req, Changes(r)', pc'[r] \in {"executed", "reconciled"},
             SerialSoFar(Target(r))'
      PROVE  /\ effect'[r] = "succeeded" => Holds(r)'
             /\ pc'[r] = "reconciled" => (verdict'[r] = "confirmedSuccess" <=> Holds(r)')
  <2>1. PICK p \in Path : Target(r)' = p
    <3>1. req'[r] \in Proposal
      BY <1>1, TypeStep DEF IInv, TypeOK
    <3> QED
      BY <3>1 DEF Target, Proposal, Invocation
  <2>2. SerialSoFar(p)'
    BY <1>1, <2>1
  <2> QED
    BY <1>1, <2>1, <2>2, ThreadWorldStep
<1> QED
  BY <1>1, PathStep, ThreadMoves DEF WorldInv

\* An empty log and an empty workspace agree.
LEMMA WorldInit == Init => WorldInv
BY NoneAssumption DEF Init, WorldInv, NoFile, LoggedContent, Latest, Successes

\* The invariant about the workspace holds in every reachable state.
LEMMA WorldKept ==
    ASSUME "observe" \notin Faults
    PROVE  Spec => [](IInv /\ CloseInv /\ AttestInv /\ WorldInv)
<1>1. Init => WorldInv
  BY WorldInit
<1>2. IInv /\ CloseInv /\ AttestInv /\ WorldInv /\ [Next]_vars => WorldInv'
  BY WorldStep
<1> QED
  BY <1>1, <1>2, Attested, ClosedOnceEach, PTL DEF Spec

\* The latest entry of a path is the one of a prepared request.
LEMMA LatestPrepared ==
    ASSUME IInv, CloseInv, NEW p \in Path, Latest(p) # None
    PROVE  Latest(p) \in Req /\ Prepared(Latest(p)) # {}
<1>1. Len(log) \in Nat /\ DOMAIN log = 1 .. Len(log)
  BY LenProperties DEF IInv, TypeOK
<1>2. Successes(p) \in SUBSET (1 .. Len(log)) /\ Successes(p) # {}
  BY <1>1 DEF Latest, Successes
<1>3. Max(Successes(p)) \in Successes(p)
  BY <1>1, <1>2, MaxOfPositions
<1>4. Max(Successes(p)) \in Closed(Latest(p))
  BY <1>2, <1>3 DEF Latest, Successes, Closed
<1> QED
  BY <1>4, LatestChanges DEF CloseInv, IInv

\* Where the log shows one recorded change of a path at a time, no foreign actor was at
\* work and every target could be observed, verify_world reports nothing at rest but an
\* attestation superseded or not taken, and then the file holds what the latest entry
\* intended, whatever effect failed and wherever the process died.
THEOREM SerialWorldIsLogged == Spec => []SerialWorldMatchesLog
<1> SUFFICES ASSUME "observe" \notin Faults PROVE Spec => []SerialWorldMatchesLog
  <2>1. CASE "observe" \in Faults
    <3>1. SerialWorldMatchesLog
      BY <2>1 DEF SerialWorldMatchesLog
    <3> QED
      BY <3>1, PTL
  <2> QED
    BY <2>1
<1>1. IInv /\ CloseInv /\ AttestInv /\ WorldInv => SerialWorldMatchesLog
  <2> SUFFICES ASSUME IInv, CloseInv, AttestInv, WorldInv, foreign = 0, NEW p \in Path, SerialLog(p)
               PROVE  /\ Findings(p) \subseteq {"stale", "unattested"}
                      /\ Findings(p) # {} => files[p].content = req[Latest(p)].inv.content
    BY DEF SerialWorldMatchesLog
  <2> USE NoneAssumption, ConstantsAssumption
  <2> DEFINE l == Latest(p)
  <2>1. SerialSoFar(p) /\ \A r \in ChangesOf(p) : r \notin Open
    <3>1. \A r \in ChangesOf(p) : Closed(r) # {}
      BY DEF SerialLog, ChangesOf
    <3>2. ASSUME NEW r \in ChangesOf(p), NEW s \in ChangesOf(p), NEW i \in Prepared(r),
                 NEW j \in Prepared(s), r # s, i < j
          PROVE  \E k \in Closed(r) : k < j
      <4>1. PICK k \in Closed(r) : TRUE
        BY <3>1
      <4>2. j < i \/ k < j
        BY <3>2, <4>1 DEF SerialLog, ChangesOf
      <4>3. i \in Nat /\ j \in Nat
        BY LenProperties DEF IInv, TypeOK, Prepared
      <4> QED
        BY <3>2, <4>1, <4>2, <4>3
    <3> QED
      BY <3>1, <3>2 DEF SerialSoFar, Open
  <2>2. files[p].content = LoggedContent(p)
    BY <2>1 DEF WorldInv
  <2>4. l # None => l \in Req /\ req[l] \in Proposal
    <3>1. l # None => l \in Req /\ pc[l] # "idle"
      BY LatestPrepared, HasIsPrepared, PreparedHasArrived DEF IInv
    <3> QED
      BY <3>1 DEF IInv, TypeOK
  <2>5. l # None /\ Tool(l) = "write" =>
           files[p].content = req[l].inv.content /\ files[p].content # Absent
    BY <2>2, <2>4 DEF LoggedContent, Intended, Tool, Proposal, Invocation
  <2>6. l # None /\ Tool(l) = "delete" => files[p].content = Absent
    BY <2>2 DEF LoggedContent, Intended, Tool
  <2>7. ~Reports(p, "gone") /\ ~Reports(p, "undeleted")
    BY <2>5, <2>6 DEF Reports, Looked, Readable
  <2>8. \A kind \in {"moved", "changed", "missing"} : ~Reports(p, kind)
    BY NotAccused DEF NoFalseTamper, Findings, FindingKinds
  <2>9. Findings(p) \subseteq {"stale", "unattested"}
    BY <2>7, <2>8 DEF Findings, FindingKinds
  <2>10. Reports(p, "stale") \/ Reports(p, "unattested") => l # None /\ Tool(l) = "write"
    BY DEF Reports, Superseded
  <2> QED
    BY <2>5, <2>9, <2>10 DEF Findings
<1> QED
  BY <1>1, WorldKept, PTL

-----------------------------------------------------------------------------
(* The audit, which reads the log and then the workspace.                  *)

\* the log as read is a part of the log
SeenInv ==
    /\ seen \in Seq(LogRecord) /\ DOMAIN seen \subseteq DOMAIN log
    /\ \A i \in DOMAIN seen : seen[i] = log[i]

\* what the audit holds in hand, and that a walk without a finding saw what the log says
LookInv ==
    /\ watched \in Path /\ look \in File
    /\ phase \in {"idle", "logRead", "listed"} => look = NoFile /\ found = {}
    /\ phase = "attRead" => /\ found = {} /\ look.content = Absent
                            /\ look.att \in minted /\ look.att.target = watched
    /\ phase \in {"walked", "done"} /\ found = {} /\ LatestRead # None =>
          \/ look.content = Intended(LatestRead)
          \/ /\ look = NoFile
             /\ still => IF phase = "walked" THEN ~Looked(watched)
                         ELSE files[watched].link \/ watched \in Private

\* an audit of a path at rest finds, step by step, what one look finds
RestInv ==
    still => /\ phase # "raised"
             /\ phase # "idle" => seen = log
             /\ phase \in {"listed", "attRead"} => Looked(watched)
             /\ phase = "attRead" => files[watched].att = look.att
             /\ phase = "walked" => found = Findings(watched) \ {"gone"}
             /\ phase = "done" => found = Findings(watched)

AuditInv == SeenInv /\ LookInv /\ RestInv

\* The log as it was read up to now is the log.
LEMMA ReadWhole ==
    ASSUME seen = log
    PROVE  LatestRead = Latest(watched) /\ AsRead!Logged = Logged
<1>1. AsRead!Successes(watched) = Successes(watched)
  BY DEF AsRead!Successes, Successes, AsRead!Changes, Changes, AsRead!Target, Target, AsRead!Tool, Tool
<1>2. LatestRead = Latest(watched)
  BY <1>1 DEF LatestRead, AsRead!Latest, Latest, AsRead!Max, Max
<1>3. AsRead!Logged = Logged
  BY DEF AsRead!Logged, Logged
<1> QED
  BY <1>2, <1>3

\* What the audit has read of the log keeps its meaning while the broker goes on.
LEMMA ReadIsKept ==
    ASSUME IInv, CloseInv, SeenInv, [Next]_vars, UNCHANGED <<seen, watched>>
    PROVE  /\ LatestRead' = LatestRead
           /\ LatestRead # None => /\ LatestRead \in Req /\ Changes(LatestRead)
                                   /\ req'[LatestRead] = req[LatestRead]
<1>1. \A i \in DOMAIN seen : seen[i].event \in {"outcome", "reconciled"} =>
          seen[i].rid \in Req /\ req'[seen[i].rid] = req[seen[i].rid]
  BY ClosedIsKept DEF SeenInv
<1>2. AsRead!Successes(watched)' = AsRead!Successes(watched)
  BY <1>1 DEF AsRead!Successes, AsRead!Changes, AsRead!Target, AsRead!Tool
<1>3. LatestRead' = LatestRead
  BY <1>2 DEF LatestRead, AsRead!Latest
<1>4. ASSUME LatestRead # None
      PROVE  /\ LatestRead \in Req /\ Changes(LatestRead) /\ req'[LatestRead] = req[LatestRead]
  <2>1. /\ AsRead!Successes(watched) # {}
        /\ LatestRead = seen[AsRead!Max(AsRead!Successes(watched))].rid
    BY <1>4 DEF LatestRead, AsRead!Latest
  <2>2. Len(seen) \in Nat /\ DOMAIN seen = 1 .. Len(seen)
    BY LenProperties DEF SeenInv
  <2>3. AsRead!Successes(watched) \in SUBSET (1 .. Len(seen))
    BY <2>2 DEF AsRead!Successes
  <2>4. Max(AsRead!Successes(watched)) \in AsRead!Successes(watched)
    BY <2>1, <2>2, <2>3, MaxOfPositions
  <2>5. AsRead!Max(AsRead!Successes(watched)) \in AsRead!Successes(watched)
    BY <2>4 DEF Max, AsRead!Max
  <2> QED
    BY <1>1, <2>1, <2>5 DEF AsRead!Successes, AsRead!Changes, Changes, AsRead!Tool, Tool
<1> QED
  BY <1>3, <1>4

\* A broker that touches neither the log nor the path leaves what verify_world reports.
LEMMA FindingsKept ==
    ASSUME IInv, CloseInv, SeenInv, [Next]_vars, UNCHANGED <<seen, watched>>, seen = log,
           log' = log, files'[watched] = files[watched]
    PROVE  Findings(watched)' = Findings(watched)
<1>1. /\ Latest(watched)' = Latest(watched)
      /\ Latest(watched) # None => Tool(Latest(watched))' = Tool(Latest(watched))
  <2>1. LatestRead = Latest(watched) /\ LatestRead' = LatestRead
    BY ReadWhole, ReadIsKept
  <2>2. LatestRead' = Latest(watched)'
    <3>1. AsRead!Successes(watched)' = Successes(watched)'
      BY DEF AsRead!Successes, Successes, AsRead!Changes, Changes, AsRead!Target, Target,
             AsRead!Tool, Tool
    <3> QED
      BY <3>1 DEF LatestRead, AsRead!Latest, Latest, AsRead!Max, Max
  <2>3. LatestRead # None => req'[LatestRead] = req[LatestRead]
    BY ReadIsKept
  <2> QED
    BY <2>1, <2>2, <2>3 DEF Tool
<1>2. Logged' = Logged
  BY DEF Logged
<1>3. \A kind \in FindingKinds : Reports(watched, kind)' = Reports(watched, kind)
  BY <1>1, <1>2 DEF Reports, Superseded, FindingKinds, Looked, Readable
<1> QED
  BY <1>3 DEF Findings

\* The log only grows under the audit.
LEMMA SeenStep ==
    ASSUME IInv, SeenInv, [Next]_vars, seen' \in {seen, log}
    PROVE  SeenInv'
<1>1. DOMAIN log \subseteq DOMAIN log' /\ \A i \in DOMAIN log : log'[i] = log[i]
  BY LogStep DEF IInv
<1>2. seen' \in Seq(LogRecord) /\ DOMAIN seen' \subseteq DOMAIN log'
      /\ \A i \in DOMAIN seen' : seen'[i] = log'[i]
  BY <1>1 DEF SeenInv, IInv, TypeOK
<1> QED
  BY <1>2 DEF SeenInv

\* Whatever the broker does between two steps of the audit, what the audit has in hand
\* stays what it was, and a change of the log or of the path is remembered.
LEMMA BrokerUnderAudit ==
    ASSUME IInv, CloseInv, AttestInv, AuditInv, Next, UNCHANGED audit,
           still' = (still /\ (phase = "idle" \/ (log' = log /\ files'[watched] = files[watched])))
    PROVE  LookInv' /\ RestInv'
<1> USE DEF audit
<1>1. minted \subseteq minted'
  BY MintedStep DEF IInv
<1>2. /\ LatestRead' = LatestRead
      /\ LatestRead # None => Intended(LatestRead)' = Intended(LatestRead)
  BY ReadIsKept DEF AuditInv, Intended, Tool
<1>3. still' => still /\ (phase # "idle" => log' = log /\ files'[watched] = files[watched])
  OBVIOUS
<1>4. LookInv'
  <2>1. still' /\ phase # "idle" => Looked(watched)' = Looked(watched)
    BY <1>3 DEF Looked, Readable
  <2> QED
    BY <1>1, <1>2, <1>3, <2>1 DEF AuditInv, LookInv
<1>5. RestInv'
  <2> SUFFICES ASSUME still' PROVE RestInv'
    BY DEF RestInv
  <2>1. CASE phase = "idle"
    BY <2>1 DEF RestInv
  <2>2. CASE phase # "idle"
    <3>1. Findings(watched)' = Findings(watched)
      BY <1>3, <2>2, FindingsKept DEF AuditInv, RestInv
    <3>2. Looked(watched)' = Looked(watched)
      BY <1>3, <2>2 DEF Looked, Readable
    <3> QED
      BY <1>3, <2>2, <3>1, <3>2 DEF AuditInv, RestInv
  <2> QED
    BY <2>1, <2>2
<1> QED
  BY <1>4, <1>5

\* The audit, step by step, reports what one look does, by what is at the path.
LEMMA ReportsByFile ==
    ASSUME IInv, watched \in Path, seen = log
    PROVE  LET f == files[watched]
           IN  /\ ~Looked(watched) => Findings(watched) =
                     {kind \in {"gone"} : Says("write") /\ f.content = Absent}
               /\ Looked(watched) /\ f.att = None => Findings(watched) = Unattested
               /\ Looked(watched) /\ f.att # None /\ f.att.target # watched =>
                     Findings(watched) = {"moved"}
               /\ Looked(watched) /\ f.att # None /\ f.att.target = watched =>
                     Findings(watched) = Altered(f.content, f.att) \cup Placed(f.att)
<1> DEFINE f == files[watched]
           l == Latest(watched)
<1>1. LatestRead = l /\ AsRead!Logged = Logged
  BY ReadWhole
<1>2. l # None => Tool(l) = "write" <=> Tool(l) # "delete"
  BY LatestChanges DEF IInv, Changes
<1>3. /\ Says("write") <=> l # None /\ Tool(l) = "write"
      /\ Says("delete") <=> l # None /\ Tool(l) = "delete"
  BY <1>1 DEF Says
<1>4. /\ "gone" \in Findings(watched) <=> f.content = Absent /\ Says("write")
      /\ "unattested" \in Findings(watched) <=> Looked(watched) /\ f.att = None /\ Says("write")
      /\ "undeleted" \in Findings(watched) <=>
            /\ Looked(watched) /\ Says("delete")
            /\ f.att = None \/ (f.att # None /\ f.att.target = watched /\ f.att.rid \in Logged)
      /\ "moved" \in Findings(watched) <=> Looked(watched) /\ f.att # None /\ f.att.target # watched
      /\ "changed" \in Findings(watched) <=>
            Looked(watched) /\ f.att # None /\ f.att.target = watched /\ f.content # f.att.digest
      /\ "missing" \in Findings(watched) <=>
            Looked(watched) /\ f.att # None /\ f.att.target = watched /\ f.att.rid \notin Logged
      /\ "stale" \in Findings(watched) <=>
            /\ Looked(watched) /\ f.att # None /\ f.att.target = watched /\ f.att.rid \in Logged
            /\ l \notin {None, f.att.rid} /\ Tool(l) = "write"
  BY <1>3 DEF Findings, FindingKinds, Reports, Superseded
<1>5. Findings(watched) \subseteq FindingKinds
  BY DEF Findings
<1>6. Looked(watched) => f.content # Absent
  BY DEF Looked, Readable
<1>7. ~Looked(watched) => Findings(watched) = {kind \in {"gone"} : Says("write") /\ f.content = Absent}
  BY <1>4, <1>5 DEF FindingKinds
<1>8. Looked(watched) /\ f.att = None => Findings(watched) = Unattested
  BY <1>4, <1>5, <1>6 DEF FindingKinds, Unattested
<1>9. Looked(watched) /\ f.att # None /\ f.att.target # watched => Findings(watched) = {"moved"}
  BY <1>4, <1>5, <1>6 DEF FindingKinds
<1>10. ASSUME Looked(watched), f.att # None, f.att.target = watched
       PROVE  Findings(watched) = Altered(f.content, f.att) \cup Placed(f.att)
  <2>1. f.content # Absent
    BY <1>6, <1>10
  <2>2. CASE f.att.rid \notin Logged
    <3>1. Placed(f.att) = {"missing"}
      BY <1>1, <2>2 DEF Placed
    <3> QED
      BY <1>4, <1>5, <1>10, <2>1, <2>2, <3>1 DEF FindingKinds, Altered
  <2>3. CASE f.att.rid \in Logged /\ Says("delete")
    <3>1. Placed(f.att) = {"undeleted"}
      BY <1>1, <2>3 DEF Placed
    <3> QED
      BY <1>2, <1>3, <1>4, <1>5, <1>10, <2>1, <2>3, <3>1 DEF FindingKinds, Altered
  <2>4. CASE f.att.rid \in Logged /\ ~Says("delete")
    <3>1. Placed(f.att) = {kind \in {"stale"} : l \notin {None, f.att.rid}}
      BY <1>1, <2>4 DEF Placed
    <3> QED
      BY <1>2, <1>3, <1>4, <1>5, <1>10, <2>1, <2>4, <3>1 DEF FindingKinds, Altered
  <2> QED
    BY <2>2, <2>3, <2>4
<1> QED
  BY <1>7, <1>8, <1>9, <1>10

\* What the audit reads of the log and then of the path, one step after the other, is what
\* one look would have found, as long as nothing changed meanwhile.
LEMMA AuditStep ==
    ASSUME IInv, CloseInv, AttestInv, AuditInv, Audit, UNCHANGED <<vars, still>>
    PROVE  LookInv' /\ RestInv' /\ seen' \in {seen, log}
<1> USE NoneAssumption
<1>0. /\ watched \in Path /\ look \in File /\ files[watched] \in File
      /\ files[watched].att \in minted \cup {None}
      /\ \A a \in minted : a \in Attestation /\ a # None
      /\ watched' = watched /\ files' = files /\ log' = log /\ req' = req /\ minted' = minted
  BY DEF AuditInv, LookInv, IInv, TypeOK, EvidenceInv, vars, Audit, ReadLog, List,
         ReadAttestation, ReadContent, CheckGone
<1>f. Findings(watched)' = Findings(watched)
  BY <1>0 DEF Findings, Reports, Superseded, Logged, Latest, Successes, Changes, Target, Tool,
         Looked, Readable
<1>n. NoFile \in File /\ NoFile.att = None /\ NoFile.content = Absent
  BY DEF NoFile, File
<1>l. Looked(watched)' = Looked(watched) /\ (Looked(watched) => files[watched].content # Absent)
  BY <1>0 DEF Looked, Readable
<1>r. still /\ phase # "idle" => seen = log
  BY DEF AuditInv, RestInv
<1>1. CASE ReadLog
  BY <1>0, <1>1 DEF ReadLog, AuditInv, LookInv, RestInv
<1>u. ASSUME UNCHANGED seen
      PROVE  /\ LatestRead' = LatestRead
             /\ LatestRead # None => /\ Intended(LatestRead)' = Intended(LatestRead)
                                     /\ Says("write") \/ Says("delete")
  <2>1. /\ LatestRead' = LatestRead
        /\ LatestRead # None => Changes(LatestRead) /\ req'[LatestRead] = req[LatestRead]
    BY <1>0, <1>u, ReadIsKept DEF AuditInv
  <2> QED
    BY <2>1 DEF Intended, Tool, Changes, Says
<1>2. CASE List
  <2>1. CASE ~Looked(watched)
    <3>1. still => Findings(watched) \ {"gone"} = {}
      BY <1>0, <1>r, <1>2, <2>1, ReportsByFile DEF List
    <3>2. LookInv'
      BY <1>0, <1>l, <1>2, <2>1 DEF List, AuditInv, LookInv
    <3>3. RestInv'
      BY <1>0, <1>2, <1>f, <2>1, <3>1 DEF List, AuditInv, LookInv, RestInv
    <3> QED
      BY <1>2, <3>2, <3>3 DEF List
  <2>2. CASE Looked(watched)
    BY <1>0, <1>l, <1>2, <2>2 DEF List, AuditInv, LookInv, RestInv
  <2> QED
    BY <2>1, <2>2
<1>3. CASE ReadAttestation
  <2>0. /\ phase = "listed" /\ seen' = seen /\ found = {} /\ look = NoFile
        /\ look' = [look EXCEPT !.att = files[watched].att]
        /\ still => Looked(watched) /\ seen = log
    BY <1>3, <1>r DEF ReadAttestation, AuditInv, LookInv, RestInv
  <2>l. look' \in File /\ look'.att = files[watched].att /\ look'.content = Absent
    BY <1>0, <1>n, <2>0 DEF File
  <2>1. CASE files[watched].att = None
    <3>1. phase' = "walked" /\ found' = Unattested
      BY <1>3, <2>0, <2>1 DEF ReadAttestation
    <3>2. found' = {} => LatestRead = None
      BY <1>u, <2>0, <3>1 DEF Unattested
    <3>3. still => Findings(watched) = Unattested
      BY <1>0, <2>0, <2>1, ReportsByFile
    <3>4. "gone" \notin Unattested
      BY DEF Unattested
    <3>5. LookInv'
      BY <1>0, <1>u, <2>0, <2>l, <3>1, <3>2 DEF LookInv
    <3>6. RestInv'
      BY <1>0, <1>f, <2>0, <3>1, <3>3, <3>4 DEF RestInv
    <3> QED
      BY <2>0, <3>5, <3>6
  <2>2. CASE files[watched].att # None /\ files[watched].att.target # watched
    <3>1. phase' = "walked" /\ found' = {"moved"}
      BY <1>3, <2>0, <2>2 DEF ReadAttestation
    <3>2. still => Findings(watched) = {"moved"}
      BY <1>0, <2>0, <2>2, ReportsByFile
    <3>3. LookInv'
      BY <1>0, <2>l, <3>1 DEF LookInv
    <3>4. RestInv'
      BY <1>0, <1>f, <2>0, <3>1, <3>2 DEF RestInv
    <3> QED
      BY <2>0, <3>3, <3>4
  <2>3. CASE files[watched].att # None /\ files[watched].att.target = watched
    <3>1. phase' = "attRead" /\ found' = found
      BY <1>3, <2>0, <2>3 DEF ReadAttestation
    <3>2. LookInv'
      BY <1>0, <2>0, <2>l, <2>3, <3>1 DEF LookInv
    <3>3. RestInv'
      BY <1>0, <1>l, <2>0, <2>l, <3>1 DEF RestInv
    <3> QED
      BY <2>0, <3>2, <3>3
  <2> QED
    BY <2>1, <2>2, <2>3
<1>4. CASE ReadContent
  <2>0. /\ phase = "attRead" /\ seen' = seen /\ found = {}
        /\ look.att \in minted /\ look.att # None /\ look.att.target = watched
        /\ still => Looked(watched) /\ files[watched].att = look.att /\ seen = log
    BY <1>0, <1>4, <1>r DEF ReadContent, AuditInv, LookInv, RestInv
  <2>1. CASE files[watched].content = Absent
    <3>1. phase' = "raised" /\ UNCHANGED <<look, found>>
      BY <1>4, <2>1 DEF ReadContent
    <3>2. ~still
      BY <1>l, <2>0, <2>1
    <3> QED
      BY <1>0, <2>0, <3>1, <3>2 DEF LookInv, RestInv
  <2>2. CASE files[watched].content # Absent
    <3>1. /\ phase' = "walked" /\ look' = [look EXCEPT !.content = files[watched].content]
          /\ found' = Altered(files[watched].content, look.att) \cup Placed(look.att)
      BY <1>4, <2>0, <2>2 DEF ReadContent
    <3>2. look' \in File /\ look'.content = files[watched].content
      BY <1>0, <3>1 DEF File
    <3>3. ASSUME found' = {}, LatestRead # None
          PROVE  files[watched].content = Intended(LatestRead)
      <4>1. files[watched].content = look.att.digest
        BY <3>1, <3>3 DEF Altered
      <4>2. ~Says("delete") /\ LatestRead = look.att.rid
        BY <3>1, <3>3 DEF Placed
      <4>3. Tool(LatestRead) = "write"
        BY <1>u, <2>0, <3>3, <4>2 DEF Says
      <4>4. look.att.digest = req[look.att.rid].inv.content
        BY <2>0, SignedContent
      <4> QED
        BY <4>1, <4>2, <4>3, <4>4 DEF Intended
    <3>4. still => Findings(watched) = Altered(files[watched].content, look.att) \cup Placed(look.att)
      BY <1>0, <2>0, ReportsByFile
    <3>5. "gone" \notin Altered(files[watched].content, look.att) \cup Placed(look.att)
      BY DEF Altered, Placed
    <3>6. LookInv'
      BY <1>0, <1>u, <2>0, <3>1, <3>2, <3>3 DEF LookInv
    <3>7. RestInv'
      BY <1>0, <1>f, <2>0, <3>1, <3>4, <3>5 DEF RestInv
    <3> QED
      BY <2>0, <3>6, <3>7
  <2> QED
    BY <2>1, <2>2
<1>5. CASE CheckGone
  <2>0. /\ phase = "walked" /\ phase' = "done" /\ seen' = seen /\ look' = look
        /\ found' = found \cup {kind \in {"gone"} : Says("write") /\ files[watched].content = Absent}
        /\ still => found = Findings(watched) \ {"gone"} /\ seen = log
    BY <1>5, <1>r DEF CheckGone, AuditInv, RestInv
  <2>1. LookInv'
    <3>1. ASSUME found' = {}, LatestRead # None
          PROVE  look.content = Intended(LatestRead) \/ (look = NoFile /\ (still => files[watched].link \/ watched \in Private))
      <4>1. /\ found = {} /\ ~(Says("write") /\ files[watched].content = Absent)
        BY <2>0, <3>1
      <4>2. CASE look = NoFile /\ (still => ~Looked(watched))
        <5>1. /\ files[watched].content = Absent => Says("delete")
              /\ ~Looked(watched) /\ files[watched].content # Absent =>
                    files[watched].link \/ watched \in Private
          BY <1>u, <2>0, <3>1, <4>1, <4>2 DEF Looked, Readable
        <5>2. Says("delete") => Intended(LatestRead) = Absent
          BY DEF Says, Intended
        <5> QED
          BY <1>n, <4>2, <5>1, <5>2
      <4> QED
        BY <2>0, <3>1, <4>1, <4>2 DEF AuditInv, LookInv
    <3> QED
      BY <1>0, <1>u, <2>0, <3>1 DEF AuditInv, LookInv
  <2>2. RestInv'
    <3>1. still => ("gone" \in Findings(watched) <=> Says("write") /\ files[watched].content = Absent)
      <4> SUFFICES ASSUME still
                   PROVE  "gone" \in Findings(watched) <=> Says("write") /\ files[watched].content = Absent
        OBVIOUS
      <4>1. LatestRead = Latest(watched)
        BY <2>0, ReadWhole
      <4> QED
        BY <4>1 DEF Findings, FindingKinds, Reports, Says
    <3> QED
      BY <1>0, <1>f, <2>0, <3>1 DEF RestInv
  <2> QED
    BY <2>0, <2>1, <2>2
<1> QED
  BY <1>1, <1>2, <1>3, <1>4, <1>5 DEF Audit

\* An audit begins with empty hands.
LEMMA AuditInit == EInit => AuditInv
BY EmptySeq DEF EInit, Init, AuditInv, SeenInv, LookInv, RestInv, NoFile, File

\* The audit's invariant holds in every reachable state.
LEMMA AuditKept == ESpec => [](IInv /\ CloseInv /\ AttestInv /\ AuditInv)
<1>1. EInit => Init /\ AuditInv
  BY AuditInit DEF EInit
<1>2. [ENext]_evars => [Next]_vars
  BY DEF ENext, evars
<1>3. IInv /\ CloseInv /\ AttestInv /\ AuditInv /\ [ENext]_evars => AuditInv'
  <2> SUFFICES ASSUME IInv, CloseInv, AttestInv, AuditInv, [ENext]_evars PROVE AuditInv'
    OBVIOUS
  <2>1. CASE Audit /\ UNCHANGED <<vars, still>>
    <3>1. LookInv' /\ RestInv' /\ seen' \in {seen, log}
      BY <2>1, AuditStep
    <3> QED
      BY <2>1, <3>1, SeenStep DEF AuditInv
  <2>2. CASE /\ Next /\ UNCHANGED audit
             /\ still' = (still /\ (phase = "idle" \/ (log' = log /\ files'[watched] = files[watched])))
    <3>1. LookInv' /\ RestInv'
      BY <2>2, BrokerUnderAudit
    <3> QED
      BY <2>2, <3>1, SeenStep DEF AuditInv, audit
  <2>3. CASE UNCHANGED evars
    <3>1. UNCHANGED vars /\ UNCHANGED <<phase, watched, seen, look, found, still>>
      BY <2>3 DEF evars, audit
    <3>2. UNCHANGED <<log, files, req, minted>>
      BY <3>1 DEF vars
    <3>3. LatestRead' = LatestRead
      BY <3>1, <3>2 DEF LatestRead, AsRead!Latest, AsRead!Successes, AsRead!Changes, AsRead!Target,
           AsRead!Tool
    <3>4. Intended(LatestRead)' = Intended(LatestRead)
      BY <3>2, <3>3 DEF Intended, Tool
    <3>5. Findings(watched)' = Findings(watched)
      BY <3>1, <3>2 DEF Findings, Reports, Superseded, Logged, Latest, Successes, Changes, Target, Tool,
         Looked, Readable
    <3> QED
      BY <3>1, <3>2, <3>3, <3>4, <3>5 DEF AuditInv, SeenInv, LookInv, RestInv, Looked, Readable
  <2> QED
    BY <2>1, <2>2, <2>3 DEF ENext
<1>4. Init /\ [][Next]_vars => [](IInv /\ CloseInv /\ AttestInv)
  BY ClosedOnceEach, Attested, PTL DEF Spec
<1> QED
  BY <1>1, <1>2, <1>3, <1>4, PTL DEF ESpec

\* What a clean audit missed it did not look at, also while the broker serves, crashes and
\* restarts and the foreign actor is at work: the content it read is what the log it read
\* says of the path, or it read none, because the path changed, is a link or private.
THEOREM CleanAuditMissesNothing == ESpec => []CleanAuditIsLogged
<1>1. AuditInv => CleanAuditIsLogged
  BY DEF AuditInv, LookInv, CleanAuditIsLogged
<1> QED
  BY <1>1, AuditKept, PTL

\* An audit of a path at rest does not raise, and reports what one look at the state of log
\* and file would: verify_world, step by step, is Findings.
THEOREM AuditAtRestIsOneLook == ESpec => []AuditAtRestIsFindings
<1>1. AuditInv => AuditAtRestIsFindings
  BY DEF AuditInv, RestInv, AuditAtRestIsFindings
<1> QED
  BY <1>1, AuditKept, PTL

=============================================================================
