--------------------------- MODULE IntentsProofs ---------------------------
(***************************************************************************)
(* Proofs about Intents, for every set of requests and intents, every      *)
(* grant, and every bound on failures, crashes, edits and revocations.     *)
(***************************************************************************)
EXTENDS Intents, TLAPS, FiniteSetTheorems, WellFoundedInduction

-----------------------------------------------------------------------------
(* The inductive invariant.                                                *)

Saves     == {"refreshed", "reserving", "moving"}
HoldsLock == Saves \cup {"blocked"}
Quiet     == {"idle", "replied", "lost"}

\* the lock belongs to whoever decides or saves; nobody decides while the broker starts
LockInv ==
    /\ \A r \in Req : lock = r <=> pc[r] \in HoldsLock
    /\ saving # "no" => lock # None
    /\ \A r \in Req : pc[r] = "blocked" => saving = "no"
    /\ mode # "up" => \A r \in Req : pc[r] \in Quiet \cup {"settling", "moving"}
    /\ mode = "down" => \A r \in Req : pc[r] \in Quiet

\* a request starts with nothing, and what is settled follows its verdict
SettleInv == \A r \in Req :
    /\ pc[r] \in {"idle", "refreshed", "blocked"} =>
          /\ r \notin prepared /\ used[r] = None /\ spent[r] = None
          /\ reserved[r] = None /\ rfile[r] = None
    /\ pc[r] = "settling" => reserved[r] # None
    /\ pc[r] \in {"idle", "refreshed", "blocked", "reserving", "reserved", "executed"} =>
          verdict[r] = "none"
    /\ pc[r] \in {"idle", "refreshed", "blocked", "reserving", "reserved"} => r \notin applied
    /\ pc[r] = "executed" /\ ~Intended(r) =>
          (answer[r] = "succeeded" => r \in applied) /\ (answer[r] = "failed" => r \notin applied)
    /\ ~Intended(r) => /\ verdict[r] = "confirmedSuccess" => r \in applied
                       /\ verdict[r] = "confirmedFailure" => r \notin applied
    /\ "spent" \in settled[r] => verdict[r] = "confirmedSuccess"
    /\ "returned" \in settled[r] => verdict[r] = "confirmedFailure"

\* a decision in progress sees nothing that was revoked when it began
RevokeInv == \A r \in Req :
    /\ used[r] \notin banned[r]
    /\ pc[r] = "refreshed" => \A i \in banned[r] : mem[i] = 0

\* the files are behind memory only while a save is due or in progress
SyncInv ==
    /\ edits = 0 /\ mode # "down" /\ ~ahead => file = mem /\ rfile = reserved
    /\ edits = 0 /\ saving = "reserved" => file = mem

IInv == TypeOK /\ LockInv /\ SettleInv /\ RevokeInv /\ SyncInv

-----------------------------------------------------------------------------
(* What the operators give.                                                *)

\* What is left when some intents are taken out.
LEMMA WithoutType ==
    ASSUME NEW m \in Counts, NEW gone
    PROVE  /\ Without(m, gone) \in Counts
           /\ \A i \in Intent : Without(m, gone)[i] <= m[i]
           /\ \A i \in Intent \cap gone : Without(m, gone)[i] = 0
BY DEF Without, Counts

\* A verdict spends an intent, returns it or leaves it reserved.
LEMMA StateForType ==
    ASSUME NEW v
    PROVE  /\ StateFor(v) \in {"spent", "returned", "reserved"}
           /\ StateFor(v) = "spent" => v = "confirmedSuccess"
           /\ StateFor(v) = "returned" => v = "confirmedFailure"
BY DEF StateFor

\* An exception ends its request, and gives up the lock if the request held it; at
\* startup it ends the process.
LEMMA RaiseEnds ==
    ASSUME TypeOK, LockInv, NEW r \in Req, Raise(r), pc[r] # "idle", split' \in BOOLEAN,
           mode = "starting" => lock \in {r, None}
    PROVE  /\ mode' \in {"up", "starting", "down"} /\ pc' \in [Req -> PC]
           /\ mode = "starting" <=> mode' # mode
           /\ mode' # mode => mode' = "down" /\ \A s \in Req : pc'[s] \in Quiet
           /\ pc'[r] \in {"replied", "lost"}
           /\ \A s \in Req \ {r} : \/ pc'[s] = pc[s]
                                   \/ mode' = "down" /\ pc[s] \notin {"idle", "replied"} /\ pc'[s] = "lost"
           /\ lock' = IF lock = r THEN None ELSE lock
           /\ saving' = IF lock = r THEN "no" ELSE saving
           /\ torn' \in BOOLEAN /\ unsaved' \in BOOLEAN
           /\ unsaved' = (unsaved \/ (mode = "starting" /\ ahead))
BY DEF TypeOK, LockInv, Raise, Lost, PC, Quiet

\* Every step keeps the types.
LEMMA TypeStep ==
    ASSUME TypeOK, LockInv, [Next]_vars
    PROVE  TypeOK'
<1> USE IntentsAssumption DEF TypeOK, Holdings
<1>1. ASSUME NEW r \in Req, Refresh(r) PROVE TypeOK'
  <2>1. Without(mem, revoked) \in Counts
      /\ \A i \in Intent : Without(mem, revoked)[i] <= mem[i]
    BY WithoutType
  <2>2. frozen' \in BOOLEAN
    BY <1>1 DEF Refresh
  <2>3. CASE frozen'
    BY <1>1, <2>2, <2>3 DEF Refresh, PC, bounds, disk, audit, given
  <2>4. CASE ~frozen'
    <3>1. mem' \in Counts /\ taken' \in Counts
      BY <1>1, <2>1, <2>4 DEF Refresh, Counts
    <3> QED
      BY <1>1, <2>2, <2>4, <3>1 DEF Refresh, PC, bounds, disk, audit, given
  <2> QED
    BY <2>3, <2>4
<1>2. ASSUME NEW r \in Req, Refuse(r) PROVE TypeOK'
  BY <1>2 DEF Refuse, PC, memory, disk, audit, history, past, bounds, given
<1>3. ASSUME NEW r \in Req, Match(r) PROVE TypeOK'
  <2>1. PICK i \in Intent : /\ mem[i] > 0 /\ mem' = [mem EXCEPT ![i] = @ - 1]
                            /\ reserved' = [reserved EXCEPT ![r] = i]
                            /\ used' = [used EXCEPT ![r] = i]
    BY <1>3 DEF Match, Broadest, Candidates
  <2>2. mem' \in Counts
    BY <2>1 DEF Counts
  <2> QED
    BY <1>3, <2>1, <2>2 DEF Match, PC, disk, bounds, given
<1>4. CASE SaveFile
  BY <1>4 DEF SaveFile, audit, bounds, given
<1>5. ASSUME NEW r \in Req, SaveReserved(r) PROVE TypeOK'
  <2>1. pc[r] \in Saves
    BY <1>5 DEF SaveReserved, LockInv, HoldsLock, Saves
  <2>2. AfterSave[pc[r]] \in PC
    BY <2>1 DEF AfterSave, PC, Saves
  <2> QED
    BY <1>5, <2>2 DEF SaveReserved, ToSave, memory, audit, bounds, given
<1>6. ASSUME NEW r \in Req, SaveRaises(r) PROVE TypeOK'
  <2>1. /\ pc[r] # "idle"
        /\ split' \in BOOLEAN /\ file' \in Counts
        /\ failures' \in Nat
    <3>1. pc[r] # "idle"
      BY <1>6 DEF SaveRaises, LockInv, HoldsLock, Saves
    <3>2. split' \in BOOLEAN /\ file' \in Counts
      BY <1>6 DEF SaveRaises
    <3>3. failures' \in Nat
      BY <1>6 DEF SaveRaises, Fails
    <3> QED
      BY <3>1, <3>2, <3>3
  <2>2. mode = "starting" => lock \in {r, None}
    BY <1>6 DEF SaveRaises
  <2> QED
    BY <1>6, <2>1, <2>2, RaiseEnds DEF SaveRaises, memory, audit, given
<1>7. ASSUME NEW r \in Req, Execute(r) PROVE TypeOK'
  BY <1>7 DEF Execute, Answer, PC, memory, disk, audit, past, bounds
<1>8. ASSUME NEW r \in Req, Outcome(r) PROVE TypeOK'
  <2>1. verdict' \in [Req -> Verdict]
    BY <1>8 DEF Outcome, Verdicts, ByAnswer, Verdict
  <2> QED
    BY <1>8, <2>1 DEF Outcome, Answer, PC, memory, disk, history, past, bounds
<1>9. ASSUME NEW r \in Req, OutcomeRaises(r) PROVE TypeOK'
  <2>1. verdict' \in [Req -> Verdict]
    BY <1>9 DEF OutcomeRaises, Verdicts, ByAnswer, Intended, Verdict
  <2>2. failures' \in Nat /\ pc' \in [Req -> PC]
    BY <1>9 DEF OutcomeRaises, Fails, PC
  <2> QED
    BY <1>9, <2>1, <2>2 DEF OutcomeRaises, Answer, memory, disk, history, past
<1>10. ASSUME NEW r \in Req, SettleRecord(r) PROVE TypeOK'
  BY <1>10, StateForType DEF SettleRecord, PC, memory, disk, history, past, bounds, given
<1>11. ASSUME NEW r \in Req, SettleRaises(r) PROVE TypeOK'
  <2>1. pc[r] # "idle" /\ split' \in BOOLEAN /\ failures' \in Nat
    BY <1>11 DEF SettleRaises, Settles, Fails
  <2>2. mode = "starting" => lock \in {r, None}
    BY <1>11 DEF SettleRaises, Settles, LockInv, Quiet
  <2>3. settled' \in [Req -> SUBSET {"spent", "returned", "reserved"}]
    BY <1>11, StateForType DEF SettleRaises
  <2> QED
    BY <1>11, <2>1, <2>2, <2>3, RaiseEnds DEF SettleRaises, memory, given
<1>12. ASSUME NEW r \in Req, SettleMove(r) PROVE TypeOK'
  <2>1. mem' \in Counts
    BY <1>12 DEF SettleMove, Counts
  <2> QED
    BY <1>12, <2>1 DEF SettleMove, PC, disk, audit, bounds, given
<1>13. ASSUME NEW r \in Req, Reconcile(r) PROVE TypeOK'
  BY <1>13 DEF Reconcile, Verdicts, ByAnswer, Intended, Verdict, thread, memory, disk, history, past, bounds, given
<1>14. CASE Crash
  BY <1>14 DEF Crash, Lost, Answer, PC, memory, disk, audit
<1>15. CASE Start
  BY <1>15 DEF Start, PC, disk, audit, bounds, given
<1>16. CASE FinishStart
  BY <1>16 DEF FinishStart, thread, memory, disk, audit, history, past, bounds, given
<1>17. ASSUME NEW i \in Intent, EditFile(i) PROVE TypeOK'
  <2>1. PICK n \in Nat : file' = [file EXCEPT ![i] = n]
    BY <1>17 DEF EditFile
  <2>2. file' \in Counts
    BY <2>1 DEF Counts
  <2> QED
    BY <1>17, <2>2 DEF EditFile, thread, memory, audit, history, past, given
<1>18. ASSUME NEW i \in Intent, AppendRevocation(i) PROVE TypeOK'
  BY <1>18 DEF AppendRevocation, thread, memory, disk, audit, history, past, bounds, given
<1>19. CASE UNCHANGED vars
  BY <1>19 DEF vars, thread, memory, disk, audit, history, past, bounds, given
<1>20. ASSUME NEW r \in Req, PrepareRaises(r) PROVE TypeOK'
  BY <1>20 DEF PrepareRaises, Fails, PC, memory, disk, history, past, given
<1>21. ASSUME NEW r \in Req, KernelBlocks(r) PROVE TypeOK'
  BY <1>21 DEF KernelBlocks, Fails, PC, memory, disk, history, past, given, audit
<1> QED
  BY <1>1, <1>2, <1>3, <1>4, <1>5, <1>6, <1>7, <1>8, <1>9, <1>10, <1>11, <1>12, <1>13, <1>14,
     <1>15, <1>16, <1>17, <1>18, <1>19, <1>20, <1>21 DEF Next, Thread, Done

\* One request holds the lock while it decides, saves or moves its intent, and nothing
\* but the settlement runs while the broker starts.
LEMMA LockStep ==
    ASSUME TypeOK, LockInv, [Next]_vars
    PROVE  LockInv'
<1> USE IntentsAssumption DEF LockInv, HoldsLock, Saves, Quiet
<1>t. pc \in [Req -> PC] /\ lock \in Req \cup {None} /\ None \notin Req
  BY DEF TypeOK
<1>1. ASSUME NEW r \in Req, Refresh(r) PROVE LockInv'
  BY <1>1, <1>t DEF Refresh
<1>2. ASSUME NEW r \in Req, Refuse(r) PROVE LockInv'
  BY <1>2, <1>t DEF Refuse
<1>3. ASSUME NEW r \in Req, Match(r) PROVE LockInv'
  BY <1>3, <1>t DEF Match
<1>4. CASE SaveFile
  BY <1>4 DEF SaveFile
<1>5. ASSUME NEW r \in Req, SaveReserved(r) PROVE LockInv'
  <2>1. pc[r] \in Saves
    BY <1>5 DEF SaveReserved, LockInv, HoldsLock, Saves
  <2>2. pc'[r] = IF pc[r] = "refreshed" THEN "refreshed" ELSE IF pc[r] = "reserving" THEN "reserved" ELSE "replied"
    BY <1>5, <1>t, <2>1 DEF SaveReserved, AfterSave, Saves
  <2>3. \A s \in Req \ {r} : pc'[s] = pc[s]
    BY <1>5, <1>t DEF SaveReserved
  <2> QED
    BY <1>5, <1>t, <2>1, <2>2, <2>3 DEF SaveReserved
<1>6. ASSUME NEW r \in Req, SaveRaises(r) PROVE LockInv'
  <2>1. pc[r] # "idle" /\ lock = r /\ split' \in BOOLEAN
    BY <1>6 DEF SaveRaises, TypeOK
  <2>2. Raise(r)
    BY <1>6 DEF SaveRaises
  <2> QED
    BY <1>t, <2>1, <2>2, RaiseEnds DEF TypeOK
<1>7. ASSUME NEW r \in Req, Execute(r) PROVE LockInv'
  BY <1>7, <1>t DEF Execute
<1>8. ASSUME NEW r \in Req, Outcome(r) PROVE LockInv'
  BY <1>8, <1>t DEF Outcome
<1>9. ASSUME NEW r \in Req, OutcomeRaises(r) PROVE LockInv'
  BY <1>9, <1>t DEF OutcomeRaises
<1>10. ASSUME NEW r \in Req, SettleRecord(r) PROVE LockInv'
  BY <1>10, <1>t DEF SettleRecord, Settles
<1>11. ASSUME NEW r \in Req, SettleRaises(r) PROVE LockInv'
  <2>1. pc[r] \in {"closed", "lost"} /\ split' \in BOOLEAN /\ Raise(r)
    BY <1>11 DEF SettleRaises, Settles, TypeOK
  <2>2. mode = "starting" => lock = None
    BY <1>11 DEF SettleRaises, Settles
  <2> QED
    BY <1>t, <2>1, <2>2, RaiseEnds DEF TypeOK
<1>12. ASSUME NEW r \in Req, SettleMove(r) PROVE LockInv'
  BY <1>12, <1>t DEF SettleMove
<1>13. ASSUME NEW r \in Req, Reconcile(r) PROVE LockInv'
  BY <1>13 DEF Reconcile, thread
<1>14. CASE Crash
  BY <1>14, <1>t DEF Crash, Lost
<1>15. CASE Start
  BY <1>15, <1>t DEF Start
<1>16. CASE FinishStart
  BY <1>16 DEF FinishStart, thread
<1>17. ASSUME NEW i \in Intent, EditFile(i) PROVE LockInv'
  BY <1>17 DEF EditFile, thread
<1>18. ASSUME NEW i \in Intent, AppendRevocation(i) PROVE LockInv'
  BY <1>18 DEF AppendRevocation, thread
<1>19. CASE UNCHANGED vars
  BY <1>19 DEF vars, thread
<1>20. ASSUME NEW r \in Req, PrepareRaises(r) PROVE LockInv'
  BY <1>20, <1>t DEF PrepareRaises
<1>21. ASSUME NEW r \in Req, KernelBlocks(r) PROVE LockInv'
  BY <1>21, <1>t DEF KernelBlocks
<1> QED
  BY <1>1, <1>2, <1>3, <1>4, <1>5, <1>6, <1>7, <1>8, <1>9, <1>10, <1>11, <1>12, <1>13, <1>14,
     <1>15, <1>16, <1>17, <1>18, <1>19, <1>20, <1>21 DEF Next, Thread, Done

\* A verdict is recorded once, after the effect, and only a verdict settles an intent.
LEMMA SettleStep ==
    ASSUME TypeOK, LockInv, SettleInv, [Next]_vars
    PROVE  SettleInv'
<1> USE IntentsAssumption DEF SettleInv, Intended, HoldsLock, Saves, Quiet
<1>t. /\ pc \in [Req -> PC] /\ verdict \in [Req -> Verdict]
      /\ settled \in [Req -> SUBSET {"spent", "returned", "reserved"}]
      /\ reserved \in Holdings /\ rfile \in Holdings /\ used \in Holdings /\ spent \in Holdings
      /\ None \notin Intent /\ answer \in [Req -> Answer]
  BY DEF TypeOK
<1> USE DEF Holdings
<1>1. ASSUME NEW r \in Req, Refresh(r) PROVE SettleInv'
  BY <1>1, <1>t DEF Refresh, disk, audit, given
<1>2. ASSUME NEW r \in Req, Refuse(r) PROVE SettleInv'
  BY <1>2, <1>t DEF Refuse, memory, disk, audit, history, given
<1>3. ASSUME NEW r \in Req, Match(r) PROVE SettleInv'
  <2>1. PICK i \in Intent : /\ reserved' = [reserved EXCEPT ![r] = i]
                            /\ used' = [used EXCEPT ![r] = i]
    BY <1>3 DEF Match, Broadest, Candidates
  <2> QED
    BY <1>3, <1>t, <2>1 DEF Match, disk, given
<1>4. CASE SaveFile
  BY <1>4 DEF SaveFile, audit, given
<1>5. ASSUME NEW r \in Req, SaveReserved(r) PROVE SettleInv'
  <2>1. pc[r] \in Saves
    BY <1>5 DEF SaveReserved, LockInv, HoldsLock, Saves
  <2>2. pc'[r] = IF pc[r] = "refreshed" THEN "refreshed" ELSE IF pc[r] = "reserving" THEN "reserved" ELSE "replied"
    BY <1>5, <1>t, <2>1 DEF SaveReserved, AfterSave, Saves
  <2>3. \A s \in Req \ {r} : pc'[s] = pc[s]
    BY <1>5, <1>t DEF SaveReserved
  <2> QED
    BY <1>5, <2>1, <2>2, <2>3 DEF SaveReserved, ToSave, memory, audit, given
<1>6. ASSUME NEW r \in Req, SaveRaises(r) PROVE SettleInv'
  <2>1. pc[r] # "idle" /\ lock = r /\ split' \in BOOLEAN /\ Raise(r)
    BY <1>6 DEF SaveRaises, TypeOK, LockInv
  <2>2. \A s \in Req : pc'[s] = pc[s] \/ pc'[s] \in {"replied", "lost"}
    BY <2>1, RaiseEnds
  <2> QED
    BY <1>6, <2>2 DEF SaveRaises, memory, audit, given
<1>7. ASSUME NEW r \in Req, Execute(r) PROVE SettleInv'
  <2>1. PICK a \in Answer \ {"none"}, took \in BOOLEAN :
           /\ Returns(r, a, took) /\ answer' = [answer EXCEPT ![r] = a]
           /\ applied' = IF took THEN applied \cup {r} ELSE applied
    BY <1>7 DEF Execute
  <2>2. ~Intended(r) => (a = "succeeded" => r \in applied') /\ (a = "failed" => applied' = applied)
    BY <2>1 DEF Returns
  <2>3. \A s \in Req \ {r} : s \in applied' <=> s \in applied
    BY <2>1
  <2>4. /\ pc[r] = "reserved" /\ pc' = [pc EXCEPT ![r] = "executed"] /\ answer' = [answer EXCEPT ![r] = a]
        /\ UNCHANGED <<asked, prepared, verdict, settled, used, spent, reserved, rfile>>
    BY <1>7, <2>1 DEF Execute, memory, disk, audit
  <2>5. r \notin applied
    BY <2>4
  <2> QED
    BY <1>t, <2>2, <2>3, <2>4, <2>5
<1>8. ASSUME NEW r \in Req, Outcome(r) PROVE SettleInv'
  BY <1>8, <1>t DEF Outcome, Verdicts, ByAnswer, Intended, memory, disk, history, given
<1>9. ASSUME NEW r \in Req, OutcomeRaises(r) PROVE SettleInv'
  BY <1>9, <1>t DEF OutcomeRaises, Verdicts, ByAnswer, Intended, memory, disk, history, given
<1>10. ASSUME NEW r \in Req, SettleRecord(r) PROVE SettleInv'
  <2>1. StateFor(verdict[r]) = "spent" => verdict[r] = "confirmedSuccess"
    BY StateForType
  <2>2. StateFor(verdict[r]) = "returned" => verdict[r] = "confirmedFailure"
    BY StateForType
  <2>3. pc'[r] \in {"replied", "settling"} /\ \A s \in Req \ {r} : pc'[s] = pc[s]
    BY <1>10, <1>t DEF SettleRecord
  <2> QED
    BY <1>10, <1>t, <2>1, <2>2, <2>3 DEF SettleRecord, memory, disk, history, given
<1>11. ASSUME NEW r \in Req, SettleRaises(r) PROVE SettleInv'
  <2>1. pc[r] # "idle" /\ split' \in BOOLEAN /\ Raise(r)
    BY <1>11 DEF SettleRaises, Settles, TypeOK
  <2>2. mode = "starting" => lock \in {r, None}
    BY <1>11 DEF SettleRaises, Settles, LockInv
  <2>3. \A s \in Req : pc'[s] = pc[s] \/ pc'[s] \in {"replied", "lost"}
    BY <2>1, <2>2, RaiseEnds
  <2>4. \A s \in Req : /\ "spent" \in settled'[s] => verdict[s] = "confirmedSuccess"
                       /\ "returned" \in settled'[s] => verdict[s] = "confirmedFailure"
    BY <1>11, <1>t, StateForType DEF SettleRaises
  <2> QED
    BY <1>11, <2>3, <2>4 DEF SettleRaises, memory, given
<1>12. ASSUME NEW r \in Req, SettleMove(r) PROVE SettleInv'
  BY <1>12, <1>t DEF SettleMove, disk, audit, given
<1>13. ASSUME NEW r \in Req, Reconcile(r) PROVE SettleInv'
  <2>1. pc[r] \in Quiet \cup {"settling", "moving"} /\ pc[r] # "idle"
    BY <1>13 DEF Reconcile, LockInv
  <2> QED
    BY <1>13, <1>t, <2>1 DEF Reconcile, Verdicts, ByAnswer, Intended, thread, memory, disk, history, given
<1>14. CASE Crash
  BY <1>14, <1>t DEF Crash, Lost, memory, disk, audit, given
<1>15. CASE Start
  <2>1. \A s \in Req : pc'[s] \in Quiet /\ (pc'[s] = "idle" => pc[s] = "idle")
    BY <1>15, <1>t DEF Start, LockInv
  <2>2. UNCHANGED <<rfile, prepared, verdict, settled, used, spent, applied, asked, answer>>
      /\ reserved' = rfile
    BY <1>15 DEF Start, disk, audit, given
  <2> QED
    BY <2>1, <2>2
<1>16. CASE FinishStart
  BY <1>16 DEF FinishStart, thread, memory, disk, audit, history, given
<1>17. ASSUME NEW i \in Intent, EditFile(i) PROVE SettleInv'
  BY <1>17 DEF EditFile, thread, memory, audit, history, given
<1>18. ASSUME NEW i \in Intent, AppendRevocation(i) PROVE SettleInv'
  BY <1>18 DEF AppendRevocation, thread, memory, disk, audit, history, given
<1>19. CASE UNCHANGED vars
  BY <1>19 DEF vars, thread, memory, disk, audit, history, given
<1>20. ASSUME NEW r \in Req, PrepareRaises(r) PROVE SettleInv'
  BY <1>20, <1>t DEF PrepareRaises, memory, disk, history, given
<1>21. ASSUME NEW r \in Req, KernelBlocks(r) PROVE SettleInv'
  BY <1>21, <1>t DEF KernelBlocks, memory, disk, audit, history, given
<1> QED
  BY <1>1, <1>2, <1>3, <1>4, <1>5, <1>6, <1>7, <1>8, <1>9, <1>10, <1>11, <1>12, <1>13, <1>14,
     <1>15, <1>16, <1>17, <1>18, <1>19, <1>20, <1>21 DEF Next, Thread, Done

\* Revoked lines leave memory when a decision begins, and nothing brings one back before
\* the decision takes its intent.
LEMMA RevokeStep ==
    ASSUME TypeOK, LockInv, SettleInv, RevokeInv, [Next]_vars
    PROVE  RevokeInv'
<1> USE IntentsAssumption DEF RevokeInv, HoldsLock, Saves, Quiet
<1>t. /\ pc \in [Req -> PC] /\ mem \in Counts /\ used \in Holdings
      /\ banned \in [Req -> SUBSET Intent] /\ revoked \subseteq Intent /\ None \notin Intent
  BY DEF TypeOK
<1> USE DEF Holdings
<1>1. ASSUME NEW r \in Req, Refresh(r) PROVE RevokeInv'
  <2>1. used' = used /\ used[r] = None
    BY <1>1 DEF Refresh, SettleInv
  <2>2. CASE frozen'
    BY <1>1, <1>t, <2>1, <2>2 DEF Refresh
  <2>3. CASE ~frozen'
    <3>1. /\ \A i \in revoked : mem'[i] = 0
          /\ banned' = [banned EXCEPT ![r] = revoked] /\ pc' = [pc EXCEPT ![r] = "refreshed"]
          /\ lock = None
      BY <1>1, <1>t, <2>3, WithoutType DEF Refresh
    <3>2. \A s \in Req \ {r} : pc'[s] # "refreshed" /\ banned'[s] = banned[s]
      BY <1>t, <3>1 DEF LockInv
    <3> QED
      BY <1>t, <2>1, <3>1, <3>2
  <2> QED
    BY <2>2, <2>3
<1>2. ASSUME NEW r \in Req, Refuse(r) PROVE RevokeInv'
  BY <1>2, <1>t DEF Refuse, memory, history, past
<1>3. ASSUME NEW r \in Req, Match(r) PROVE RevokeInv'
  <2>1. PICK i \in Intent : mem[i] > 0 /\ used' = [used EXCEPT ![r] = i]
    BY <1>3 DEF Match, Broadest, Candidates
  <2>2. i \notin banned[r]
    BY <1>3, <1>t, <2>1 DEF Match
  <2>3. \A s \in Req : pc'[s] # "refreshed"
    BY <1>3, <1>t DEF Match, LockInv
  <2> QED
    BY <1>3, <1>t, <2>1, <2>2, <2>3 DEF Match
<1>4. CASE SaveFile
  BY <1>4 DEF SaveFile
<1>5. ASSUME NEW r \in Req, SaveReserved(r) PROVE RevokeInv'
  <2>1. \A s \in Req : pc'[s] = "refreshed" => pc[s] = "refreshed"
    BY <1>5, <1>t DEF SaveReserved, LockInv, AfterSave
  <2> QED
    BY <1>5, <2>1 DEF SaveReserved, memory
<1>6. ASSUME NEW r \in Req, SaveRaises(r) PROVE RevokeInv'
  <2>1. pc[r] # "idle" /\ lock = r /\ split' \in BOOLEAN /\ Raise(r)
    BY <1>6 DEF SaveRaises, TypeOK, LockInv
  <2>2. \A s \in Req : pc'[s] = pc[s] \/ pc'[s] \in {"replied", "lost"}
    BY <2>1, RaiseEnds
  <2> QED
    BY <1>6, <2>2 DEF SaveRaises, memory
<1>7. ASSUME NEW r \in Req, Execute(r) PROVE RevokeInv'
  BY <1>7, <1>t DEF Execute, memory, past
<1>8. ASSUME NEW r \in Req, Outcome(r) PROVE RevokeInv'
  BY <1>8, <1>t DEF Outcome, memory, history, past
<1>9. ASSUME NEW r \in Req, OutcomeRaises(r) PROVE RevokeInv'
  BY <1>9, <1>t DEF OutcomeRaises, memory, history, past
<1>10. ASSUME NEW r \in Req, SettleRecord(r) PROVE RevokeInv'
  BY <1>10, <1>t DEF SettleRecord, memory, history, past
<1>11. ASSUME NEW r \in Req, SettleRaises(r) PROVE RevokeInv'
  <2>1. pc[r] # "idle" /\ split' \in BOOLEAN /\ Raise(r)
    BY <1>11 DEF SettleRaises, Settles, TypeOK
  <2>2. mode = "starting" => lock \in {r, None}
    BY <1>11 DEF SettleRaises, Settles, LockInv
  <2>3. \A s \in Req : pc'[s] = pc[s] \/ pc'[s] \in {"replied", "lost"}
    BY <2>1, <2>2, RaiseEnds
  <2> QED
    BY <1>11, <2>3 DEF SettleRaises, memory
<1>12. ASSUME NEW r \in Req, SettleMove(r) PROVE RevokeInv'
  <2>1. \A s \in Req : pc'[s] # "refreshed"
    BY <1>12, <1>t DEF SettleMove, LockInv
  <2> QED
    BY <1>12, <2>1 DEF SettleMove
<1>13. ASSUME NEW r \in Req, Reconcile(r) PROVE RevokeInv'
  BY <1>13 DEF Reconcile, thread, memory, history, past
<1>14. CASE Crash
  BY <1>14, <1>t DEF Crash, Lost, memory
<1>15. CASE Start
  <2>1. \A s \in Req : pc'[s] # "refreshed"
    BY <1>15, <1>t DEF Start, LockInv
  <2> QED
    BY <1>15, <2>1 DEF Start
<1>16. CASE FinishStart
  BY <1>16 DEF FinishStart, thread, memory, history, past
<1>17. ASSUME NEW i \in Intent, EditFile(i) PROVE RevokeInv'
  BY <1>17 DEF EditFile, thread, memory, history, past
<1>18. ASSUME NEW i \in Intent, AppendRevocation(i) PROVE RevokeInv'
  BY <1>18 DEF AppendRevocation, thread, memory, history, past
<1>19. CASE UNCHANGED vars
  BY <1>19 DEF vars, thread, memory, history, past
<1>20. ASSUME NEW r \in Req, PrepareRaises(r) PROVE RevokeInv'
  BY <1>20, <1>t DEF PrepareRaises, memory, history, past
<1>21. ASSUME NEW r \in Req, KernelBlocks(r) PROVE RevokeInv'
  BY <1>21, <1>t DEF KernelBlocks, memory, history, past
<1> QED
  BY <1>1, <1>2, <1>3, <1>4, <1>5, <1>6, <1>7, <1>8, <1>9, <1>10, <1>11, <1>12, <1>13, <1>14,
     <1>15, <1>16, <1>17, <1>18, <1>19, <1>20, <1>21 DEF Next, Thread, Done

\* A save copies memory to the files, the intents file first.
LEMMA SyncStep ==
    ASSUME TypeOK, LockInv, SyncInv, [Next]_vars
    PROVE  SyncInv'
<1> USE IntentsAssumption DEF SyncInv
<1>t. edits \in Nat /\ ahead \in BOOLEAN
  BY DEF TypeOK
<1>1. ASSUME NEW r \in Req, Refresh(r) PROVE SyncInv'
  BY <1>1, <1>t DEF Refresh, LockInv, disk, bounds
<1>2. ASSUME NEW r \in Req, Refuse(r) PROVE SyncInv'
  BY <1>2 DEF Refuse, memory, disk, history, past, bounds
<1>3. ASSUME NEW r \in Req, Match(r) PROVE SyncInv'
  BY <1>3 DEF Match, disk, bounds
<1>4. CASE SaveFile
  BY <1>4 DEF SaveFile, bounds
<1>5. ASSUME NEW r \in Req, SaveReserved(r) PROVE SyncInv'
  BY <1>5 DEF SaveReserved, ToSave, memory, bounds
<1>6. ASSUME NEW r \in Req, SaveRaises(r) PROVE SyncInv'
  BY <1>6 DEF SaveRaises, Raise, memory
<1>7. ASSUME NEW r \in Req, Execute(r) PROVE SyncInv'
  BY <1>7 DEF Execute, memory, disk, past, bounds
<1>8. ASSUME NEW r \in Req, Outcome(r) PROVE SyncInv'
  BY <1>8 DEF Outcome, memory, disk, history, past, bounds
<1>9. ASSUME NEW r \in Req, OutcomeRaises(r) PROVE SyncInv'
  BY <1>9 DEF OutcomeRaises, memory, disk, history, past
<1>10. ASSUME NEW r \in Req, SettleRecord(r) PROVE SyncInv'
  BY <1>10 DEF SettleRecord, memory, disk, history, past, bounds
<1>11. ASSUME NEW r \in Req, SettleRaises(r) PROVE SyncInv'
  BY <1>11 DEF SettleRaises, Raise, memory
<1>12. ASSUME NEW r \in Req, SettleMove(r) PROVE SyncInv'
  BY <1>12 DEF SettleMove, disk, bounds
<1>13. ASSUME NEW r \in Req, Reconcile(r) PROVE SyncInv'
  BY <1>13 DEF Reconcile, thread, memory, disk, history, past, bounds
<1>14. CASE Crash
  BY <1>14 DEF Crash
<1>15. CASE Start
  BY <1>15 DEF Start, LockInv, disk, bounds
<1>16. CASE FinishStart
  BY <1>16 DEF FinishStart, thread, memory, disk, history, past, bounds
<1>17. ASSUME NEW i \in Intent, EditFile(i) PROVE SyncInv'
  BY <1>17, <1>t DEF EditFile
<1>18. ASSUME NEW i \in Intent, AppendRevocation(i) PROVE SyncInv'
  BY <1>18 DEF AppendRevocation, thread, memory, disk, history, past, bounds
<1>19. CASE UNCHANGED vars
  BY <1>19 DEF vars, thread, memory, disk, history, past, bounds
<1>20. ASSUME NEW r \in Req, PrepareRaises(r) PROVE SyncInv'
  BY <1>20 DEF PrepareRaises, memory, disk, history, past
<1>21. ASSUME NEW r \in Req, KernelBlocks(r) PROVE SyncInv'
  BY <1>21 DEF KernelBlocks, memory, disk, history, past
<1> QED
  BY <1>1, <1>2, <1>3, <1>4, <1>5, <1>6, <1>7, <1>8, <1>9, <1>10, <1>11, <1>12, <1>13, <1>14,
     <1>15, <1>16, <1>17, <1>18, <1>19, <1>20, <1>21 DEF Next, Thread, Done

\* The broker starts with the granted intents on disk and in memory.
LEMMA InitHolds == Init => IInv
<1> SUFFICES ASSUME Init PROVE IInv
  OBVIOUS
<1> USE IntentsAssumption DEF Init
<1>1. TypeOK
  BY DEF TypeOK, Counts, Holdings, Verdict, Answer, PC
<1>2. LockInv /\ SettleInv /\ RevokeInv /\ SyncInv
  BY DEF LockInv, SettleInv, RevokeInv, SyncInv, HoldsLock, Saves, Quiet
<1> QED
  BY <1>1, <1>2 DEF IInv

-----------------------------------------------------------------------------
(* The ledger.                                                             *)

\* What the ledger shows of the store.
Avail == IF mode = "down" THEN file ELSE mem
Held  == IF mode = "down" THEN rfile ELSE reserved

\* While neither half of a save is done nor due, dying and coming back do not show.
LEMMA CrashDoesNotShow ==
    ASSUME TypeOK, LockInv, SyncInv, edits = 0, UNCHANGED <<mem, reserved, rfile, spent>>,
           file' \in {file, mem}, mode # "down", ~ahead
    PROVE  UNCHANGED <<Avail, Held, spent>>
BY DEF SyncInv, Avail, Held

\* Every step of the store is a step of the ledger, or does not show, as long as no
\* process died with memory ahead of the files and nobody edited the intents file.
LEMMA LedgerStep ==
    ASSUME IInv, [Next]_vars, ~unsaved', edits' = 0
    PROVE  Ledger!LNext \/ UNCHANGED <<Avail, Held, spent>>
<1> USE IntentsAssumption DEF IInv, HoldsLock, Saves, Quiet
<1>t. /\ pc \in [Req -> PC] /\ mem \in Counts /\ reserved \in Holdings /\ spent \in Holdings
      /\ edits \in Nat /\ revoked \subseteq Intent
      /\ unsaved \in BOOLEAN /\ ahead \in BOOLEAN /\ split \in BOOLEAN
  BY DEF TypeOK
<1>u. \A r \in Req : pc[r] \in HoldsLock \cup {"settling"} => mode # "down"
  BY DEF LockInv
<1>1. ASSUME NEW r \in Req, Refresh(r) PROVE Ledger!LNext \/ UNCHANGED <<Avail, Held, spent>>
  <2>1. mode = "up" /\ mode' = mode /\ reserved' = reserved /\ spent' = spent
    BY <1>1 DEF Refresh
  <2>2. CASE frozen'
    BY <1>1, <2>1, <2>2 DEF Refresh, Avail, Held
  <2>3. CASE ~frozen'
    <3>1. mem' = Without(mem, revoked)
      BY <1>1, <2>3 DEF Refresh
    <3>2. Ledger!Revoke(revoked)
      BY <2>1, <3>1 DEF Ledger!Revoke, Without
    <3> QED
      BY <1>t, <3>2 DEF Ledger!LNext
  <2> QED
    BY <2>2, <2>3
<1>2. ASSUME NEW r \in Req, Refuse(r) PROVE UNCHANGED <<Avail, Held, spent>>
  BY <1>2 DEF Refuse, memory, disk, history, Avail, Held
<1>3. ASSUME NEW r \in Req, Match(r) PROVE Ledger!LNext
  <2>1. PICK i \in Intent : /\ mem[i] > 0 /\ mem' = [mem EXCEPT ![i] = @ - 1]
                            /\ reserved' = [reserved EXCEPT ![r] = i]
    BY <1>3 DEF Match, Broadest, Candidates
  <2>2. reserved[r] = None /\ spent[r] = None
    BY <1>3 DEF Match, SettleInv
  <2>3. mode = "up" /\ mode' = "up" /\ spent' = spent
    BY <1>3 DEF Match, LockInv
  <2>4. Ledger!Reserve(r, i)
    BY <2>1, <2>2, <2>3 DEF Ledger!Reserve
  <2> QED
    BY <2>4 DEF Ledger!LNext
<1>4. CASE SaveFile
  <2>1. mode # "down"
    BY <1>4, <1>u DEF SaveFile, LockInv, TypeOK
  <2> QED
    BY <1>4, <2>1 DEF SaveFile, Avail, Held
<1>5. ASSUME NEW r \in Req, SaveReserved(r) PROVE UNCHANGED <<Avail, Held, spent>>
  <2>1. mode # "down"
    BY <1>5, <1>u DEF SaveReserved, LockInv
  <2> QED
    BY <1>5, <2>1 DEF SaveReserved, memory, Avail, Held
<1>6. ASSUME NEW r \in Req, SaveRaises(r) PROVE UNCHANGED <<Avail, Held, spent>>
  <2>1. mode # "down" /\ edits = 0
    BY <1>6, <1>u DEF SaveRaises, LockInv
  <2>2. UNCHANGED <<mem, reserved, rfile, spent>> /\ file' \in {file, mem}
    BY <1>6 DEF SaveRaises, memory
  <2>3. CASE mode = "starting"
    <3>1. ~ahead
      BY <1>6, <2>3 DEF SaveRaises, Raise
    <3> QED
      BY <2>1, <2>2, <3>1, CrashDoesNotShow
  <2>4. CASE mode # "starting"
    BY <1>6, <2>1, <2>2, <2>4 DEF SaveRaises, Raise, Avail, Held
  <2> QED
    BY <2>3, <2>4
<1>7. ASSUME NEW r \in Req, Execute(r) PROVE UNCHANGED <<Avail, Held, spent>>
  BY <1>7 DEF Execute, memory, disk, Avail, Held
<1>8. ASSUME NEW r \in Req, Outcome(r) PROVE UNCHANGED <<Avail, Held, spent>>
  BY <1>8 DEF Outcome, memory, disk, history, Avail, Held
<1>9. ASSUME NEW r \in Req, OutcomeRaises(r) PROVE UNCHANGED <<Avail, Held, spent>>
  BY <1>9 DEF OutcomeRaises, memory, disk, history, Avail, Held
<1>10. ASSUME NEW r \in Req, SettleRecord(r) PROVE UNCHANGED <<Avail, Held, spent>>
  BY <1>10 DEF SettleRecord, memory, disk, history, Avail, Held
<1>11. ASSUME NEW r \in Req, SettleRaises(r) PROVE UNCHANGED <<Avail, Held, spent>>
  <2>1. edits = 0 /\ UNCHANGED <<mem, reserved, rfile, spent, file>>
    BY <1>11 DEF SettleRaises, memory
  <2>2. mode # "down"
    BY <1>11 DEF SettleRaises, Settles, LockInv
  <2>3. CASE mode = "starting"
    <3>1. ~ahead
      BY <1>11, <2>3 DEF SettleRaises, Raise
    <3> QED
      BY <2>1, <2>2, <3>1, CrashDoesNotShow
  <2>4. CASE mode # "starting"
    BY <1>11, <2>1, <2>2, <2>4 DEF SettleRaises, Raise, Avail, Held
  <2> QED
    BY <2>3, <2>4
<1>12. ASSUME NEW r \in Req, SettleMove(r) PROVE Ledger!LNext
  <2>1. mode # "down" /\ mode' = mode /\ reserved[r] # None
    BY <1>12, <1>u DEF SettleMove, SettleInv
  <2>2. CASE StateFor(verdict[r]) = "spent"
    <3>1. Ledger!Spend(r)
      BY <1>12, <2>1, <2>2 DEF SettleMove, Ledger!Spend
    <3> QED
      BY <3>1 DEF Ledger!LNext
  <2>3. CASE StateFor(verdict[r]) # "spent"
    <3>1. Ledger!Return(r)
      BY <1>12, <2>1, <2>3 DEF SettleMove, Ledger!Return
    <3> QED
      BY <3>1 DEF Ledger!LNext
  <2> QED
    BY <2>2, <2>3
<1>13. ASSUME NEW r \in Req, Reconcile(r) PROVE UNCHANGED <<Avail, Held, spent>>
  BY <1>13 DEF Reconcile, memory, disk, history, Avail, Held
<1>14. CASE Crash
  <2>1. UNCHANGED <<mem, reserved, rfile, spent, file>> /\ mode # "down" /\ ~ahead /\ edits = 0
    BY <1>14, <1>t DEF Crash, memory, disk
  <2> QED
    BY <2>1, CrashDoesNotShow
<1>15. CASE Start
  BY <1>15 DEF Start, disk, Avail, Held
<1>16. CASE FinishStart
  BY <1>16 DEF FinishStart, memory, disk, history, Avail, Held
<1>17. ASSUME NEW i \in Intent, EditFile(i) PROVE FALSE
  BY <1>17, <1>t DEF EditFile
<1>18. ASSUME NEW i \in Intent, AppendRevocation(i) PROVE UNCHANGED <<Avail, Held, spent>>
  BY <1>18 DEF AppendRevocation, memory, disk, history, Avail, Held
<1>19. CASE UNCHANGED vars
  BY <1>19 DEF vars, memory, disk, history, Avail, Held
<1>20. ASSUME NEW r \in Req, PrepareRaises(r) PROVE UNCHANGED <<Avail, Held, spent>>
  BY <1>20 DEF PrepareRaises, memory, disk, history, Avail, Held
<1>21. ASSUME NEW r \in Req, KernelBlocks(r) PROVE UNCHANGED <<Avail, Held, spent>>
  BY <1>21 DEF KernelBlocks, memory, disk, history, Avail, Held
<1> QED
  BY <1>1, <1>2, <1>3, <1>4, <1>5, <1>6, <1>7, <1>8, <1>9, <1>10, <1>11, <1>12, <1>13, <1>14,
     <1>15, <1>16, <1>17, <1>18, <1>19, <1>20, <1>21 DEF Next, Thread, Done

-----------------------------------------------------------------------------
(* Conservation: each intent is counted where it is.                       *)

\* the effects no verdict calls a failure, and the requests with a verdict of success:
\* a request may be one without the other
Effects   == applied \ Judged("confirmedFailure")
Successes == Judged("confirmedSuccess")

\* requests that hold intent i (h says which each holds), or were admitted with it (u says
\* with what each was) and are among those that used it up (a)
Holding(h, u, a, i) == {r \in Req : h[r] = i \/ (r \in a /\ u[r] = i)}

\* of every intent, what is available (m), held or used for an effect (a) is at most what
\* was granted, and what is available, held or spent by verdict (b) is at least that, but
\* for what revocations took (t)
Balanced(m, h, u, a, b, t) == \A i \in Intent :
    /\ m[i] + Cardinality(Holding(h, u, a, i)) <= Granted[i]
    /\ Granted[i] <= m[i] + t[i] + Cardinality(Holding(h, u, b, i))

\* whoever holds an intent holds the one it was admitted with, and before its effect the
\* file has it too
HoldInv ==
    /\ IsFiniteSet({r \in Req : used[r] # None})
    /\ \A r \in Req :
         /\ reserved[r] \in {None, used[r]} /\ rfile[r] \in {None, used[r]}
         /\ pc[r] \in {"reserving", "reserved"} => reserved[r] = used[r]
         /\ pc[r] \in {"reserved", "executed"} => reserved[r] = used[r] /\ rfile[r] = used[r]
         /\ r \in applied /\ verdict[r] \in {"none", "unresolved"} =>
               reserved[r] = used[r] /\ rfile[r] = used[r]

\* memory is balanced, and so are the two files when they belong together, as they do
\* whenever the process is down
BalanceInv == Undisturbed =>
    /\ mode # "down" => Balanced(mem, reserved, used, Effects, Successes, taken)
    /\ ~split => Balanced(file, rfile, used, Effects, Successes, taken)
    /\ mode = "down" => ~split

\* The requests counted for an intent are among those that were admitted.
LEMMA HoldingFinite ==
    ASSUME NEW u, NEW a, IsFiniteSet({r \in Req : u[r] # None}),
           NEW h, \A r \in Req : h[r] \in {None, u[r]}, NEW i \in Intent
    PROVE  /\ IsFiniteSet(Holding(h, u, a, i))
           /\ Cardinality(Holding(h, u, a, i)) \in Nat
<1>1. Holding(h, u, a, i) \in SUBSET {r \in Req : u[r] # None}
  BY IntentsAssumption DEF Holding
<1> QED
  BY <1>1, FS_Subset, FS_CardinalityType

\* Taking out revoked intents keeps the balance: the revocations account for them.
LEMMA RevokingBalances ==
    ASSUME NEW m \in Counts, NEW t \in Counts, NEW gone, NEW h, NEW u, NEW a, NEW b,
           \A i \in Intent : /\ Cardinality(Holding(h, u, a, i)) \in Nat
                             /\ Cardinality(Holding(h, u, b, i)) \in Nat,
           Balanced(m, h, u, a, b, t)
    PROVE  Balanced(Without(m, gone), h, u, a, b,
                    [i \in Intent |-> t[i] + m[i] - Without(m, gone)[i]])
<1>1. \A i \in Intent : /\ Without(m, gone)[i] \in Nat /\ Without(m, gone)[i] <= m[i]
                        /\ m[i] \in Nat /\ t[i] \in Nat /\ Granted[i] \in Nat
  BY WithoutType, IntentsAssumption DEF Counts
<1> QED
  BY <1>1 DEF Balanced

\* More taken by revocations does not disturb the balance of what has not changed.
LEMMA TakingMoreBalances ==
    ASSUME NEW m \in Counts, NEW t \in Counts, NEW more \in Counts, NEW h, NEW u, NEW a, NEW b,
           \A i \in Intent : t[i] <= more[i] /\ Cardinality(Holding(h, u, b, i)) \in Nat,
           Balanced(m, h, u, a, b, t)
    PROVE  Balanced(m, h, u, a, b, more)
<1>1. \A i \in Intent : m[i] \in Nat /\ t[i] \in Nat /\ more[i] \in Nat /\ Granted[i] \in Nat
  BY IntentsAssumption DEF Counts
<1> QED
  BY <1>1 DEF Balanced

\* The decision moves one intent from what is available to what is held.
LEMMA ReservingBalances ==
    ASSUME NEW m \in Counts, NEW t \in Counts, NEW h \in Holdings, NEW u \in Holdings, NEW a, NEW b,
           NEW r \in Req, NEW i \in Intent, r \notin a, r \notin b, h[r] = None, u[r] = None,
           \A j \in Intent : IsFiniteSet(Holding(h, u, a, j)) /\ IsFiniteSet(Holding(h, u, b, j)),
           Balanced(m, h, u, a, b, t)
    PROVE  Balanced([m EXCEPT ![i] = @ - 1], [h EXCEPT ![r] = i], [u EXCEPT ![r] = i], a, b, t)
<1> DEFINE h2 == [h EXCEPT ![r] = i]
           u2 == [u EXCEPT ![r] = i]
           m2 == [m EXCEPT ![i] = @ - 1]
<1>1. ASSUME NEW c \in {a, b}
      PROVE  Holding(h2, u2, c, i) = Holding(h, u, c, i) \cup {r} /\ r \notin Holding(h, u, c, i)
  BY <1>1, IntentsAssumption DEF Holding, Holdings
<1>2. \A c \in {a, b} : \A j \in Intent \ {i} : Holding(h2, u2, c, j) = Holding(h, u, c, j)
  BY IntentsAssumption DEF Holding, Holdings
<1>3. ASSUME NEW c \in {a, b}
      PROVE  Cardinality(Holding(h2, u2, c, i)) = Cardinality(Holding(h, u, c, i)) + 1
  <2>1. IsFiniteSet(Holding(h, u, c, i))
    BY <1>3
  <2> HIDE DEF h2, u2
  <2> QED
    BY <1>1, <1>3, <2>1, FS_AddElement
<1>4. \A j \in Intent : /\ Cardinality(Holding(h, u, a, j)) \in Nat
                        /\ Cardinality(Holding(h, u, b, j)) \in Nat
                        /\ m[j] \in Nat /\ t[j] \in Nat /\ Granted[j] \in Nat
  BY FS_CardinalityType, IntentsAssumption DEF Counts
<1>5. m2[i] = m[i] - 1 /\ \A j \in Intent \ {i} : m2[j] = m[j]
  BY DEF Counts
<1> HIDE DEF h2, u2, m2
<1>6. Balanced(m2, h2, u2, a, b, t)
  BY <1>2, <1>3, <1>4, <1>5 DEF Balanced
<1> QED
  BY <1>6 DEF h2, u2, m2

\* Giving back an intent that was not used moves it the other way.
LEMMA ReturningBalances ==
    ASSUME NEW m \in Counts, NEW t \in Counts, NEW h \in Holdings, NEW u, NEW a, NEW b,
           NEW r \in Req, r \notin a, r \notin b, h[r] # None,
           \A j \in Intent : IsFiniteSet(Holding(h, u, a, j)) /\ IsFiniteSet(Holding(h, u, b, j)),
           Balanced(m, h, u, a, b, t)
    PROVE  Balanced([m EXCEPT ![h[r]] = @ + 1], [h EXCEPT ![r] = None], u, a, b, t)
<1> DEFINE i == h[r]
           h2 == [h EXCEPT ![r] = None]
           m2 == [m EXCEPT ![i] = @ + 1]
<1>0. i \in Intent
  BY DEF Holdings
<1>1. ASSUME NEW c \in {a, b}
      PROVE  Holding(h2, u, c, i) = Holding(h, u, c, i) \ {r} /\ r \in Holding(h, u, c, i)
  BY <1>1, IntentsAssumption DEF Holding, Holdings
<1>2. \A c \in {a, b} : \A j \in Intent \ {i} : Holding(h2, u, c, j) = Holding(h, u, c, j)
  BY IntentsAssumption DEF Holding, Holdings
<1>3. ASSUME NEW c \in {a, b}
      PROVE  Cardinality(Holding(h2, u, c, i)) = Cardinality(Holding(h, u, c, i)) - 1
  <2>1. IsFiniteSet(Holding(h, u, c, i))
    BY <1>0, <1>3
  <2> HIDE DEF h2, i
  <2> QED
    BY <1>1, <1>3, <2>1, FS_RemoveElement
<1>4. \A j \in Intent : /\ Cardinality(Holding(h, u, a, j)) \in Nat
                        /\ Cardinality(Holding(h, u, b, j)) \in Nat
                        /\ m[j] \in Nat /\ t[j] \in Nat /\ Granted[j] \in Nat
  BY FS_CardinalityType, IntentsAssumption DEF Counts
<1>5. m2[i] = m[i] + 1 /\ \A j \in Intent \ {i} : m2[j] = m[j]
  BY <1>0 DEF Counts
<1> HIDE DEF h2, m2, i
<1>6. Balanced(m2, h2, u, a, b, t)
  BY <1>0, <1>2, <1>3, <1>4, <1>5 DEF Balanced
<1> QED
  BY <1>6 DEF h2, m2, i

\* An admitted request keeps the intent it was admitted with until it is settled, and the
\* file has it before the effect.
LEMMA HoldStep ==
    ASSUME TypeOK, LockInv, SettleInv, HoldInv, [Next]_vars
    PROVE  HoldInv'
<1> USE IntentsAssumption DEF HoldInv, HoldsLock, Saves, Quiet
<1>t. /\ pc \in [Req -> PC] /\ None \notin Intent
      /\ reserved \in Holdings /\ rfile \in Holdings /\ used \in Holdings
  BY DEF TypeOK
<1>v. verdict \in [Req -> Verdict]
  BY DEF TypeOK
<1> USE DEF Holdings
<1>1. ASSUME NEW r \in Req, Refresh(r) PROVE HoldInv'
  BY <1>1, <1>t DEF Refresh, disk, audit
<1>2. ASSUME NEW r \in Req, Refuse(r) PROVE HoldInv'
  BY <1>2, <1>t DEF Refuse, memory, audit, disk, history
<1>3. ASSUME NEW r \in Req, Match(r) PROVE HoldInv'
  <2>1. PICK i \in Intent : /\ reserved' = [reserved EXCEPT ![r] = i]
                            /\ used' = [used EXCEPT ![r] = i]
    BY <1>3 DEF Match, Broadest, Candidates
  <2>2. {s \in Req : used'[s] # None} = {s \in Req : used[s] # None} \cup {r}
    BY <1>t, <2>1
  <2>3. IsFiniteSet({s \in Req : used'[s] # None})
    <3>1. IsFiniteSet({s \in Req : used[s] # None})
      OBVIOUS
    <3> HIDE DEF HoldInv
    <3>2. IsFiniteSet({s \in Req : used[s] # None} \cup {r})
      BY <3>1, FS_AddElement
    <3> QED
      BY <2>2, <3>2
  <2>4. r \notin applied /\ rfile[r] = None
    BY <1>3 DEF Match, SettleInv
  <2>5. pc' = [pc EXCEPT ![r] = "reserving"] /\ rfile' = rfile /\ applied' = applied /\ verdict' = verdict
    BY <1>3 DEF Match, disk
  <2> QED
    BY <1>t, <2>1, <2>3, <2>4, <2>5
<1>4. CASE SaveFile
  BY <1>4 DEF SaveFile, audit
<1>5. ASSUME NEW r \in Req, SaveReserved(r) PROVE HoldInv'
  <2>1. pc[r] \in Saves
    BY <1>5 DEF SaveReserved, LockInv, HoldsLock, Saves
  <2>2. pc'[r] = IF pc[r] = "refreshed" THEN "refreshed" ELSE IF pc[r] = "reserving" THEN "reserved" ELSE "replied"
    BY <1>5, <1>t, <2>1 DEF SaveReserved, AfterSave, Saves
  <2>3. \A s \in Req \ {r} : pc'[s] = pc[s]
    BY <1>5, <1>t DEF SaveReserved
  <2>4. rfile' = reserved /\ UNCHANGED <<reserved, used, applied, verdict>>
    BY <1>5 DEF SaveReserved, ToSave, memory, audit
  <2> QED
    BY <2>1, <2>2, <2>3, <2>4
<1>6. ASSUME NEW r \in Req, SaveRaises(r) PROVE HoldInv'
  <2>1. pc[r] # "idle" /\ lock = r /\ split' \in BOOLEAN /\ Raise(r)
    BY <1>6 DEF SaveRaises, TypeOK, LockInv
  <2>2. \A s \in Req : pc'[s] = pc[s] \/ pc'[s] \in {"replied", "lost"}
    BY <2>1, RaiseEnds
  <2> QED
    BY <1>6, <2>2 DEF SaveRaises, memory, audit
<1>7. ASSUME NEW r \in Req, Execute(r) PROVE HoldInv'
  BY <1>7, <1>t DEF Execute, memory, audit, disk
<1>8. ASSUME NEW r \in Req, Outcome(r) PROVE HoldInv'
  BY <1>8, <1>t DEF Outcome, memory, disk, history
<1>9. ASSUME NEW r \in Req, OutcomeRaises(r) PROVE HoldInv'
  <2>1. pc[r] = "executed" /\ \A s \in Req \ {r} : pc'[s] = pc[s] /\ verdict'[s] = verdict[s]
    BY <1>9, <1>t, <1>v DEF OutcomeRaises
  <2>2. pc'[r] = "replied" /\ UNCHANGED <<reserved, rfile, used, applied>>
    BY <1>9, <1>t DEF OutcomeRaises, memory, disk, history
  <2> QED
    BY <2>1, <2>2
<1>10. ASSUME NEW r \in Req, SettleRecord(r) PROVE HoldInv'
  <2>1. pc'[r] \in {"replied", "settling"} /\ \A s \in Req \ {r} : pc'[s] = pc[s]
    BY <1>10, <1>t DEF SettleRecord
  <2> QED
    BY <1>10, <2>1 DEF SettleRecord, memory, disk, history
<1>11. ASSUME NEW r \in Req, SettleRaises(r) PROVE HoldInv'
  <2>1. pc[r] # "idle" /\ split' \in BOOLEAN /\ Raise(r)
    BY <1>11 DEF SettleRaises, Settles, TypeOK
  <2>2. mode = "starting" => lock \in {r, None}
    BY <1>11 DEF SettleRaises, Settles, LockInv
  <2>3. \A s \in Req : pc'[s] = pc[s] \/ pc'[s] \in {"replied", "lost"}
    BY <2>1, <2>2, RaiseEnds
  <2> QED
    BY <1>11, <2>3 DEF SettleRaises, memory
<1>12. ASSUME NEW r \in Req, SettleMove(r) PROVE HoldInv'
  BY <1>12, <1>t DEF SettleMove, StateFor, disk, audit
<1>13. ASSUME NEW r \in Req, Reconcile(r) PROVE HoldInv'
  BY <1>13 DEF Reconcile, thread, memory, disk, history
<1>14. CASE Crash
  BY <1>14, <1>t DEF Crash, Lost, memory, audit, disk
<1>15. CASE Start
  <2>1. \A s \in Req : pc'[s] \in Quiet /\ (pc'[s] = "idle" => pc[s] = "idle")
    BY <1>15, <1>t DEF Start, LockInv
  <2>2. UNCHANGED <<rfile, used, applied, verdict>> /\ reserved' = rfile
    BY <1>15 DEF Start, disk, audit
  <2> QED
    BY <2>1, <2>2
<1>16. CASE FinishStart
  BY <1>16 DEF FinishStart, thread, memory, audit, disk, history
<1>17. ASSUME NEW i \in Intent, EditFile(i) PROVE HoldInv'
  BY <1>17 DEF EditFile, thread, memory, audit, history
<1>18. ASSUME NEW i \in Intent, AppendRevocation(i) PROVE HoldInv'
  BY <1>18 DEF AppendRevocation, thread, memory, audit, disk, history
<1>19. CASE UNCHANGED vars
  BY <1>19 DEF vars, thread, memory, audit, disk, history
<1>20. ASSUME NEW r \in Req, PrepareRaises(r) PROVE HoldInv'
  BY <1>20, <1>t DEF PrepareRaises, memory, disk, history
<1>21. ASSUME NEW r \in Req, KernelBlocks(r) PROVE HoldInv'
  BY <1>21, <1>t DEF KernelBlocks, memory, audit, disk, history
<1> QED
  BY <1>1, <1>2, <1>3, <1>4, <1>5, <1>6, <1>7, <1>8, <1>9, <1>10, <1>11, <1>12, <1>13, <1>14,
     <1>15, <1>16, <1>17, <1>18, <1>19, <1>20, <1>21 DEF Next, Thread, Done

\* Only a decision, a settlement, a revocation, a save or a start moves what is counted.
LEMMA BalanceKept ==
    ASSUME BalanceInv, UNCHANGED <<mem, reserved, disk, used, applied, verdict, taken, split>>,
           (~torn' => ~torn) /\ (edits' = 0 => edits = 0),
           mode' # mode => mode # "down" /\ (mode' = "down" => torn' = (torn \/ split))
    PROVE  BalanceInv'
BY DEF BalanceInv, Undisturbed, Effects, Successes, Judged, disk

\* An effect, or a verdict on one, moves nothing that is counted: whoever holds an intent
\* while it acts is judged with that intent in memory and in the file.
LEMMA JudgingBalances ==
    ASSUME TypeOK, HoldInv, BalanceInv, NEW r \in Req, verdict[r] = "none",
           UNCHANGED <<mode, mem, reserved, disk, used, taken, split, torn, edits>>,
           r \in applied' => reserved[r] = used[r] /\ rfile[r] = used[r],
           \A s \in Req \ {r} : verdict'[s] = verdict[s] /\ (s \in applied' <=> s \in applied),
           applied \subseteq applied'
    PROVE  BalanceInv'
<1> USE DEF Judged, Effects, Successes
<1>1. \A i \in Intent : /\ Holding(reserved, used, Effects', i) = Holding(reserved, used, Effects, i)
                        /\ Holding(rfile, used, Effects', i) = Holding(rfile, used, Effects, i)
  BY DEF Holding, TypeOK
<1>2. Successes \subseteq Successes' /\ Successes' \subseteq Req
  OBVIOUS
<1>3. \A i \in Intent : /\ Holding(reserved, used, Successes, i) \in SUBSET Holding(reserved, used, Successes', i)
                        /\ Holding(rfile, used, Successes, i) \in SUBSET Holding(rfile, used, Successes', i)
  BY <1>2 DEF Holding
<1> HIDE DEF Judged, Effects, Successes
<1>4. \A i \in Intent : /\ IsFiniteSet(Holding(reserved, used, Successes', i))
                        /\ IsFiniteSet(Holding(rfile, used, Successes', i))
  BY HoldingFinite DEF HoldInv
<1>5. \A i \in Intent :
        /\ Cardinality(Holding(reserved, used, Successes, i)) <= Cardinality(Holding(reserved, used, Successes', i))
        /\ Cardinality(Holding(rfile, used, Successes, i)) <= Cardinality(Holding(rfile, used, Successes', i))
  BY <1>3, <1>4, FS_Subset
<1>6. \A i \in Intent : /\ Cardinality(Holding(reserved, used, Successes, i)) \in Nat
                        /\ Cardinality(Holding(rfile, used, Successes, i)) \in Nat
                        /\ Cardinality(Holding(reserved, used, Successes', i)) \in Nat
                        /\ Cardinality(Holding(rfile, used, Successes', i)) \in Nat
                        /\ mem[i] \in Nat /\ file[i] \in Nat /\ taken[i] \in Nat /\ Granted[i] \in Nat
  BY HoldingFinite, IntentsAssumption DEF HoldInv, TypeOK, Counts
<1>7. /\ Balanced(mem, reserved, used, Effects, Successes, taken)
           => Balanced(mem, reserved, used, Effects', Successes', taken)
      /\ Balanced(file, rfile, used, Effects, Successes, taken)
           => Balanced(file, rfile, used, Effects', Successes', taken)
  BY <1>1, <1>5, <1>6 DEF Balanced
<1> QED
  BY <1>7 DEF BalanceInv, Undisturbed, disk

\* An intent is available, held or used, never two of these and never none, whatever
\* fails, and over crashes that leave the two files together.
LEMMA BalanceStep ==
    ASSUME IInv, HoldInv, BalanceInv, [Next]_vars
    PROVE  BalanceInv'
<1> USE IntentsAssumption DEF HoldsLock, Saves, Quiet
<1>t. /\ pc \in [Req -> PC] /\ mem \in Counts /\ taken \in Counts /\ file \in Counts
      /\ reserved \in Holdings /\ rfile \in Holdings /\ used \in Holdings
      /\ edits \in Nat /\ split \in BOOLEAN /\ torn \in BOOLEAN /\ None \notin Intent
  BY DEF IInv, TypeOK
<1>i. TypeOK /\ LockInv /\ SettleInv /\ SyncInv
  BY DEF IInv
<1>f. \A a : \A i \in Intent : /\ IsFiniteSet(Holding(reserved, used, a, i))
                              /\ Cardinality(Holding(reserved, used, a, i)) \in Nat
                              /\ IsFiniteSet(Holding(rfile, used, a, i))
                              /\ Cardinality(Holding(rfile, used, a, i)) \in Nat
  BY HoldingFinite DEF HoldInv
<1>e. applied' = applied /\ verdict' = verdict => Effects' = Effects /\ Successes' = Successes
  BY DEF Effects, Successes, Judged
<1>1. ASSUME NEW r \in Req, Refresh(r) PROVE BalanceInv'
  <2>1. UNCHANGED <<mode, reserved, file, rfile, used, applied, verdict, split, torn, edits>>
    BY <1>1 DEF Refresh, disk, audit, bounds
  <2>2. CASE frozen'
    BY <1>1, <1>e, <2>1, <2>2 DEF Refresh, BalanceInv, Undisturbed
  <2>3. CASE ~frozen'
    <3>1. mem' = Without(mem, revoked)
          /\ taken' = [i \in Intent |-> taken[i] + mem[i] - Without(mem, revoked)[i]]
      BY <1>1, <2>3 DEF Refresh
    <3>2. Balanced(mem, reserved, used, Effects, Successes, taken)
            => Balanced(mem', reserved, used, Effects, Successes, taken')
      BY <1>t, <1>f, <3>1, RevokingBalances
    <3>3. taken' \in Counts /\ \A i \in Intent : taken[i] <= taken'[i]
      BY <1>t, <3>1, WithoutType DEF Counts
    <3>4. Balanced(file, rfile, used, Effects, Successes, taken)
            => Balanced(file, rfile, used, Effects, Successes, taken')
      BY <1>t, <1>f, <3>3, TakingMoreBalances
    <3> QED
      BY <1>e, <2>1, <3>2, <3>4 DEF BalanceInv, Undisturbed
  <2> QED
    BY <2>2, <2>3
<1>2. ASSUME NEW r \in Req, Refuse(r) PROVE BalanceInv'
  BY <1>2, BalanceKept DEF Refuse, memory, audit, history, past, bounds
<1>3. ASSUME NEW r \in Req, Match(r) PROVE BalanceInv'
  <2>1. PICK i \in Intent : /\ mem' = [mem EXCEPT ![i] = @ - 1]
                            /\ reserved' = [reserved EXCEPT ![r] = i]
                            /\ used' = [used EXCEPT ![r] = i]
    BY <1>3 DEF Match, Broadest, Candidates
  <2>2. r \notin Effects /\ r \notin Successes /\ used[r] = None /\ reserved[r] = None
    BY <1>3, <1>i DEF Match, SettleInv, Effects, Successes, Judged
  <2>3. UNCHANGED <<mode, file, rfile, applied, verdict, taken, split, torn, edits>>
    BY <1>3 DEF Match, disk, bounds
  <2>4. Balanced(mem, reserved, used, Effects, Successes, taken)
          => Balanced(mem', reserved', used', Effects, Successes, taken)
    BY <1>t, <1>f, <2>1, <2>2, ReservingBalances
  <2>5. \A j : /\ Holding(rfile, used', Effects, j) = Holding(rfile, used, Effects, j)
               /\ Holding(rfile, used', Successes, j) = Holding(rfile, used, Successes, j)
    BY <1>t, <2>1, <2>2 DEF Holding, Holdings
  <2>6. Balanced(file, rfile, used, Effects, Successes, taken)
          => Balanced(file, rfile, used', Effects, Successes, taken)
    BY <2>5 DEF Balanced
  <2> QED
    BY <1>e, <2>3, <2>4, <2>6 DEF BalanceInv, Undisturbed
<1>4. CASE SaveFile
  <2>1. mode # "down"
    BY <1>4, <1>i DEF SaveFile, LockInv, TypeOK
  <2> QED
    BY <1>4, <1>e, <2>1 DEF SaveFile, BalanceInv, Undisturbed, audit, bounds
<1>5. ASSUME NEW r \in Req, SaveReserved(r) PROVE BalanceInv'
  <2>1. mode # "down"
    BY <1>5, <1>i DEF SaveReserved, LockInv
  <2>2. edits = 0 => file = mem
    BY <1>5, <1>i DEF SaveReserved, SyncInv
  <2> QED
    BY <1>5, <1>e, <2>1, <2>2 DEF SaveReserved, ToSave, BalanceInv, Undisturbed, memory, audit, bounds
<1>6. ASSUME NEW r \in Req, SaveRaises(r) PROVE BalanceInv'
  <2>1. mode # "down"
    BY <1>6, <1>i DEF SaveRaises, LockInv
  <2>2. /\ UNCHANGED <<mem, reserved, rfile, used, applied, verdict, taken, edits>>
        /\ (split' = split /\ file' = file) \/ split' = TRUE
    BY <1>6 DEF SaveRaises, memory, audit
  <2>3. /\ mode' = IF mode = "starting" THEN "down" ELSE mode
        /\ torn' = (torn \/ (mode = "starting" /\ split'))
    BY <1>6 DEF SaveRaises, Raise
  <2> QED
    BY <1>t, <1>e, <2>1, <2>2, <2>3 DEF BalanceInv, Undisturbed
<1>7. ASSUME NEW r \in Req, Execute(r) PROVE BalanceInv'
  <2>1. verdict[r] = "none" /\ reserved[r] = used[r] /\ rfile[r] = used[r]
    BY <1>7, <1>i DEF Execute, SettleInv, HoldInv
  <2>2. UNCHANGED <<mode, mem, reserved, disk, used, verdict, taken, split, torn, edits>>
    BY <1>7 DEF Execute, memory, audit, past, bounds
  <2>3. applied \subseteq applied' /\ \A s \in Req \ {r} : s \in applied' <=> s \in applied
    BY <1>7 DEF Execute
  <2> QED
    BY <1>i, <2>1, <2>2, <2>3, JudgingBalances
<1>8. ASSUME NEW r \in Req, Outcome(r) PROVE BalanceInv'
  <2>1. verdict[r] = "none" /\ reserved[r] = used[r] /\ rfile[r] = used[r]
    BY <1>8, <1>i DEF Outcome, SettleInv, HoldInv
  <2>2. UNCHANGED <<mode, mem, reserved, disk, used, applied, taken, split, torn, edits>>
    BY <1>8 DEF Outcome, memory, history, past, bounds
  <2>3. \A s \in Req \ {r} : verdict'[s] = verdict[s]
    BY <1>8, <1>i DEF Outcome, TypeOK
  <2> QED
    BY <1>i, <2>1, <2>2, <2>3, JudgingBalances
<1>9. ASSUME NEW r \in Req, OutcomeRaises(r) PROVE BalanceInv'
  <2>1. verdict[r] = "none" /\ reserved[r] = used[r] /\ rfile[r] = used[r]
    BY <1>9, <1>i DEF OutcomeRaises, SettleInv, HoldInv
  <2>2. UNCHANGED <<mode, mem, reserved, disk, used, applied, taken, split, torn, edits>>
    BY <1>9 DEF OutcomeRaises, memory, history, past
  <2>3. \A s \in Req \ {r} : verdict'[s] = verdict[s]
    BY <1>9, <1>i DEF OutcomeRaises, TypeOK
  <2> QED
    BY <1>i, <2>1, <2>2, <2>3, JudgingBalances
<1>10. ASSUME NEW r \in Req, SettleRecord(r) PROVE BalanceInv'
  BY <1>10, BalanceKept DEF SettleRecord, memory, history, past, bounds
<1>11. ASSUME NEW r \in Req, SettleRaises(r) PROVE BalanceInv'
  <2>1. mode # "down"
    BY <1>11, <1>i DEF SettleRaises, Settles, LockInv
  <2>2. UNCHANGED <<mem, reserved, disk, used, applied, verdict, taken, split, edits>>
    BY <1>11 DEF SettleRaises, memory, disk
  <2>3. /\ mode' = IF mode = "starting" THEN "down" ELSE mode
        /\ torn' = (torn \/ (mode = "starting" /\ split))
    BY <1>11 DEF SettleRaises, Raise
  <2> QED
    BY <1>t, <2>1, <2>2, <2>3, BalanceKept
<1>12. ASSUME NEW r \in Req, SettleMove(r) PROVE BalanceInv'
  <2>1. /\ reserved[r] # None /\ reserved[r] = used[r]
        /\ mode # "down"
    BY <1>12, <1>i DEF SettleMove, SettleInv, HoldInv, LockInv
  <2>2. /\ reserved' = [reserved EXCEPT ![r] = None]
        /\ UNCHANGED <<mode, file, rfile, used, applied, verdict, taken, split, torn, edits>>
    BY <1>12 DEF SettleMove, disk, audit, bounds
  <2>3. CASE StateFor(verdict[r]) = "spent"
    <3>1. mem' = mem
      BY <1>12, <2>3 DEF SettleMove
    <3>2. r \in Successes
      BY <2>3, StateForType DEF Successes, Judged
    <3>3. \A j \in Intent :
            /\ Holding(reserved', used, Effects, j) \in SUBSET Holding(reserved, used, Effects, j)
            /\ Holding(reserved', used, Successes, j) = Holding(reserved, used, Successes, j)
      BY <1>t, <2>1, <2>2, <3>2 DEF Holding, Holdings
    <3>4. \A j \in Intent : /\ Cardinality(Holding(reserved', used, Effects, j)) \in Nat
                            /\ Cardinality(Holding(reserved', used, Effects, j))
                                 <= Cardinality(Holding(reserved, used, Effects, j))
      BY <1>f, <3>3, FS_Subset, FS_CardinalityType
    <3>5. \A j \in Intent : mem[j] \in Nat /\ Granted[j] \in Nat
      BY <1>t DEF Counts
    <3>6. Balanced(mem, reserved, used, Effects, Successes, taken)
            => Balanced(mem, reserved', used, Effects, Successes, taken)
      BY <1>f, <3>3, <3>4, <3>5 DEF Balanced
    <3> QED
      BY <1>e, <2>2, <3>1, <3>6 DEF BalanceInv, Undisturbed
  <2>4. CASE StateFor(verdict[r]) = "returned"
    <3>1. mem' = [mem EXCEPT ![reserved[r]] = @ + 1]
      BY <1>12, <2>4 DEF SettleMove
    <3>2. r \notin Effects /\ r \notin Successes
      BY <2>4, StateForType DEF Effects, Successes, Judged
    <3>3. Balanced(mem, reserved, used, Effects, Successes, taken)
            => Balanced(mem', reserved', used, Effects, Successes, taken)
      BY <1>t, <1>f, <2>1, <2>2, <3>1, <3>2, ReturningBalances
    <3> QED
      BY <1>e, <2>2, <3>3 DEF BalanceInv, Undisturbed
  <2> QED
    BY <1>12, <2>3, <2>4 DEF SettleMove
<1>13. ASSUME NEW r \in Req, Reconcile(r) PROVE BalanceInv'
  <2>1. verdict[r] = "none" /\ (r \in applied => reserved[r] = used[r] /\ rfile[r] = used[r])
    BY <1>13 DEF Reconcile, HoldInv
  <2>2. UNCHANGED <<mode, mem, reserved, disk, used, applied, taken, split, torn, edits>>
    BY <1>13 DEF Reconcile, memory, history, past, bounds
  <2>3. \A s \in Req \ {r} : verdict'[s] = verdict[s]
    BY <1>13, <1>i DEF Reconcile, TypeOK
  <2> QED
    BY <1>i, <2>1, <2>2, <2>3, JudgingBalances
<1>14. CASE Crash
  BY <1>14, <1>t, BalanceKept DEF Crash, memory, audit
<1>15. CASE Start
  BY <1>15, <1>e DEF Start, BalanceInv, Undisturbed, disk, audit, bounds
<1>16. CASE FinishStart
  <2>1. UNCHANGED <<mem, reserved, disk, used, applied, verdict, taken, split, torn, edits>>
        /\ mode' # "down" /\ mode # "down"
    BY <1>16 DEF FinishStart, memory, audit, history, past, bounds
  <2> QED
    BY <2>1, BalanceKept
<1>17. ASSUME NEW i \in Intent, EditFile(i) PROVE BalanceInv'
  BY <1>17, <1>t DEF EditFile, BalanceInv, Undisturbed
<1>18. ASSUME NEW i \in Intent, AppendRevocation(i) PROVE BalanceInv'
  BY <1>18, BalanceKept DEF AppendRevocation, thread, memory, audit, history, past, bounds
<1>19. CASE UNCHANGED vars
  BY <1>19, BalanceKept DEF vars, memory, audit, history, past, bounds
<1>20. ASSUME NEW r \in Req, PrepareRaises(r) PROVE BalanceInv'
  BY <1>20, BalanceKept DEF PrepareRaises, memory, history, past
<1>21. ASSUME NEW r \in Req, KernelBlocks(r) PROVE BalanceInv'
  BY <1>21, BalanceKept DEF KernelBlocks, memory, audit, history, past
<1> QED
  BY <1>1, <1>2, <1>3, <1>4, <1>5, <1>6, <1>7, <1>8, <1>9, <1>10, <1>11, <1>12, <1>13, <1>14,
     <1>15, <1>16, <1>17, <1>18, <1>19, <1>20, <1>21 DEF Next, Thread, Done

\* At first everything granted is available, in memory and in the file.
LEMMA InitBalances == Init => HoldInv /\ BalanceInv
<1> SUFFICES ASSUME Init PROVE HoldInv /\ BalanceInv
  OBVIOUS
<1> USE IntentsAssumption
<1>1. HoldInv
  <2>1. {r \in Req : used[r] # None} = {}
    BY DEF Init
  <2>2. IsFiniteSet({r \in Req : used[r] # None})
    BY <2>1, FS_EmptySet
  <2> QED
    BY <2>2 DEF Init, HoldInv
<1>2. \A i \in Intent : /\ Holding(reserved, used, Effects, i) = {}
                        /\ Holding(reserved, used, Successes, i) = {}
  BY DEF Init, Holding, Effects, Successes, Judged
<1>3. Balanced(mem, reserved, used, Effects, Successes, taken)
  <2>1. \A i \in Intent : /\ mem[i] = Granted[i] /\ taken[i] = 0 /\ Granted[i] \in Nat
                          /\ Cardinality(Holding(reserved, used, Effects, i)) = 0
                          /\ Cardinality(Holding(reserved, used, Successes, i)) = 0
    BY <1>2, FS_EmptySet DEF Init
  <2> QED
    BY <2>1 DEF Balanced
<1>4. file = mem /\ rfile = reserved /\ mode = "up"
  BY DEF Init
<1> QED
  BY <1>1, <1>3, <1>4 DEF BalanceInv

\* What is counted for an intent is what was used and what is held, some of it both.
LEMMA HoldingBounds ==
    ASSUME NEW h, HoldInv, \A r \in Req : h[r] \in {None, used[r]}, NEW a \in SUBSET Req,
           NEW i \in Intent
    PROVE  /\ Cardinality(Holding(h, used, a, i)) \in Nat
           /\ Cardinality({r \in Req : h[r] = i}) \in Nat /\ Uses(i, a) \in Nat
           /\ Uses(i, a) <= Cardinality(Holding(h, used, a, i))
           /\ Cardinality(Holding(h, used, a, i))
                 <= Cardinality({r \in Req : h[r] = i}) + Uses(i, a)
<1> DEFINE H == Holding(h, used, a, i)
           A == {r \in Req : h[r] = i}
           B == {r \in a : used[r] = i}
<1>1. IsFiniteSet(H) /\ Cardinality(H) \in Nat
  BY HoldingFinite DEF HoldInv
<1>2. H = A \cup B /\ A \in SUBSET H /\ B \in SUBSET H
  BY DEF Holding
<1> HIDE DEF H, A, B
<1>3. /\ IsFiniteSet(A) /\ Cardinality(A) \in Nat
      /\ IsFiniteSet(B) /\ Cardinality(B) \in Nat /\ Cardinality(B) <= Cardinality(H)
  BY <1>1, <1>2, FS_Subset, FS_CardinalityType
<1>4. A \cap B \in SUBSET A
  OBVIOUS
<1>5. Cardinality(A \cap B) \in Nat
  BY <1>3, <1>4, FS_Subset, FS_CardinalityType
<1>6. Cardinality(H) = Cardinality(A) + Cardinality(B) - Cardinality(A \cap B)
  BY <1>2, <1>3, FS_Union
<1>7. Cardinality(H) <= Cardinality(A) + Cardinality(B)
  BY <1>3, <1>5, <1>6
<1> QED
  BY <1>1, <1>3, <1>7 DEF H, A, B, Uses

-----------------------------------------------------------------------------
(* The theorems.                                                           *)

\* What the broker's lock, its two files and the recorded verdicts keep true of each
\* other between any two steps.
THEOREM Invariance == Spec => []IInv
<1>1. IInv /\ [Next]_vars => IInv'
  BY TypeStep, LockStep, SettleStep, RevokeStep, SyncStep DEF IInv
<1> QED
  BY <1>1, InitHolds, PTL DEF Spec

\* _settle_and_record and settle_reserved: an intent is settled one way only, as the log's
\* verdict says, and where no state can be observed that is how the effect went, whatever
\* fails or dies.
THEOREM SettlesOneWay == Spec => []SettledOneWay
<1>1. IInv => SettledOneWay
  <2> SUFFICES ASSUME SettleInv PROVE SettledOneWay
    BY DEF IInv
  <2>1. ASSUME NEW r \in Req
        PROVE  /\ "spent" \in settled[r] => verdict[r] = "confirmedSuccess" /\ (Intended(r) \/ r \in applied)
               /\ "returned" \in settled[r] => verdict[r] = "confirmedFailure" /\ (Intended(r) \/ r \notin applied)
    <3>1. /\ "spent" \in settled[r] => verdict[r] = "confirmedSuccess"
          /\ "returned" \in settled[r] => verdict[r] = "confirmedFailure"
      BY DEF SettleInv
    <3>2. ~Intended(r) => /\ verdict[r] = "confirmedSuccess" => r \in applied
                          /\ verdict[r] = "confirmedFailure" => r \notin applied
      BY DEF SettleInv
    <3> QED
      BY <3>1, <3>2
  <2>2. \A r \in Req : ~({"spent", "returned"} \subseteq settled[r])
    BY <2>1
  <2> QED
    BY <2>1, <2>2 DEF SettledOneWay
<1> QED
  BY <1>1, Invariance, PTL

\* _refresh_intents: a decision never takes an intent whose revocation was there when it
\* began, not one that a failed request has given back or a restart has loaded since.
THEOREM RevokedStaysRevoked == Spec => []RevokedNeverUsed
<1>1. IInv => RevokedNeverUsed
  BY DEF IInv, RevokeInv, RevokedNeverUsed
<1> QED
  BY <1>1, Invariance, PTL

\* Reservation, settlement, revocation and the two files behind them implement the ledger
\* of three states, over any number of requests, failures, crashes and restarts, until a
\* process dies with memory ahead of the files.
THEOREM StoreImplementsLedger == Spec => ImplementsLedger
<1>1. Init => Ledger!LInit
  BY DEF Init, Ledger!LInit
<1>2. IInv /\ [Next]_vars => [(~unsaved' /\ edits' = 0) => Ledger!LNext]_(Ledger!lvars)
  BY LedgerStep DEF Ledger!lvars, Avail, Held
<1> QED
  BY <1>1, <1>2, Invariance, PTL DEF Spec, ImplementsLedger

\* _persist_intents and _settle_and_record: no intent authorizes more effects than were
\* granted of it, those aside that a verdict calls failures, and while the broker serves
\* none is lost but by a verdict of success, whatever saves and records fail and however
\* often the process dies, unless it dies with one half of a save done.
THEOREM NeitherOverspentNorLost == Spec => []IntentsConserved
<1>1. IInv /\ HoldInv /\ BalanceInv /\ [Next]_vars => HoldInv' /\ BalanceInv'
  BY HoldStep, BalanceStep DEF IInv
<1>2. IInv /\ HoldInv /\ BalanceInv => IntentsConserved
  <2> SUFFICES ASSUME IInv, HoldInv, BalanceInv, Undisturbed PROVE NoOverspend /\ IntentsNotLost
    BY DEF IntentsConserved
  <2>t. /\ Effects \in SUBSET Req /\ Successes \in SUBSET Req /\ mem \in Counts /\ taken \in Counts /\ file \in Counts
        /\ \A i \in Intent : Granted[i] \in Nat
    BY IntentsAssumption DEF IInv, TypeOK, Effects, Successes, Judged
  <2>h. \A r \in Req : reserved[r] \in {None, used[r]} /\ rfile[r] \in {None, used[r]}
    BY DEF HoldInv
  <2>1. ASSUME NEW i \in Intent PROVE Uses(i, Effects) <= Granted[i]
    <3>0. PICK m \in Counts : \E h : /\ \A r \in Req : h[r] \in {None, used[r]}
                                     /\ Balanced(m, h, used, Effects, Successes, taken)
      BY <2>t, <2>h DEF BalanceInv
    <3>1. PICK h : /\ \A r \in Req : h[r] \in {None, used[r]}
                   /\ Balanced(m, h, used, Effects, Successes, taken)
      BY <3>0
    <3>2. m[i] \in Nat /\ m[i] + Cardinality(Holding(h, used, Effects, i)) <= Granted[i]
      BY <3>1 DEF Balanced, Counts
    <3>3. /\ Cardinality(Holding(h, used, Effects, i)) \in Nat /\ Uses(i, Effects) \in Nat
          /\ Uses(i, Effects) <= Cardinality(Holding(h, used, Effects, i))
      BY <2>t, <3>1, HoldingBounds
    <3> QED
      BY <2>t, <3>2, <3>3
  <2>2. ASSUME mode = "up", NEW i \in Intent
        PROVE  mem[i] + taken[i] + Cardinality({r \in Req : reserved[r] = i}) + Uses(i, Successes)
                  >= Granted[i]
    <3>1. /\ mem[i] \in Nat /\ taken[i] \in Nat
          /\ Granted[i] <= mem[i] + taken[i] + Cardinality(Holding(reserved, used, Successes, i))
      BY <2>t, <2>2 DEF BalanceInv, Balanced, Counts
    <3> QED
      BY <2>t, <2>h, <3>1, HoldingBounds
  <2> QED
    BY <2>1, <2>2 DEF NoOverspend, IntentsNotLost, Effects, Successes
<1> QED
  BY <1>1, <1>2, InitBalances, Invariance, PTL DEF Spec

=============================================================================
