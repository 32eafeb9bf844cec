------------------------------ MODULE Intents ------------------------------
(***************************************************************************)
(* Three-state intent consumption (E24d) in darm_guard/broker.py: the      *)
(* principal's single-use intents, reserved under the broker's lock with   *)
(* the prepared record, settled by the recorded verdict, and kept in two   *)
(* files that are replaced one after the other (_persist_intents).         *)
(*                                                                         *)
(* Covered: concurrent requests, the freeze of an edited intents file,     *)
(* revocations, which fitting intent is taken, a kernel that keeps the     *)
(* decision for ever, the two halves of a save, saves and log records that *)
(* fail, a process that dies anywhere, and startup (reload,                *)
(* reconcile_pending, settle_reserved).                                    *)
(*                                                                         *)
(* Abstracted: a list of intents counts equal lines; a constraint by       *)
(* digest is one by value; whether a premise holds is a free choice at the *)
(* decision; keys are left out. The observation after an effect finds what *)
(* is there by then, so its verdict is free (Broker has the states it is   *)
(* computed from). M_ operators are mutated forms of the one that follows. *)
(***************************************************************************)
EXTENDS Integers, FiniteSets

CONSTANTS
    Req, Intent, None,
    Granted,        \* the intents file the principal wrote: a count per intent
    Line,           \* what each intent says: its tool, its constraints, its premises
    Asks,           \* what the requests may ask for: a tool and arguments for each
    Faults,         \* what may fail: a subset of {"save", "append", "kernel"}
    MaxFailures,    \* bound: failed saves, records and kernel calls
    MaxCrashes,     \* bound: times the process dies
    MaxEdits,       \* bound: edits of the intents file by the principal
    MaxRevocations  \* bound: lines of the revocations file

ASSUME IntentsAssumption ==
    /\ Granted \in [Intent -> Nat] /\ DOMAIN Line = Intent /\ \A a \in Asks : DOMAIN a = Req
    /\ \A i \in Intent : IsFiniteSet(Line[i].constraints \cup Line[i].premises)
    /\ Faults \subseteq {"save", "append", "kernel"} /\ MaxFailures \in Nat
    /\ MaxCrashes \in Nat /\ MaxEdits \in Nat /\ MaxRevocations \in Nat
    /\ None \notin Intent \cup Req

Counts   == [Intent -> Nat]
Holdings == [Req -> Intent \cup {None}]
Verdict  == {"none", "confirmedSuccess", "confirmedFailure", "unresolved"}
Answer   == {"none", "succeeded", "failed", "unknown"}
PC       == {"idle", "refreshed", "blocked", "reserving", "reserved", "executed", "closed",
             "settling", "moving", "replied", "lost"}

VARIABLES
    mode,       \* "up", "starting" (serve before it serves) or "down"
    lock,       \* Broker._lock
    saving,     \* the half of _persist_intents that comes next, or "no"
    pc,
    mem,        \* Broker.intents
    reserved,   \* Broker._reserved
    written,    \* Broker._intents_written: what the broker last wrote or loaded
    frozen,     \* Broker._intents_frozen
    file,       \* the intents file
    rfile,      \* the .reserved file beside it
    revoked,    \* the lines of the revocations file
    asked,      \* what each request asks for
    answer,     \* what _execute returned to a request that has not recorded it
    prepared,   \* log: requests with a prepared record
    verdict,    \* log: the verdict of the outcome or reconciled record
    settled,    \* log: the states its intent_settled records name
    used,       \* history: the intent a request was admitted with
    applied,    \* history: requests whose effect took place
    spent,      \* history: the intent a request used up
    taken,      \* history: intents removed by revocation
    banned,     \* history: what was revoked when a request's decision began
    split,      \* history: the intents file is newer than the .reserved file
    torn,       \* history: the process has died while they were split
    ahead,      \* history: memory has changed since the last complete save
    unsaved,    \* history: the process has died while it was ahead
    crashes, edits, failures

thread == <<lock, saving, pc>>
memory == <<mem, reserved, written, frozen>>
disk   == <<file, rfile>>
audit  == <<prepared, verdict, settled>>
past   == <<banned, split, torn, ahead, unsaved>>
given  == <<asked, revoked, answer>>
history == <<used, applied, spent, taken, past>>
bounds == <<crashes, edits, failures>>
vars   == <<mode, thread, memory, disk, given, audit, history, bounds>>

TypeOK ==
    /\ mode \in {"up", "starting", "down"}
    /\ lock \in Req \cup {None} /\ saving \in {"no", "file", "reserved"}
    /\ pc \in [Req -> PC]
    /\ mem \in Counts /\ written \in Counts /\ file \in Counts /\ taken \in Counts
    /\ reserved \in Holdings /\ rfile \in Holdings /\ used \in Holdings /\ spent \in Holdings
    /\ frozen \in BOOLEAN /\ revoked \subseteq Intent
    /\ asked \in Asks /\ answer \in [Req -> Answer]
    /\ prepared \subseteq Req /\ applied \subseteq Req
    /\ verdict \in [Req -> Verdict]
    /\ settled \in [Req -> SUBSET {"spent", "returned", "reserved"}]
    /\ banned \in [Req -> SUBSET Intent]
    /\ {split, torn, ahead, unsaved} \subseteq BOOLEAN
    /\ crashes \in Nat /\ edits \in Nat /\ failures \in Nat

Init ==
    /\ mode = "up" /\ lock = None /\ saving = "no" /\ pc = [r \in Req |-> "idle"]
    /\ mem = Granted /\ written = Granted /\ file = Granted /\ frozen = FALSE
    /\ reserved = [r \in Req |-> None] /\ rfile = reserved
    /\ asked \in Asks /\ answer = [r \in Req |-> "none"]
    /\ revoked = {} /\ prepared = {}
    /\ verdict = [r \in Req |-> "none"] /\ settled = [r \in Req |-> {}]
    /\ used = reserved /\ applied = {} /\ spent = reserved
    /\ taken = [i \in Intent |-> 0]
    /\ banned = [r \in Req |-> {}] /\ split = FALSE /\ torn = FALSE /\ ahead = FALSE /\ unsaved = FALSE
    /\ crashes = 0 /\ edits = 0 /\ failures = 0

-----------------------------------------------------------------------------
(* Admission, under the lock.                                              *)

M_WithoutOne(counts, gone) == [i \in Intent |-> IF i \in gone THEN counts[i] - 1 ELSE counts[i]]
Without(counts, gone) == [i \in Intent |-> IF i \in gone THEN 0 ELSE counts[i]]

\* _refresh_intents: freeze when someone else wrote the file, else apply the revocations;
\* a changed list is saved before the decision goes on
Refresh(r) ==
    /\ mode = "up" /\ pc[r] = "idle" /\ lock = None
    /\ frozen' = (frozen \/ file # written)
    /\ IF frozen' THEN /\ pc' = [pc EXCEPT ![r] = "replied"]
                       /\ UNCHANGED <<lock, saving, mem, taken, banned, ahead>>
       ELSE /\ pc' = [pc EXCEPT ![r] = "refreshed"] /\ lock' = r
            /\ mem' = Without(mem, revoked)
            /\ taken' = [i \in Intent |-> taken[i] + mem[i] - mem'[i]]
            /\ saving' = IF mem' # mem THEN "file" ELSE "no"
            /\ ahead' = (ahead \/ mem' # mem) /\ banned' = [banned EXCEPT ![r] = revoked]
    /\ UNCHANGED <<mode, reserved, written, disk, given, audit, used, applied, spent,
                   split, torn, unsaved, bounds>>

\* no intent fits, or something else refuses
Refuse(r) ==
    /\ pc[r] = "refreshed" /\ saving = "no"
    /\ lock' = None /\ pc' = [pc EXCEPT ![r] = "replied"]
    /\ UNCHANGED <<mode, saving, memory, disk, given, audit, history, bounds>>

\* _intent_fits: the tool is equal, and for each constraint some argument has its name and
\* every argument of that name has its value
Holds(con, args) == /\ \E a \in args : a[1] = con[1]
                    /\ \A a \in args : a[1] = con[1] => a[2] = con[2]
IntentFits(i, r) == /\ Line[i].tool = asked[r].tool
                    /\ \A con \in Line[i].constraints : Holds(con, asked[r].args)

\* _premise_problem: each premise is observed in the workspace when the request is decided
PremisesHold(i, met) == Line[i].premises \subseteq met

\* _order_intents: broadest first, the one with the fewest constraints
Breadth(i) == Cardinality(Line[i].constraints) + Cardinality(Line[i].premises)
Broadest(set) == {i \in set : \A j \in set : Breadth(i) <= Breadth(j)}

Candidates(r, met) == {i \in Intent : mem[i] > 0 /\ IntentFits(i, r) /\ PremisesHold(i, met)}
Observed == SUBSET UNION {Line[i].premises : i \in Intent}

\* the prepared record, then the intent moves to the reserved ones and both are saved
Match(r) ==
    /\ pc[r] = "refreshed" /\ saving = "no"
    /\ prepared' = prepared \cup {r}
    /\ \E met \in Observed : \E i \in Broadest(Candidates(r, met)) :
          /\ mem' = [mem EXCEPT ![i] = @ - 1]
          /\ reserved' = [reserved EXCEPT ![r] = i] /\ used' = [used EXCEPT ![r] = i]
    /\ saving' = "file" /\ ahead' = TRUE /\ pc' = [pc EXCEPT ![r] = "reserving"]
    /\ UNCHANGED <<mode, lock, written, frozen, disk, given, verdict, settled,
                   applied, spent, taken, banned, split, torn, unsaved, bounds>>

Fails(kind) == kind \in Faults /\ failures < MaxFailures /\ failures' = failures + 1

\* the checkpoint hook raises out of append after the prepared record is durable: the
\* request is refused, and open in the log
PrepareRaises(r) ==
    /\ pc[r] = "refreshed" /\ saving = "no" /\ Fails("append")
    /\ \E met \in Observed : Candidates(r, met) # {}
    /\ prepared' = prepared \cup {r}
    /\ lock' = None /\ pc' = [pc EXCEPT ![r] = "replied"]
    /\ UNCHANGED <<mode, saving, memory, disk, given, verdict, settled, history, crashes, edits>>

\* Kernel.decide runs with the lock held and without a limit on the request it writes or
\* the line it reads: a kernel that stops in the middle keeps the lock for ever
KernelBlocks(r) ==
    /\ pc[r] = "refreshed" /\ saving = "no" /\ Fails("kernel")
    /\ pc' = [pc EXCEPT ![r] = "blocked"]
    /\ UNCHANGED <<mode, lock, saving, memory, disk, given, audit, history, crashes, edits>>

-----------------------------------------------------------------------------
(* _persist_intents: two files, each replaced atomically, one after the    *)
(* other. The lock is released when the save that needed it is complete.   *)

SaveFile ==
    /\ saving = "file" /\ saving' = "reserved"
    /\ file' = mem /\ written' = mem /\ split' = TRUE
    /\ UNCHANGED <<mode, lock, pc, mem, reserved, frozen, rfile, given, audit,
                   used, applied, spent, taken, banned, torn, ahead, unsaved, bounds>>

AfterSave == [refreshed |-> "refreshed", reserving |-> "reserved", moving |-> "replied"]

M_ReservedAtStartOnly == IF mode = "starting" THEN reserved ELSE rfile
ToSave == reserved

SaveReserved(r) ==
    /\ saving = "reserved" /\ lock = r /\ saving' = "no"
    /\ rfile' = ToSave /\ split' = FALSE /\ ahead' = FALSE
    /\ pc' = [pc EXCEPT ![r] = AfterSave[@]]
    /\ lock' = IF pc[r] = "refreshed" THEN lock ELSE None
    /\ UNCHANGED <<mode, memory, file, given, audit, used, applied, spent, taken,
                   banned, torn, unsaved, bounds>>

\* what a dying process leaves: requests without a reply are lost
Lost == [r \in Req |-> IF pc[r] \in {"idle", "replied"} THEN pc[r] ELSE "lost"]

\* an exception ends the request, and the save and the lock it holds, if any; at startup
\* it ends the process
Raise(r) ==
    /\ IF lock = r THEN saving' = "no" /\ lock' = None ELSE UNCHANGED <<saving, lock>>
    /\ IF mode = "starting" THEN mode' = "down" /\ pc' = Lost
                            ELSE mode' = mode /\ pc' = [pc EXCEPT ![r] = "replied"]
    /\ torn' = (torn \/ (mode = "starting" /\ split'))
    /\ unsaved' = (unsaved \/ (mode = "starting" /\ ahead))

\* a save raises: before the file is replaced, after it (the directory cannot be synced,
\* and _intents_written keeps the old text), or before the .reserved file is
SaveRaises(r) ==
    /\ saving # "no" /\ lock = r /\ Fails("save")
    /\ \/ UNCHANGED <<file, split>>
       \/ saving = "file" /\ file' = mem /\ split' = TRUE
    /\ Raise(r)
    /\ UNCHANGED <<memory, rfile, given, audit, used, applied, spent, taken, banned, ahead,
                   crashes, edits>>

-----------------------------------------------------------------------------
(* The effect, its verdict, and the settlement.                            *)

\* _intended_state: the tools whose effect can be observed afterwards
Intended(r) == asked[r].tool \in {"write_file", "delete_file", "rename_file"}

\* what _execute may return: a change may stand although the call failed (an inspection
\* that raises after it); only a remote call may end without knowing
Returns(r, a, took) == CASE a = "succeeded" -> took
                         [] a = "failed"    -> took => Intended(r)
                         [] a = "unknown"   -> ~Intended(r)

Execute(r) ==
    /\ pc[r] = "reserved" /\ pc' = [pc EXCEPT ![r] = "executed"]
    /\ \E a \in Answer \ {"none"} : \E took \in BOOLEAN :
          /\ Returns(r, a, took)
          /\ answer' = [answer EXCEPT ![r] = a]
          /\ applied' = IF took THEN applied \cup {r} ELSE applied
    /\ UNCHANGED <<mode, lock, saving, memory, disk, asked, revoked, audit, used, spent, taken,
                   past, bounds>>

\* the verdict: where there is an intended state _reconcile compares it, and the state
\* before, with what is there now, whoever made it so; elsewhere the answer decides, and
\* after a crash nobody knows it
M_UnknownAsFailure(a) == IF a = "succeeded" THEN "confirmedSuccess" ELSE "confirmedFailure"
ByAnswer(a) == CASE a = "succeeded" -> "confirmedSuccess"
                 [] a = "failed"    -> "confirmedFailure"
                 [] OTHER           -> "unresolved"
Verdicts(r, a) == IF Intended(r) THEN Verdict \ {"none"} ELSE {ByAnswer(a)}

\* the outcome record
Outcome(r) ==
    /\ pc[r] = "executed" /\ pc' = [pc EXCEPT ![r] = "closed"]
    /\ \E v \in Verdicts(r, answer[r]) : verdict' = [verdict EXCEPT ![r] = v]
    /\ answer' = [answer EXCEPT ![r] = "none"]
    /\ UNCHANGED <<mode, lock, saving, memory, disk, asked, revoked, prepared, settled, history, bounds>>

\* the outcome cannot be recorded, or the hook raises after it is: its intent stays reserved
OutcomeRaises(r) ==
    /\ pc[r] = "executed" /\ Fails("append")
    /\ pc' = [pc EXCEPT ![r] = "replied"]
    /\ \/ verdict' = verdict
       \/ \E v \in Verdicts(r, answer[r]) : verdict' = [verdict EXCEPT ![r] = v]
    /\ answer' = [answer EXCEPT ![r] = "none"]
    /\ UNCHANGED <<mode, lock, saving, memory, disk, asked, revoked, prepared, settled, history,
                   crashes, edits>>

\* _settle_and_record: success spends, a proven non-effect returns, else it stays reserved
M_AnythingElseSpends(v) == IF v = "confirmedFailure" THEN "returned" ELSE "spent"
StateFor(v) == CASE v = "confirmedSuccess" -> "spent"
                 [] v = "confirmedFailure" -> "returned"
                 [] OTHER                  -> "reserved"

\* at startup every open request is closed before any intent is settled
Reconciled == \A r \in prepared : verdict[r] # "none"
M_AtRuntimeOnly(r) == pc[r] = "closed"
Settles(r) == \/ pc[r] = "closed"
              \/ /\ mode = "starting" /\ pc[r] = "lost" /\ Reconciled
                 /\ lock = None /\ \A s \in Req : pc[s] # "settling"
                 /\ StateFor(verdict[r]) # "reserved"

\* the settlement record comes first, outside the lock
SettleRecord(r) ==
    /\ Settles(r) /\ reserved[r] # None
    /\ settled' = [settled EXCEPT ![r] = @ \cup {StateFor(verdict[r])}]
    /\ pc' = [pc EXCEPT ![r] = IF StateFor(verdict[r]) = "reserved" THEN "replied" ELSE "settling"]
    /\ UNCHANGED <<mode, lock, saving, memory, disk, given, prepared, verdict, history, bounds>>

\* it cannot be written, or the hook raises after it is: the intent stays reserved, until
\* a restart settles it
SettleRaises(r) ==
    /\ Settles(r) /\ reserved[r] # None /\ Fails("append")
    /\ settled' \in {settled, [settled EXCEPT ![r] = @ \cup {StateFor(verdict[r])}]}
    /\ UNCHANGED <<file, split>> /\ Raise(r)
    /\ UNCHANGED <<memory, rfile, given, prepared, verdict, used, applied, spent, taken,
                   banned, ahead, crashes, edits>>

\* then, under the lock, the intent moves and both files are saved
SettleMove(r) ==
    /\ pc[r] = "settling" /\ lock = None
    /\ lock' = r /\ saving' = "file" /\ ahead' = TRUE /\ pc' = [pc EXCEPT ![r] = "moving"]
    /\ reserved' = [reserved EXCEPT ![r] = None]
    /\ \/ /\ StateFor(verdict[r]) = "spent"
          /\ spent' = [spent EXCEPT ![r] = reserved[r]] /\ mem' = mem
       \/ /\ StateFor(verdict[r]) = "returned"
          /\ mem' = [mem EXCEPT ![reserved[r]] = @ + 1] /\ spent' = spent
    /\ UNCHANGED <<mode, written, frozen, disk, given, audit, used, applied, taken,
                   banned, split, torn, unsaved, bounds>>

-----------------------------------------------------------------------------
(* Crash and restart.                                                      *)

Crash ==
    /\ mode # "down" /\ crashes < MaxCrashes /\ crashes' = crashes + 1
    /\ torn' = (torn \/ split)
    /\ unsaved' = (unsaved \/ ahead)
    /\ mode' = "down" /\ lock' = None /\ saving' = "no" /\ pc' = Lost
    /\ answer' = [r \in Req |-> "none"]
    /\ UNCHANGED <<memory, disk, asked, revoked, audit, used, applied, spent, taken, banned, split, ahead,
                   edits, failures>>

\* load_intents and Broker.__init__; requests that left an intent reserved count as lost
Start ==
    /\ mode = "down" /\ mode' = "starting"
    /\ mem' = file /\ reserved' = rfile /\ written' = file /\ frozen' = FALSE
    /\ pc' = [r \in Req |-> IF rfile[r] # None THEN "lost" ELSE pc[r]]
    /\ ahead' = FALSE
    /\ UNCHANGED <<lock, saving, disk, given, audit, used, applied, spent, taken, banned,
                   split, torn, unsaved, bounds>>

\* reconcile_pending
Reconcile(r) ==
    /\ mode = "starting" /\ r \in prepared /\ verdict[r] = "none"
    /\ \E v \in Verdicts(r, "none") : verdict' = [verdict EXCEPT ![r] = v]
    /\ UNCHANGED <<mode, thread, memory, disk, given, prepared, settled, history, bounds>>

\* the end of settle_reserved: what is still unresolved stays reserved
M_NothingStays(v) == FALSE
StaysReserved(v) == StateFor(v) = "reserved"

FinishStart ==
    /\ mode = "starting" /\ Reconciled /\ lock = None
    /\ \A r \in Req : reserved[r] # None => StaysReserved(verdict[r])
    /\ mode' = "up"
    /\ UNCHANGED <<thread, memory, disk, given, audit, history, bounds>>

-----------------------------------------------------------------------------
(* The principal.                                                          *)

\* edits the intents file by hand: adds a line or takes one out
EditFile(i) ==
    /\ edits < MaxEdits /\ edits' = edits + 1
    /\ \E n \in {file[i] + 1, file[i] - 1} \cap Nat : file' = [file EXCEPT ![i] = n]
    /\ UNCHANGED <<mode, thread, memory, rfile, given, audit, history, crashes, failures>>

AppendRevocation(i) ==
    /\ Cardinality(revoked) < MaxRevocations
    /\ revoked' = revoked \cup {i}
    /\ UNCHANGED <<mode, thread, memory, disk, asked, answer, audit, history, bounds>>

Thread(r) ==
    \/ Refresh(r) \/ Refuse(r) \/ Match(r) \/ PrepareRaises(r) \/ KernelBlocks(r)
    \/ SaveReserved(r) \/ SaveRaises(r)
    \/ Execute(r) \/ Outcome(r) \/ OutcomeRaises(r)
    \/ SettleRecord(r) \/ SettleRaises(r) \/ SettleMove(r) \/ Reconcile(r)

Done == /\ mode = "up" /\ \A r \in Req : pc[r] \in {"replied", "lost"}
        /\ UNCHANGED vars

Next == \/ \E r \in Req : Thread(r)
        \/ SaveFile \/ Crash \/ Start \/ FinishStart \/ Done
        \/ \E i \in Intent : EditFile(i) \/ AppendRevocation(i)

Spec == Init /\ [][Next]_vars
\* a thread goes on unless it waits for the lock or the kernel; an operator restarts a
\* broker that has died
FairSpec == /\ Spec /\ WF_vars(SaveFile) /\ WF_vars(Start) /\ WF_vars(FinishStart)
            /\ \A r \in Req : WF_vars(Thread(r))

-----------------------------------------------------------------------------
(* Properties.                                                             *)

Uses(i, set) == Cardinality({r \in set : used[r] = i})
Judged(v)    == {r \in Req : verdict[r] = v}

\* An intent authorizes no more effects than the principal granted of it, those aside
\* that the observation afterwards took for failures.
NoOverspend == \A i \in Intent : Uses(i, applied \ Judged("confirmedFailure")) <= Granted[i]

\* assurance/claims.json:187: an intent is spent only by a confirmed effect. While the
\* broker serves, every granted intent is available, reserved, taken back by the
\* principal, or spent by a request with that verdict: none is lost.
IntentsNotLost ==
    mode = "up" => \A i \in Intent :
        mem[i] + taken[i] + Cardinality({r \in Req : reserved[r] = i})
            + Uses(i, Judged("confirmedSuccess")) >= Granted[i]

\* nobody edited the intents file, and no process died with one of the two files
\* newer than the other
Undisturbed == ~torn /\ edits = 0

\* Intents are neither overspent nor lost over all concurrent requests, returned
\* reservations, revocations, failing saves and records, and restarts, unless a process
\* died with one half of a save done (_persist_intents) or a verdict calls an effect a
\* failure, and then by no more than those effects.
IntentsConserved == Undisturbed => NoOverspend /\ IntentsNotLost

\* A request's intent is settled one way only, over crashes and restarts: never both
\* spent and returned, and as the verdict in the log says. Where no state can be observed
\* (a read, a remote call), that is how the effect went: spent for one that took place,
\* returned for one that did not.
SettledOneWay ==
    \A r \in Req : /\ ~({"spent", "returned"} \subseteq settled[r])
                   /\ "spent" \in settled[r] =>
                         verdict[r] = "confirmedSuccess" /\ (Intended(r) \/ r \in applied)
                   /\ "returned" \in settled[r] =>
                         verdict[r] = "confirmedFailure" /\ (Intended(r) \/ r \notin applied)

\* No request uses an intent that was revoked before its decision began, also not one
\* that a failed request gives back, or a restart loads, after the revocation.
RevokedNeverUsed == \A r \in Req : used[r] \notin banned[r]

\* The store implements the ledger as long as no process died with memory ahead of the
\* files: while the process is down the ledger is on disk.
Ledger == INSTANCE IntentLedger WITH
    avail <- IF mode = "down" THEN file ELSE mem,
    held  <- IF mode = "down" THEN rfile ELSE reserved
ImplementsLedger ==
    Ledger!LInit /\ [][(~unsaved' /\ edits' = 0) => Ledger!LNext]_(Ledger!lvars)

\* the kernel keeps a decision, and with it the lock, until the process dies
Blocked == \E r \in Req : pc[r] = "blocked"

\* A reservation with a recorded verdict is settled in the end, over failures and crashes
\* at any point; only one whose settlement failed while the broker serves, or found the
\* lock kept by the kernel, waits for the next restart (_settle_and_record,
\* settle_reserved).
ResolvedIsSettled ==
    \A r \in Req : reserved[r] # None /\ StateFor(verdict[r]) # "reserved"
                      ~> \/ reserved[r] = None
                         \/ mode = "up" /\ pc[r] = "replied" /\ failures > 0
                         \/ Blocked

\* No failure of a save or a record leaves the lock held or the startup stuck: every
\* request that began ends (answered, or with its process) unless the kernel keeps a
\* decision, and a broker that died and is started again serves.
RequestsEndBrokerReturns ==
    /\ \A r \in Req : pc[r] # "idle" ~> pc[r] \in {"replied", "lost"} \/ Blocked
    /\ mode # "up" ~> mode = "up"

\* broker.py:1494: the file differs from what the broker last wrote because "someone else
\* edited it, so freeze". A save that fails after its replacement freezes it as well.
FreezeMeansEdit == frozen => edits > 0

\* _refresh_intents: a frozen file is never written again by the broker.
FrozenFileNotWritten == [][frozen /\ frozen' /\ file' # file => edits' # edits]_vars

=============================================================================
