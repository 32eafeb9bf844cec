------------------------------- MODULE Broker -------------------------------
(***************************************************************************)
(* The request path of the DARM broker (darm_guard/broker.py): what one    *)
(* handler thread does from decide to reply (Broker._handle), the startup  *)
(* pass over the audit log (reconcile_pending), the idempotency-key table, *)
(* the attested files of the workspace, and the two readers of the log,    *)
(* verify_world and the read verdict.                                      *)
(*                                                                         *)
(* Covered: write_file, delete_file, read_file and http_get; concurrent    *)
(* handler threads, the broker's lock (held from decide to the prepared    *)
(* record and no longer), refused and failed appends, failing effects,     *)
(* unreadable targets, a process that dies between any two steps, and a    *)
(* foreign actor that edits the workspace.                                 *)
(*                                                                         *)
(* A foreign actor may also put a symlink where a file was; the broker     *)
(* follows none, and verify_world looks at none.                           *)
(*                                                                         *)
(* Abstracted: a file's digest is its content; policy, credential, intents *)
(* and clock are one free choice between admit and refuse; the compare-and *)
(* -swap of _cas_replace and _cas_delete is one step here (CasFile opens   *)
(* it up); an append that raises leaves all of its record in the log or    *)
(* nothing; the chain hashes and rename_file are left out. Operators named *)
(* M_ are mutated forms of the one that follows: the properties below must *)
(* fail under them.                                                        *)
(***************************************************************************)
EXTENDS Integers, Sequences, FiniteSets, FiniteSetsExt

CONSTANTS
    Req,            \* request ids: one handler thread each
    Path,           \* workspace paths
    Content,        \* file contents (and, digests being injective, digests)
    Key,            \* idempotency keys
    None,           \* the absent value: no key, no attestation, no state
    Absent,         \* B5's ("absent", None)
    Unavailable,    \* B5's ("unavailable", reason)
    Proposals,      \* the proposals clients send in this instance
    ReadGate,       \* cfg.read_requires_attestation
    Vouched,        \* what cfg.vouched_manifest may name: pairs of path and content
    Private,        \* the paths whose name has ".darm-tmp-" in it
    Faults,         \* the failures that may happen: a subset of FaultKinds
    MaxInFlight,    \* bound: requests between arrival and reply
    MaxCrashes,     \* bound: times the process dies
    MaxForeign      \* bound: edits by the foreign actor

FaultKinds == {"refuse",    \* the decision refuses (policy, intent, clock)
               "append",    \* the audit log cannot be written
               "hook",      \* the checkpoint hook raises after a record is durable
               "exec",      \* the effect fails with nothing changed
               "late",      \* an OSError after the target was replaced
               "xattr",     \* the file system takes no attestation
               "observe"}   \* a target cannot be observed

Invocation == [tool : {"write"}, path : Path, content : Content]
              \cup [tool : {"delete", "read", "http"}, path : Path, content : {None}]

Proposal == {[inv |-> i, key |-> k] : i \in Invocation, k \in Key \cup {None}}

ASSUME ConstantsAssumption ==
    /\ Proposals \subseteq Proposal
    /\ ReadGate \in BOOLEAN
    /\ Vouched \subseteq Path \X Content /\ Private \subseteq Path
    /\ Faults \subseteq FaultKinds
    /\ MaxInFlight \in Nat /\ MaxCrashes \in Nat /\ MaxForeign \in Nat
    /\ Absent \notin Content /\ Unavailable \notin Content /\ None \notin Content
    /\ Absent # Unavailable /\ None \notin {Absent, Unavailable}

Attestation == [rid : Req, target : Path, digest : Content]
State       == Content \cup {Absent, Unavailable, None}    \* B5 observations
\* what is at a path, or where the link there leads: a dangling link to Absent
File        == [content : Content \cup {Absent}, att : Attestation \cup {None}, link : BOOLEAN]
NoFile      == [content |-> Absent, att |-> None, link |-> FALSE]
Verdict     == {"confirmedSuccess", "confirmedFailure", "unresolved", "none"}
Effect      == {"none", "succeeded", "failed", "unknown", "already_applied"}
Event       == {"decision", "duplicate", "prepared", "outcome", "reconciled"}
LogRecord   == [event : Event, rid : Req, before : State, effect : Effect, verdict : Verdict]
KeyEntry    == [rid : Req, state : {"pending", "done", "failed"}]
PC          == {"idle", "arrived", "admitted", "observed", "prepared", "fetched",
                "executed", "reconciled", "recorded", "replied", "lost"}

\* the absent value is not one of the values it stands in for
ASSUME NoneAssumption ==
    None \notin Req \cup Key \cup Proposal \cup Attestation \cup KeyEntry

VARIABLES
    mode,       \* "starting" while serve reconciles, "up" while it serves
    lock,       \* Broker._lock: the thread that holds it, or None
    pc,         \* how far each handler thread is
    req,        \* what each request proposed
    before,     \* the before-state each thread observed
    effect,     \* the effect each thread reports
    fetched,    \* what a read found: content and attestation, one open file
    verdict,    \* the reconciliation each thread computed
    keys,       \* Broker._keys
    log,        \* the audit log
    files,      \* the workspace
    minted,     \* every attestation the broker ever put on a file
    applied,    \* history: requests whose effect took place
    crashes,    \* bound counter
    foreign     \* bound counter: edits the foreign actor made

vars == <<mode, lock, pc, req, before, effect, fetched, verdict, keys, log, files,
          minted, applied, crashes, foreign>>
durable == <<log, files, minted, applied>>     \* what a crash leaves
bounds  == <<crashes, foreign>>

TypeOK ==
    /\ mode \in {"starting", "up"}
    /\ lock \in Req \cup {None}
    /\ pc \in [Req -> PC]
    /\ req \in [Req -> Proposal \cup {None}]
    /\ \A r \in Req : pc[r] # "idle" => req[r] \in Proposal
    /\ before \in [Req -> State]
    /\ effect \in [Req -> Effect]
    /\ fetched \in [Req -> File]
    /\ verdict \in [Req -> Verdict]
    /\ keys \in [Key -> KeyEntry \cup {None}]
    /\ log \in Seq(LogRecord)
    /\ files \in [Path -> File]
    /\ minted \subseteq Attestation
    /\ applied \subseteq Req
    /\ crashes \in Nat /\ foreign \in Nat

-----------------------------------------------------------------------------
(* A request's fields. The log's records repeat tool, target, key and      *)
(* intended state; they never change, so they are read through the rid.    *)

Tool(r)    == req[r].inv.tool
Target(r)  == req[r].inv.path
KeyOf(r)   == req[r].key

\* _intended_state: present with the content's digest, absent, or no target
Intended(r) == CASE Tool(r) = "write"  -> req[r].inv.content
                 [] Tool(r) = "delete" -> Absent
                 [] OTHER              -> None

Changes(r) == Tool(r) \in {"write", "delete"}

\* _reconcile: B5's rule
Reconcile(b, intended, seen) ==
    CASE seen = Unavailable              -> "unresolved"
      [] seen = intended                 -> "confirmedSuccess"
      [] b # intended /\ seen = b        -> "confirmedFailure"
      [] OTHER                           -> "unresolved"

\* _observe: what is at the path, or unavailable when it is a link or cannot be read
Observations(p) ==
    {IF files[p].link THEN Unavailable ELSE files[p].content}
    \cup {s \in {Unavailable} : "observe" \in Faults}

Entry(ev, r, b, e, v) ==
    [event |-> ev, rid |-> r, before |-> b, effect |-> e, verdict |-> v]

-----------------------------------------------------------------------------
(* Readers of the log.                                                     *)

Closed(r)   == {i \in DOMAIN log : log[i].rid = r /\ log[i].event \in {"outcome", "reconciled"}}
Prepared(r) == {i \in DOMAIN log : log[i].rid = r /\ log[i].event = "prepared"}
M_OpenIgnoresOutcomes ==
    {r \in Req : Prepared(r) # {} /\ \A i \in Closed(r) : log[i].event = "outcome"}
Open        == {r \in Req : Prepared(r) # {} /\ Closed(r) = {}}
Logged      == {log[i].rid : i \in DOMAIN log}

\* _latest_entries: the positions that record a success on the path
M_SuccessesByEffect(p) ==
    {i \in DOMAIN log :
        /\ log[i].event \in {"outcome", "reconciled"} /\ log[i].effect = "succeeded"
        /\ Changes(log[i].rid) /\ Target(log[i].rid) = p}
Successes(p) ==
    {i \in DOMAIN log :
        /\ log[i].event \in {"outcome", "reconciled"}
        /\ Changes(log[i].rid) /\ Target(log[i].rid) = p
        /\ log[i].effect = "succeeded" \/ log[i].verdict = "confirmedSuccess"}

\* _latest_entries: the request of the last of them, None when there is none
Latest(p) == IF Successes(p) = {} THEN None ELSE log[Max(Successes(p))].rid

\* reconcile_pending: the key state a closing value (effect, else verdict) means
Means(e, eff, v) == e.effect = eff \/ (e.event = "reconciled" /\ e.verdict = v)
KeyState(r) ==
    CASE \E i \in Closed(r) : Means(log[i], "succeeded", "confirmedSuccess") -> "done"
      [] \E i \in Closed(r) : Means(log[i], "failed", "confirmedFailure")    -> "failed"
      [] OTHER                                                              -> "pending"

KeyUses(k) == {i \in DOMAIN log : log[i].event = "prepared" /\ KeyOf(log[i].rid) = k}

\* reconcile_pending: the key table rebuilt from the log, the last use winning
RebuiltKeys ==
    [k \in Key |->
        IF KeyUses(k) = {} THEN None
        ELSE LET r == log[Max(KeyUses(k))].rid IN [rid |-> r, state |-> KeyState(r)]]

-----------------------------------------------------------------------------
(* Startup.                                                                *)

Init ==
    /\ mode = "up" /\ lock = None
    /\ pc = [r \in Req |-> "idle"] /\ req = [r \in Req |-> None]
    /\ before = [r \in Req |-> None] /\ effect = [r \in Req |-> "none"]
    /\ fetched = [r \in Req |-> NoFile] /\ verdict = [r \in Req |-> "none"]
    /\ keys = [k \in Key |-> None]
    /\ log = <<>> /\ files = [p \in Path |-> NoFile]
    /\ minted = {} /\ applied = {}
    /\ crashes = 0 /\ foreign = 0

\* the verdict on a request a crash left open: B5's rule on a fresh observation of
\* its target, unresolved for a request that has none
M_TargetsOnly(r) ==
    {Reconcile(log[Min(Prepared(r))].before, Intended(r), seen) :
        seen \in {s \in Observations(Target(r)) : Changes(r)}}
StartVerdicts(r) ==
    IF ~Changes(r) THEN {"unresolved"}
    ELSE {Reconcile(log[Min(Prepared(r))].before, Intended(r), seen) :
            seen \in Observations(Target(r))}

\* reconcile_pending, one open request, in the order of the log: observe, classify,
\* append the reconciled record
ReconcilePending(r) ==
    /\ mode = "starting" /\ r \in Open
    /\ \A s \in Open : Min(Prepared(r)) <= Min(Prepared(s))
    /\ \E v \in StartVerdicts(r) :
          log' = Append(log, Entry("reconciled", r, None, "none", v))
    /\ UNCHANGED <<mode, lock, pc, req, before, effect, fetched, verdict, keys, files,
                   minted, applied, bounds>>

\* the end of reconcile_pending: the key table is rebuilt and the broker serves
FinishStart ==
    /\ mode = "starting" /\ Open = {}
    /\ mode' = "up" /\ keys' = RebuiltKeys
    /\ UNCHANGED <<lock, pc, req, before, effect, fetched, verdict, durable, bounds>>

\* the process dies: threads, lock and key table are gone
Crash ==
    /\ crashes < MaxCrashes /\ crashes' = crashes + 1
    /\ mode' = "starting" /\ lock' = None
    /\ keys' = [k \in Key |-> None]
    /\ pc' = [r \in Req |-> IF pc[r] \in {"idle", "replied"} THEN pc[r] ELSE "lost"]
    /\ UNCHANGED <<req, before, effect, fetched, verdict, durable, foreign>>

-----------------------------------------------------------------------------
(* A handler thread.                                                       *)

InFlight == {r \in Req : pc[r] \notin {"idle", "replied", "lost"}}

Arrive(r) ==
    /\ mode = "up" /\ pc[r] = "idle" /\ Cardinality(InFlight) < MaxInFlight
    /\ pc' = [pc EXCEPT ![r] = "arrived"]
    /\ \E p \in Proposals : req' = [req EXCEPT ![r] = p]
    /\ UNCHANGED <<mode, lock, before, effect, fetched, verdict, keys, durable, bounds>>

\* AuditLog.append: the record is durable, or the append raises, before or after
Recorded(e)          == log' = Append(log, e)
AppendRaises         == "append" \in Faults /\ log' = log
RecordedButRaises(e) == "hook" \in Faults /\ Recorded(e)

\* a refusal never depends on the log: the append may fail silently
RecordRefusal(e) == Recorded(e) \/ AppendRaises

Refuse(r) ==
    /\ pc[r] = "arrived" /\ lock = None /\ "refuse" \in Faults
    /\ RecordRefusal(Entry("decision", r, None, "none", "none"))
    /\ pc' = [pc EXCEPT ![r] = "replied"]
    /\ UNCHANGED <<mode, lock, req, before, effect, fetched, verdict, keys, files,
                   minted, applied, bounds>>

PriorUse(r) == IF KeyOf(r) = None THEN None ELSE keys[KeyOf(r)]

\* the key was used before: answered from the key table, nothing is executed
AnswerDuplicate(r) ==
    /\ pc[r] = "arrived" /\ lock = None /\ PriorUse(r) # None
    /\ LET same   == req[PriorUse(r).rid].inv = req[r].inv
           answer == IF same /\ PriorUse(r).state = "done" THEN "already_applied" ELSE "none"
       IN  /\ effect' = [effect EXCEPT ![r] = answer]
           /\ RecordRefusal(Entry("duplicate", r, None, answer, "none"))
    /\ pc' = [pc EXCEPT ![r] = "replied"]
    /\ UNCHANGED <<mode, lock, req, before, fetched, verdict, keys, files,
                   minted, applied, bounds>>

\* decide admits; the lock stays held until the prepared record is written
M_AdmitUnlocked(r) ==
    /\ pc[r] = "arrived" /\ lock = None /\ PriorUse(r) = None
    /\ pc' = [pc EXCEPT ![r] = "admitted"]
    /\ UNCHANGED <<mode, lock, req, before, effect, fetched, verdict, keys, durable, bounds>>
Admit(r) ==
    /\ pc[r] = "arrived" /\ lock = None /\ PriorUse(r) = None
    /\ lock' = r
    /\ pc' = [pc EXCEPT ![r] = "admitted"]
    /\ UNCHANGED <<mode, req, before, effect, fetched, verdict, keys, durable, bounds>>

ObserveBefore(r) ==
    /\ pc[r] = "admitted"
    /\ \E seen \in IF Changes(r) THEN Observations(Target(r)) ELSE {None} :
          before' = [before EXCEPT ![r] = seen]
    /\ pc' = [pc EXCEPT ![r] = "observed"]
    /\ UNCHANGED <<mode, lock, req, effect, fetched, verdict, keys, durable, bounds>>

\* the pending entry a prepared request leaves in the key table
PendingKey(r) ==
    IF KeyOf(r) = None THEN keys
    ELSE [keys EXCEPT ![KeyOf(r)] = [rid |-> r, state |-> "pending"]]

\* evidence before effect: prepared record and pending key, or refused outright
M_PrepareBestEffort(r) ==
    /\ pc[r] = "observed" /\ lock' = None
    /\ RecordRefusal(Entry("prepared", r, before[r], "none", "none"))
    /\ keys' = PendingKey(r)
    /\ pc' = [pc EXCEPT ![r] = "prepared"]
    /\ UNCHANGED <<mode, req, before, effect, fetched, verdict, files, minted, applied, bounds>>
M_LockKeptOnRefusal(r) ==
    /\ pc[r] = "observed"
    /\ \/ /\ Recorded(Entry("prepared", r, before[r], "none", "none"))
          /\ keys' = PendingKey(r) /\ lock' = None
          /\ pc' = [pc EXCEPT ![r] = "prepared"]
       \/ /\ AppendRaises
          /\ UNCHANGED <<keys, lock>>
          /\ pc' = [pc EXCEPT ![r] = "replied"]
    /\ UNCHANGED <<mode, req, before, effect, fetched, verdict, files, minted, applied, bounds>>
RecordPrepared(r) ==
    /\ pc[r] = "observed" /\ lock' = None
    /\ \/ /\ Recorded(Entry("prepared", r, before[r], "none", "none"))
          /\ keys' = PendingKey(r)
          /\ pc' = [pc EXCEPT ![r] = "prepared"]
       \/ /\ AppendRaises \/ RecordedButRaises(Entry("prepared", r, before[r], "none", "none"))
          /\ keys' = keys
          /\ pc' = [pc EXCEPT ![r] = "replied"]
    /\ UNCHANGED <<mode, req, before, effect, fetched, verdict, files, minted, applied, bounds>>

-----------------------------------------------------------------------------
(* _execute, outside the lock.                                             *)

Attest(r) == [rid |-> r, target |-> Target(r), digest |-> req[r].inv.content]

\* the temporary file is attested through its handle before it takes the name; the
\* write goes on without where setxattr fails
Attached(r) == {Attest(r)} \cup {a \in {None} : "xattr" \in Faults}
M_WrittenUnattested(r, att) ==
    [content |-> req[r].inv.content, att |-> files[Target(r)].att, link |-> FALSE]
Written(r, att) == [content |-> req[r].inv.content, att |-> att, link |-> FALSE]

\* _cas_replace: an unavailable before-state replaces whatever is there, but a link
MatchesForWrite(r)  == /\ before[r] \in {Unavailable, files[Target(r)].content}
                       /\ ~files[Target(r)].link
MatchesForDelete(r) == /\ before[r] \in Content /\ files[Target(r)].content = before[r]
                       /\ ~files[Target(r)].link

\* what was displaced cannot be inspected: the change stands and is reported failed
Unread(r) == "late" \in Faults /\ before[r] \in Content /\ files[Target(r)] # NoFile

\* how an effect that took place is reported: an OSError after it says "failed"
Reported(matches) ==
    {e \in {"succeeded"} : matches} \cup {e \in {"failed"} : "late" \in Faults}

ExecWrite(r) ==
    /\ pc[r] = "prepared" /\ Tool(r) = "write"
    /\ \E att \in Attached(r) :
          /\ minted' = minted \cup ({att} \ {None})
          /\ \/ /\ MatchesForWrite(r) \/ Unread(r)
                /\ files' = [files EXCEPT ![Target(r)] = Written(r, att)]
                /\ applied' = applied \cup {r}
                /\ \E e \in Reported(MatchesForWrite(r)) : effect' = [effect EXCEPT ![r] = e]
             \/ /\ ~MatchesForWrite(r)
                /\ UNCHANGED <<files, applied>>
                /\ effect' = [effect EXCEPT ![r] = "failed"]
    /\ pc' = [pc EXCEPT ![r] = "executed"]
    /\ UNCHANGED <<mode, lock, req, before, fetched, verdict, keys, log, bounds>>

\* _cas_delete: a link that was claimed is put back
ExecDelete(r) ==
    /\ pc[r] = "prepared" /\ Tool(r) = "delete"
    /\ \/ /\ MatchesForDelete(r) \/ (Unread(r) /\ ~files[Target(r)].link)
          /\ files' = [files EXCEPT ![Target(r)] = NoFile]
          /\ applied' = applied \cup {r}
          /\ \E e \in Reported(MatchesForDelete(r)) : effect' = [effect EXCEPT ![r] = e]
       \/ /\ ~MatchesForDelete(r)
          /\ UNCHANGED <<files, applied>>
          /\ effect' = [effect EXCEPT ![r] = "failed"]
    /\ pc' = [pc EXCEPT ![r] = "executed"]
    /\ UNCHANGED <<mode, lock, req, before, fetched, verdict, keys, log, minted, bounds>>

\* the content and the attestation come from one open file
Readable(p) == files[p].content # Absent /\ ~files[p].link
ExecRead(r) ==
    /\ pc[r] = "prepared" /\ Tool(r) = "read" /\ Readable(Target(r))
    /\ fetched' = [fetched EXCEPT ![r] = files[Target(r)]]
    /\ pc' = [pc EXCEPT ![r] = "fetched"]
    /\ UNCHANGED <<mode, lock, req, before, effect, verdict, keys, durable, bounds>>

\* _broker_verdict: origin, location, content and (by the log) freshness
M_NotFresh(f, p) ==
    /\ f.att # None /\ f.att.target = p /\ f.att.digest = f.content
Attributed(f, p) ==
    /\ f.att # None /\ f.att.target = p /\ f.att.digest = f.content
    /\ Latest(p) = f.att.rid /\ Tool(f.att.rid) = "write"

\* _read_verdict, after the file is read: the log's word, else the principal's, whose
\* manifest may change at any time; with the gate on, an unattributed read is refused
ReadVerdict(r) ==
    /\ pc[r] = "fetched"
    /\ \E manifest \in SUBSET Vouched :
          LET ok == ReadGate => \/ Attributed(fetched[r], Target(r))
                                \/ <<Target(r), fetched[r].content>> \in manifest
          IN  /\ effect' = [effect EXCEPT ![r] = IF ok THEN "succeeded" ELSE "failed"]
              /\ fetched' = [fetched EXCEPT ![r] = IF ok THEN @ ELSE NoFile]
    /\ pc' = [pc EXCEPT ![r] = "executed"]
    /\ UNCHANGED <<mode, lock, req, before, verdict, keys, durable, bounds>>

\* the request left the host: a complete answer, or none (effect unknown)
ExecHttp(r) ==
    /\ pc[r] = "prepared" /\ Tool(r) = "http"
    /\ \/ /\ applied' = applied \cup {r}
          /\ \E e \in {"succeeded", "unknown"} : effect' = [effect EXCEPT ![r] = e]
       \/ /\ applied' = applied
          /\ effect' = [effect EXCEPT ![r] = "unknown"]
    /\ pc' = [pc EXCEPT ![r] = "executed"]
    /\ UNCHANGED <<mode, lock, req, before, fetched, verdict, keys, log, files, minted, bounds>>

\* refused by the file system (or by fetch, before sending), or because the target is
\* a link: nothing changed
ExecFails(r) ==
    /\ pc[r] = "prepared"
    /\ \/ "exec" \in Faults
       \/ Tool(r) = "read" /\ ~Readable(Target(r))
       \/ Changes(r) /\ files[Target(r)].link
    /\ effect' = [effect EXCEPT ![r] = "failed"]
    /\ pc' = [pc EXCEPT ![r] = "executed"]
    /\ UNCHANGED <<mode, lock, req, before, fetched, verdict, keys, durable, bounds>>

-----------------------------------------------------------------------------
(* After the effect, still outside the lock.                               *)

ObserveAfter(r) ==
    /\ pc[r] = "executed"
    /\ \E v \in IF Changes(r)
                THEN {Reconcile(before[r], Intended(r), s) : s \in Observations(Target(r))}
                ELSE {"none"} :
          verdict' = [verdict EXCEPT ![r] = v]
    /\ pc' = [pc EXCEPT ![r] = "reconciled"]
    /\ UNCHANGED <<mode, lock, req, before, effect, fetched, keys, durable, bounds>>

\* the outcome record; when the append raises the reply says outcome_unrecorded
RecordOutcome(r) ==
    /\ pc[r] = "reconciled"
    /\ Recorded(Entry("outcome", r, before[r], effect[r], verdict[r])) \/ AppendRaises
    /\ pc' = [pc EXCEPT ![r] = "recorded"]
    /\ UNCHANGED <<mode, lock, req, before, effect, fetched, verdict, keys, files,
                   minted, applied, bounds>>

\* B7b: done only if the effect occurred, unknown stays pending
M_DoneOnVerdict(r) ==
    IF verdict[r] = "confirmedSuccess" THEN "done"
    ELSE IF effect[r] = "unknown" THEN "pending" ELSE "failed"
M_EffectAsState(r) == effect[r]
StateAfter(r) ==
    CASE effect[r] = "succeeded" -> "done"
      [] effect[r] = "unknown"   -> "pending"
      [] OTHER                   -> "failed"

UpdateKey(r) ==
    /\ pc[r] = "recorded"
    /\ keys' = IF KeyOf(r) = None THEN keys
               ELSE [keys EXCEPT ![KeyOf(r)].state = StateAfter(r)]
    /\ pc' = [pc EXCEPT ![r] = "replied"]
    /\ UNCHANGED <<mode, lock, req, before, effect, fetched, verdict, durable, bounds>>

-----------------------------------------------------------------------------
\* someone edits the workspace: any content with no attestation or a copied one, or a
\* link to anything or to nothing
ForeignFile == {NoFile} \cup [content : Content, att : minted \cup {None}, link : {FALSE}]
                        \cup [content : Content \cup {Absent}, att : {None}, link : {TRUE}]
Foreign(p) ==
    /\ foreign < MaxForeign /\ foreign' = foreign + 1
    /\ \E f \in ForeignFile : files' = [files EXCEPT ![p] = f]
    /\ UNCHANGED <<mode, lock, pc, req, before, effect, fetched, verdict, keys, log,
                   minted, applied, crashes>>

Thread(r) ==
    \/ Refuse(r) \/ AnswerDuplicate(r) \/ Admit(r) \/ ObserveBefore(r) \/ RecordPrepared(r)
    \/ ExecWrite(r) \/ ExecDelete(r) \/ ExecRead(r) \/ ExecHttp(r) \/ ExecFails(r)
    \/ ReadVerdict(r) \/ ObserveAfter(r) \/ RecordOutcome(r) \/ UpdateKey(r)

\* every request answered or lost to a crash: the instance has no more to do
Done == /\ mode = "up" /\ \A r \in Req : pc[r] \in {"replied", "lost"}
        /\ UNCHANGED vars

Next ==
    \/ \E r \in Req : Arrive(r) \/ Thread(r) \/ ReconcilePending(r)
    \/ FinishStart \/ Crash \/ Done
    \/ \E p \in Path : Foreign(p)

Spec == Init /\ [][Next]_vars

\* Python schedules every runnable handler thread, and a started serve runs on; Admit and
\* Refuse take the kernel's decision with the lock held, so this assumes a kernel that
\* answers (module Kernel says when it does not)
FairSpec ==
    /\ Spec
    /\ \A r \in Req : WF_vars(Thread(r)) /\ WF_vars(ReconcilePending(r))
    /\ WF_vars(FinishStart)

-----------------------------------------------------------------------------
(* verify_world: what it reports about one path.                           *)

FindingKinds == {"gone", "unattested", "undeleted", "moved", "changed", "missing", "stale"}

\* the walk looks at regular files, and not at the broker's private names
Looked(p) == Readable(p) /\ p \notin Private

\* attested for this path by a logged request, and the log's latest write is another
M_NeverSuperseded(p) == FALSE
Superseded(p) ==
    /\ files[p].att.rid \in Logged
    /\ Latest(p) \notin {None, files[p].att.rid} /\ Tool(Latest(p)) = "write"

Reports(p, kind) ==
    LET f     == files[p]
        here  == Looked(p) /\ f.att # None /\ f.att.target = p    \* attested for this path
        write == Latest(p) # None /\ Tool(Latest(p)) = "write"
        del   == Latest(p) # None /\ Tool(Latest(p)) = "delete"
    IN  CASE kind = "gone"       -> f.content = Absent /\ write
          [] kind = "unattested" -> Looked(p) /\ f.att = None /\ write
          [] kind = "undeleted"  -> /\ Looked(p) /\ del
                                    /\ f.att = None \/ (here /\ f.att.rid \in Logged)
          [] kind = "moved"      -> Looked(p) /\ f.att # None /\ ~here
          [] kind = "changed"    -> here /\ f.content # f.att.digest
          [] kind = "missing"    -> here /\ f.att.rid \notin Logged
          [] kind = "stale"      -> here /\ Superseded(p)

Findings(p) == {kind \in FindingKinds : Reports(p, kind)}

-----------------------------------------------------------------------------
(* Properties.                                                             *)

\* Evidence before effect: an effect, and an attestation on a file (a foreign copy
\* included), belongs to a request whose prepared record is already in the log,
\* whatever append failed and wherever the process died (handle, _execute).
EvidenceBeforeEffect ==
    /\ \A r \in applied : Prepared(r) # {}
    /\ \A p \in Path : files[p].att # None => Prepared(files[p].att.rid) # {}

\* An idempotency key buys at most one effect, over concurrent retries, crashes
\* and restarts: the table is read and marked under one lock and rebuilt from the
\* prepared records (_handle, reconcile_pending).
AtMostOncePerKey ==
    \A r, s \in applied : KeyOf(r) # None /\ KeyOf(r) = KeyOf(s) => r = s

\* Every prepared request is closed by one verdict at most, after its prepared record,
\* and none that a crash interrupted is open while the broker serves: a crash forgets
\* nothing and startup never closes a request twice (reconcile_pending).
ClosedOnce ==
    /\ \A r \in Req : \A i, j \in Closed(r) : i = j
    /\ \A r \in Req : \A i \in Closed(r) : \E j \in Prepared(r) : j < i
    /\ mode = "up" => \A r \in Open : pc[r] # "lost"

\* What a key answers does not depend on a restart: the answer in memory, once settled
\* and recorded, is the one reconcile_pending would rebuild from the log. (The reply to
\* a request whose outcome could not be recorded says outcome_unrecorded.)
RestartKeepsAnswers ==
    mode = "up" => \A k \in Key :
        keys[k] # None /\ keys[k].state # "pending" /\ keys[k].rid \notin Open
        => RebuiltKeys[k] = keys[k]

Quiescent == mode = "up" /\ InFlight = {}

\* requests whose write took place on a file system that took no attestation
WroteUnattested == {r \in applied : Tool(r) = "write" /\ Attest(r) \notin minted}

\* With nobody but the broker at work, verify_world never calls a file moved, changed or
\* missing from the log, at any moment, whatever the handler threads interleave; and it
\* calls a file unattested only where the broker itself put this content without an
\* attestation (write_file goes on when setxattr fails).
NoFalseTamper ==
    foreign = 0 => \A p \in Path :
        /\ Findings(p) \cap {"moved", "changed", "missing"} = {}
        /\ "unattested" \in Findings(p) =>
              \E r \in WroteUnattested : Target(r) = p /\ files[p].content = Intended(r)

\* the log shows the changes of a path one after the other, each with its outcome
SerialLog(p) ==
    LET changes == {r \in Req : Prepared(r) # {} /\ Changes(r) /\ Target(r) = p}
    IN  /\ \A r \in changes : Closed(r) # {}
        /\ \A r \in changes : \A s \in changes \ {r} :
              \A i \in Prepared(r), k \in Closed(r), j \in Prepared(s) : j < i \/ k < j

\* Where the log shows one recorded change of a path at a time, no foreign actor was at
\* work and every target could be observed, verify_world reports nothing at rest but an
\* attestation that is superseded or that the file system did not take, and then the
\* file holds what the latest entry intended: whatever effect failed and wherever the
\* process died (verify_world, _execute, reconcile_pending). A change nobody could
\* observe stays unresolved, so the log may rightly not know of it.
SerialWorldMatchesLog ==
    Quiescent /\ foreign = 0 /\ "observe" \notin Faults => \A p \in Path : SerialLog(p) =>
        /\ Findings(p) \subseteq {"stale", "unattested"}
        /\ Findings(p) # {} => files[p].content = req[Latest(p)].inv.content

\* If verify_world reports nothing about a path the log knows, the path holds what the
\* latest entry says, or something verify_world does not look at but takes for the file:
\* a link that leads somewhere, or a private name. Under any foreign edit, copied
\* attestation, interleaving or crash.
CleanWorldIsLogged ==
    \A p \in Path : Findings(p) = {} /\ Latest(p) # None =>
        \/ files[p].content = Intended(Latest(p))
        \/ files[p].link \/ p \in Private

\* A read the gate delivers is the content of the log's latest write of the path at
\* the moment of the verdict, or one the principal vouched for at exactly this path:
\* never foreign, moved, replayed or superseded by a recorded write (_read_verdict).
GatedReadIsLatest ==
    [][\A r \in Req : ReadVerdict(r) /\ effect'[r] = "succeeded" =>
          LET l == Latest(Target(r))
          IN  \/ l # None /\ Tool(l) = "write" /\ fetched[r].content = req[l].inv.content
              \/ <<Target(r), fetched[r].content>> \in Vouched]_vars

\* Every request that arrives is answered, unless the process dies under it or the kernel
\* keeps a decision (FairSpec): no path of the broker's own keeps the lock, and startup
\* always reaches serving again.
EveryRequestAnswered ==
    \A r \in Req : pc[r] = "arrived" ~> pc[r] \in {"replied", "lost"}
StartupFinishes == (mode = "starting") ~> (mode = "up")

-----------------------------------------------------------------------------
(* What the documents say and the code does not do: each is refuted.       *)

\* assurance/claims.json:58: "Legitimate operations never flag" (verify_world).
LegitimateNeverFlags ==
    Quiescent /\ foreign = 0 => \A p \in Path : Findings(p) = {}

\* verify_world: "each target's latest successful logged write must be the one its file
\* attests, and must still exist" - a link put in its place passes (its first lines
\* skip it, os.path.exists follows it).
CleanMeansAttested ==
    \A p \in Path : Findings(p) = {} /\ Latest(p) # None /\ Tool(Latest(p)) = "write" =>
        files[p].att # None /\ files[p].att.rid = Latest(p)

\* _settle_and_record's "confirmedFailure (a proven non-effect)", with no foreign actor.
FailureIsNonEffect ==
    foreign = 0 => \A r \in Req : verdict[r] = "confirmedFailure" => r \notin applied

\* The reply to a reused key: "an earlier attempt with this idempotency key failed;
\* nothing was applied".
FailedKeyAppliedNothing ==
    \A k \in Key : keys[k] # None /\ keys[k].state = "failed" => keys[k].rid \notin applied

=============================================================================
