------------------------------ MODULE AuditLog ------------------------------
(***************************************************************************)
(* The hash-chained audit log (AuditLog in darm_guard/broker.py), its      *)
(* signed checkpoints (darm_guard/checkpoint.py) and the start and orderly *)
(* stop of the server (serve, main).                                       *)
(*                                                                         *)
(* Covered: handler threads that append while another one publishes (the   *)
(* checkpoint hook runs outside the log's lock), appends and publications  *)
(* that fail, a process that dies anywhere, the verification of the chain  *)
(* at startup, SIGTERM, and a log rewritten on disk while nobody runs.     *)
(*                                                                         *)
(* Abstracted: an entry's hash is its serial number (hashes do not         *)
(* collide, signatures are not forged) and what an entry says is left out. *)
(* M_ operators are mutated forms of the one that follows.                 *)
(***************************************************************************)
EXTENDS Integers, Sequences, FiniteSets, SequencesExt

CONSTANTS
    Thread,         \* handler threads
    Main,           \* the main thread: start, stop and their checkpoints
    Every,          \* Checkpointer.every
    Faults,         \* the failures that may happen: a subset of FaultKinds
    MaxEntries,     \* bound: entries ever hashed
    MaxCrashes,     \* bound: times the process dies
    MaxRewrites     \* bound: times the file is rewritten

FaultKinds == {"clean",     \* an append raises and nothing is in the file
               "torn",      \* it raises with part of its line in the file
               "unsynced",  \* it raises with its line in the file (fsync)
               "publish",   \* the checkpoint sink cannot be written,
               "late",      \* or raises with the checkpoint in it (fsync),
               "garbled"}   \* or with part of it: load_published cannot read it any more

ASSUME LogAssumption ==
    /\ Every \in Nat \ {0} /\ Main \notin Thread /\ Faults \subseteq FaultKinds
    /\ MaxEntries \in Nat /\ MaxCrashes \in Nat /\ MaxRewrites \in Nat

Threads    == Thread \cup {Main}
Zero       == 0                         \* the "0" * 64 before the first entry
Hash       == 0 .. MaxEntries
Line       == [hash : Hash, prev : Hash, whole : BOOLEAN]
Checkpoint == [genesis : Hash, count : Nat, head : Hash]
Mode       == {"down", "refused", "starting", "started", "up", "stopping", "closing", "stopped"}

VARIABLES
    mode,       \* how far main is; "refused" when startup found a broken chain
    file,       \* the log on disk
    prev, count, genesis,       \* AuditLog's memory of it
    inHook,     \* AuditLog._in_hook
    lastCount, lastAttempt,     \* Checkpointer's memory
    pc,         \* what each thread does about its append
    snap,       \* the chain head each thread took under the lock
    nested,     \* threads that publish while they record a failure
    sink,       \* the checkpoints published
    covers,     \* history: the hashes in the file under each of them
    garbled,    \* part of a checkpoint is in the sink
    strays,     \* history: the hashes whose append raised with (part of) the line in the file
    stop,       \* history: the hash of the stop record
    failures,   \* history: publications that failed, and failure records
    recorded,
    next, crashes, rewrites

memory == <<prev, count, genesis>>
hook   == <<inHook, nested, pc>>
tries  == <<lastCount, lastAttempt>>
store  == <<sink, covers, garbled>>
bounds == <<crashes, rewrites>>
history == <<failures, recorded>>
vars   == <<mode, file, strays, memory, hook, tries, snap, store, stop, history, next, bounds>>

TypeOK ==
    /\ mode \in Mode
    /\ file \in Seq(Line) /\ next \in 1 .. MaxEntries + 1
    /\ prev \in Hash /\ count \in Nat /\ genesis \in Hash
    /\ inHook \in BOOLEAN /\ nested \subseteq Threads
    /\ lastCount \in Nat /\ lastAttempt \in Nat
    /\ pc \in [Threads -> {"idle", "appended", "publishing", "failed",
                         "flagging", "recording"}]
    /\ snap \in [Threads -> Checkpoint]
    /\ sink \in Seq(Checkpoint) /\ covers \in Seq(Seq(Hash)) /\ Len(sink) = Len(covers)
    \* while it runs, AuditLog's memory is the end of the file
    /\ mode \notin {"down", "refused"} /\ strays = {} =>
          count = Len(file) /\ prev = IF file = <<>> THEN Zero ELSE Last(file).hash
    /\ garbled \in BOOLEAN /\ strays \subseteq Hash
    /\ stop \in Hash /\ failures \in Nat /\ recorded \in Nat /\ crashes \in Nat /\ rewrites \in Nat

Head0 == [genesis |-> Zero, count |-> 0, head |-> Zero]

Init ==
    /\ mode = "starting" /\ file = <<>> /\ next = 1
    /\ prev = Zero /\ count = 0 /\ genesis = Zero
    /\ inHook = FALSE /\ nested = {} /\ lastCount = 0 /\ lastAttempt = 0
    /\ pc = [t \in Threads |-> "idle"] /\ snap = [t \in Threads |-> Head0]
    /\ sink = <<>> /\ covers = <<>> /\ garbled = FALSE /\ strays = {} /\ stop = Zero /\ failures = 0 /\ recorded = 0
    /\ crashes = 0 /\ rewrites = 0

-----------------------------------------------------------------------------
(* append: one step, under the log's own lock.                             *)

\* a line after a torn one continues it: it cannot be read either
AddLine(f, l) == IF f # <<>> /\ ~Last(f).whole THEN Append(Front(f), [l EXCEPT !.whole = FALSE])
                 ELSE Append(f, l)

Entry(whole) == [hash |-> next, prev |-> prev, whole |-> whole]

\* the line is durable, the head moves to it, and the hook gets a snapshot of the head
Written(t) ==
    /\ file' = AddLine(file, Entry(TRUE))
    /\ prev' = next /\ count' = count + 1 /\ genesis' = IF genesis = Zero THEN next ELSE genesis
    /\ snap' = [snap EXCEPT ![t] = [genesis |-> genesis', count |-> count', head |-> next]]
    /\ UNCHANGED strays

\* the append raises: the head stays, whatever has reached the file
InFile(fault) == CASE fault = "clean"    -> file
                   [] fault = "torn"     -> AddLine(file, Entry(FALSE))
                   [] fault = "unsynced" -> AddLine(file, Entry(TRUE))
Strays(fault) == strays' = strays \cup {h \in {next} : fault # "clean"}
AppendFaults == Faults \cap {"clean", "torn", "unsynced"}
M_HeadFirst(fault) ==
    /\ file' = InFile(fault) /\ Strays(fault)
    /\ prev' = next /\ UNCHANGED <<count, genesis, snap>>
Raises(fault) == file' = InFile(fault) /\ Strays(fault) /\ UNCHANGED <<memory, snap>>

Hashed == next <= MaxEntries /\ next' = next + 1

\* daemon threads go on until the process exits
Serving == mode \in {"up", "stopping", "closing"}

AppendEntry(t) ==
    /\ Serving /\ pc[t] = "idle" /\ Hashed
    /\ \/ Written(t) /\ pc' = [pc EXCEPT ![t] = "appended"]
       \/ \E fault \in AppendFaults : Raises(fault) /\ UNCHANGED pc
    /\ UNCHANGED <<mode, inHook, nested, tries, store, stop, history, bounds>>

-----------------------------------------------------------------------------
(* The hook, outside the lock (_checkpoint, Checkpointer.maybe).           *)

After == [starting |-> "started", started |-> "up", stopping |-> "closing", closing |-> "stopped"]

\* the hook is over; clears: the try-finally that clears the flag is left too
Leave(t, clears) ==
    /\ inHook' = (inHook /\ ~clears /\ t \notin nested)
    /\ nested' = nested \ {t}
    /\ pc' = [pc EXCEPT ![t] = "idle"]
    /\ mode' = IF t = Main THEN After[mode] ELSE mode

Newest == IF lastCount > lastAttempt THEN lastCount ELSE lastAttempt
M_Interval(t) == snap[t].count - Newest > Every
Interval(t)   == snap[t].count - Newest >= Every

\* checkpoint_now forces; an append only asks, and not while a failure is recorded
Forced(t) == t = Main /\ mode \in {"starting", "closing"}
Due(t)    == IF Forced(t) THEN snap[t].count # lastCount ELSE ~inHook /\ Interval(t)

Attempt(t) ==
    /\ pc[t] = "appended" /\ Due(t)
    /\ lastAttempt' = snap[t].count /\ pc' = [pc EXCEPT ![t] = "publishing"]
    /\ UNCHANGED <<mode, file, strays, memory, inHook, nested, lastCount, snap, store, stop,
                   history, next, bounds>>

NotDue(t) ==
    /\ pc[t] = "appended" /\ ~Due(t) /\ Leave(t, FALSE)
    /\ UNCHANGED <<file, strays, memory, tries, snap, store, stop, history, next, bounds>>

HashesOf(f, n) == [i \in 1 .. n |-> f[i].hash]

\* the signed head is the snapshot taken under the lock
M_CountNow(t) == [snap[t] EXCEPT !.count = count]
Signed(t)     == snap[t]

Sent(t) ==
    /\ sink' = Append(sink, Signed(t))
    /\ covers' = Append(covers, HashesOf(file, IF snap[t].count <= Len(file) THEN snap[t].count ELSE Len(file)))
    /\ UNCHANGED garbled

Publish(t) ==
    /\ pc[t] = "publishing" /\ Sent(t)
    /\ lastCount' = snap[t].count /\ Leave(t, FALSE)
    /\ UNCHANGED <<file, strays, memory, lastAttempt, snap, stop, history, next, bounds>>

\* publish raises, whatever has reached the sink
PublishFails(t) ==
    /\ pc[t] = "publishing"
    /\ \/ "publish" \in Faults /\ UNCHANGED store
       \/ "late" \in Faults /\ Sent(t)
       \/ "garbled" \in Faults /\ garbled' = TRUE /\ UNCHANGED <<sink, covers>>
    /\ failures' = failures + 1 /\ UNCHANGED recorded /\ pc' = [pc EXCEPT ![t] = "failed"]
    /\ UNCHANGED <<mode, file, strays, memory, inHook, nested, tries, snap, stop, next, bounds>>

\* the failure is to be recorded, unless somebody is recording one
SeeFailure(t) ==
    /\ pc[t] = "failed"
    /\ \/ inHook /\ Leave(t, FALSE)
       \/ ~inHook /\ pc' = [pc EXCEPT ![t] = "flagging"] /\ UNCHANGED <<mode, inHook, nested>>
    /\ UNCHANGED <<file, strays, memory, tries, snap, store, stop, history, next, bounds>>

\* tested and set in two steps, without a lock
SetFlag(t) ==
    /\ pc[t] = "flagging" /\ inHook' = TRUE /\ pc' = [pc EXCEPT ![t] = "recording"]
    /\ UNCHANGED <<mode, file, strays, memory, nested, tries, snap, store, stop, history, next, bounds>>

\* checkpoint_failed is appended; its own hook stays out unless the flag is gone
RecordFailure(t) ==
    /\ pc[t] = "recording" /\ Hashed
    /\ \/ /\ Written(t) /\ recorded' = recorded + 1
          /\ \/ inHook /\ Leave(t, TRUE)
             \/ /\ ~inHook /\ nested' = nested \cup {t}
                /\ pc' = [pc EXCEPT ![t] = "appended"] /\ UNCHANGED <<mode, inHook>>
       \/ /\ \E fault \in AppendFaults : Raises(fault)
          /\ Leave(t, TRUE) /\ UNCHANGED recorded
    /\ UNCHANGED <<failures, tries, store, stop, bounds>>

-----------------------------------------------------------------------------
(* The main thread.                                                        *)

\* AuditLog(path): every line parses and names the hash of the one before
Chained(f) == \A i \in DOMAIN f : /\ f[i].whole
                                  /\ f[i].prev = IF i = 1 THEN Zero ELSE f[i - 1].hash

Start ==
    /\ mode = "down"
    /\ IF Chained(file)
       THEN /\ mode' = "starting" /\ count' = Len(file)
            /\ prev' = IF file = <<>> THEN Zero ELSE Last(file).hash
            /\ genesis' = IF file = <<>> THEN Zero ELSE file[1].hash
       ELSE mode' = "refused" /\ UNCHANGED memory
    /\ inHook' = FALSE /\ lastCount' = 0 /\ lastAttempt' = 0
    /\ UNCHANGED <<file, strays, nested, pc, snap, store, stop, history, next, bounds>>

\* the start and the stop record
MainRecord ==
    /\ mode \in {"started", "stopping"} /\ pc[Main] = "idle" /\ Hashed
    /\ \/ Written(Main) /\ pc' = [pc EXCEPT ![Main] = "appended"] /\ UNCHANGED mode
       \/ \E fault \in AppendFaults : Raises(fault) /\ mode' = "stopped" /\ UNCHANGED pc
    /\ stop' = IF mode = "stopping" THEN next ELSE stop
    /\ UNCHANGED <<inHook, nested, tries, store, history, bounds>>

\* checkpoint_now, at startup and at the end; nothing to do for an empty log
CheckpointNow ==
    /\ mode \in {"starting", "closing"} /\ pc[Main] = "idle"
    /\ \/ /\ count = 0 /\ mode' = After[mode] /\ UNCHANGED <<pc, snap>>
       \/ /\ count > 0
          /\ snap' = [snap EXCEPT ![Main] = [genesis |-> genesis, count |-> count, head |-> prev]]
          /\ pc' = [pc EXCEPT ![Main] = "appended"] /\ UNCHANGED mode
    /\ UNCHANGED <<file, strays, memory, inHook, nested, tries, store, stop, history, next, bounds>>

Sigterm ==
    /\ mode = "up" /\ mode' = "stopping"
    /\ UNCHANGED <<file, strays, memory, hook, tries, snap, store, stop, history, next, bounds>>

\* the process dies, or is restarted after it stopped
Crash ==
    /\ mode \notin {"down", "refused"} /\ crashes < MaxCrashes /\ crashes' = crashes + 1
    /\ mode' = "down" /\ pc' = [t \in Threads |-> "idle"] /\ nested' = {} /\ recorded' = failures
    /\ UNCHANGED <<failures, file, strays, memory, inHook, tries, snap, store, stop, next, rewrites>>

-----------------------------------------------------------------------------
\* someone cuts the file and may continue it, with the chain recomputed
Rewrite ==
    /\ mode = "down" /\ rewrites < MaxRewrites /\ rewrites' = rewrites + 1
    /\ \E n \in 0 .. Len(file) :
          LET cut == SubSeq(file, 1, n)
          IN  \/ file' = cut /\ next' = next
              \/ /\ Hashed
                 /\ file' = Append(cut, [hash |-> next, whole |-> TRUE,
                                         prev |-> IF n = 0 THEN Zero ELSE file[n].hash])
    /\ UNCHANGED <<mode, strays, memory, hook, tries, snap, store, stop, history, crashes>>

\* check_log: the log extends every published checkpoint; a sink that cannot be read raises
M_LengthOnly(cp) == file # <<>> /\ file[1].hash = cp.genesis /\ cp.count <= Len(file)
Extends(cp) == /\ file # <<>> /\ file[1].hash = cp.genesis
               /\ cp.count <= Len(file) /\ file[cp.count].hash = cp.head
CheckLog == ~garbled /\ \A i \in DOMAIN sink : Extends(sink[i])

Hook(t) == \/ Attempt(t) \/ NotDue(t) \/ Publish(t) \/ PublishFails(t)
           \/ SeeFailure(t) \/ SetFlag(t) \/ RecordFailure(t)

Next == \/ \E t \in Thread : AppendEntry(t)
        \/ \E t \in Threads : mode \notin {"down", "refused", "stopped"} /\ Hook(t)
        \/ Start \/ MainRecord \/ CheckpointNow \/ Sigterm \/ Crash \/ Rewrite

Spec == Init /\ [][Next]_vars

-----------------------------------------------------------------------------
(* Properties.                                                             *)

\* A start refuses the log for one reason only: an append raised when its line, or part of
\* it, was in the file. Part of a line is enough; a whole one only if a later append has
\* followed it, which names the same predecessor (AuditLog; H19). Otherwise the broker never
\* shuts itself out, whatever appends failed, wherever the process died and whoever cut it.
RestartAccepts ==
    mode = "refused" =>
        \E i \in DOMAIN file : ~file[i].whole \/ (file[i].hash \in strays /\ i < Len(file))

\* A log nobody has rewritten passes its own checkpoints, however the appends and the
\* publications of different threads interleave and over crashes (append, maybe), while no
\* failed append has left its line in the file and no failed publication part of its own.
OwnLogPasses == rewrites = 0 /\ strays = {} /\ ~garbled => CheckLog

\* A chained log that passes the published checkpoints has, below each of them, what
\* the broker's log had when it was published (claims.json:354).
RewriteDetected ==
    Chained(file) /\ CheckLog =>
        \A i \in DOMAIN sink : HashesOf(file, sink[i].count) = covers[i]

\* While publications succeed, fewer than Every of the newest records are unprotected once
\* no append is under way (Checkpointer; THREAT_MODEL.md:89), over concurrent appends
\* that publish out of order and restarts.
Protected == Max({0} \cup {sink[i].count : i \in DOMAIN sink})
UnprotectedBelowInterval ==
    mode = "up" /\ failures = 0 /\ rewrites = 0 /\ (\A t \in Threads : pc[t] = "idle") =>
        count - Protected < Every

-----------------------------------------------------------------------------
(* What the documents say and the code does not do: each is refuted.       *)

\* AuditLog: "each entry carries the hash of the previous one", so that only an edited
\* or deleted entry breaks the chain. Here nobody edits.
OnlyEditsBreakTheChain == rewrites = 0 => Chained(file)

\* main: "every log with a start record ends with stop and a final checkpoint".
EndsWithStop == mode = "stopped" => Last(file).hash = stop /\ sink # <<>> /\ Last(sink).head = stop

\* THREAT_MODEL.md:89: "a failure to publish is recorded in the log, not prevented".
FailuresRecorded == (\A t \in Threads : pc[t] = "idle") => failures = recorded

=============================================================================
