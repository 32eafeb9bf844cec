------------------------------ MODULE CasFile ------------------------------
(***************************************************************************)
(* The compare-and-swap of darm_guard/broker.py on one file, system call   *)
(* by system call: _cas_replace (exchange, inspect what was displaced,     *)
(* exchange back if it is not the recorded state) and _cas_delete (rename  *)
(* away, inspect, unlink or rename back). The broker runs them outside its *)
(* lock, so calls of any number of handler threads and of foreign          *)
(* processes interleave here; Broker takes each of them as one step.       *)
(*                                                                         *)
(* A file is its content, or one of two things that cannot be inspected: a *)
(* Link, and a Sealed file that the broker may not read. An operation has  *)
(* a private temporary name that nobody else touches; calls on the private *)
(* name alone are part of the step they follow. The fallback without       *)
(* renameat2 is left out. M_ operators are mutated forms of the one that   *)
(* follows.                                                                *)
(***************************************************************************)
EXTENDS Integers, FiniteSets

CONSTANTS
    Op,         \* operations: one broker request each
    Content, Absent, Link, Sealed, AnyState, Unset,
    MaxEdits,   \* bound: foreign edits
    MaxCrashes  \* bound: times the broker dies

Opaque == {Link, Sealed}
States == Content \cup {Absent} \cup Opaque

ASSUME CasAssumption ==
    /\ MaxEdits \in Nat /\ MaxCrashes \in Nat
    /\ Absent \notin Content \cup Opaque /\ Opaque \cap Content = {} /\ Link # Sealed
    /\ AnyState \notin States /\ Unset \notin States \cup {AnyState} \cup Op

PC == {"idle", "observed", "checked", "written", "exchanged", "undone", "claimed", "done", "lost"}

VARIABLES
    leaf,       \* what the name holds
    tmp,        \* what each operation's private name holds
    stage, want, seen, reply,
    applied,    \* history: operations that replaced or removed what they observed
    blind,      \* history: operations that replaced or removed what they cannot inspect
    truth,      \* history: what the name would hold if every operation were one step
    owner,      \* history: the operation that put the present file there, else Unset
    taken,      \* history: an undo took away what the name should hold, put there by another
    disturbed,  \* history: somebody came between a swap and its undoing
    edits, crashes

cvars == <<leaf, tmp, stage, want, seen, reply, applied, blind, truth, owner, taken, disturbed,
           edits, crashes>>
given   == <<want, seen>>
name    == <<leaf, applied, blind, truth, owner, taken, disturbed>>
bounded == <<edits, crashes>>

CTypeOK ==
    /\ leaf \in States /\ tmp \in [Op -> States] /\ truth \in States
    /\ stage \in [Op -> PC]
    /\ want \in [Op -> Content \cup {Absent, Unset}]
    /\ seen \in [Op -> Content \cup {Absent, AnyState, Unset}]
    /\ reply \in [Op -> {"none", "success", "refused", "failed"}]
    /\ applied \subseteq Op /\ blind \subseteq Op /\ owner \in Op \cup {Unset}
    /\ taken \in BOOLEAN /\ disturbed \in BOOLEAN
    /\ edits \in Nat /\ crashes \in Nat

CInit ==
    /\ leaf \in States /\ truth = leaf
    /\ tmp = [o \in Op |-> Absent] /\ stage = [o \in Op |-> "idle"]
    /\ want = [o \in Op |-> Unset] /\ seen = want
    /\ reply = [o \in Op |-> "none"] /\ applied = {} /\ blind = {}
    /\ owner = Unset /\ taken = FALSE /\ disturbed = FALSE
    /\ edits = 0 /\ crashes = 0

-----------------------------------------------------------------------------
\* _digest_at opens what was displaced (O_NOFOLLOW); a delete first asks its kind
Inspectable(o) == tmp[o] \notin IF stage[o] = "claimed" THEN {Sealed} ELSE Opaque

\* what was displaced is the recorded state
M_Displaced(o) == TRUE
Displaced(o) == tmp[o] = seen[o]

\* operations that hold a file the next call is to put back
Undoing == {o \in Op : stage[o] \in {"exchanged", "claimed"} /\ Inspectable(o) /\ ~Displaced(o)}

\* o (Unset: somebody else) observes or changes the name
Touches(o) == disturbed' = (Undoing' # {} /\ (disturbed \/ Undoing \ {o} # {}))

\* the operation, or somebody else, has put s there, and was entitled to
Entitled(s) == truth' = s /\ taken' = FALSE
Applies(o)  == applied' = applied \cup {o} /\ Entitled(want[o])

Finish(o, how) ==
    /\ stage' = [stage EXCEPT ![o] = "done"]
    /\ reply' = [reply EXCEPT ![o] = how]

\* nothing done: the error is the reply
Refuse(o) == Finish(o, "refused") /\ UNCHANGED <<name, given, bounded>>

Drop(o) == tmp' = [tmp EXCEPT ![o] = Absent]
Swap(o) == leaf' = tmp[o] /\ tmp' = [tmp EXCEPT ![o] = leaf]

\* the present file goes under the private name, whatever it is
Take(o, at, by, hidden) ==
    /\ leaf # Absent /\ Swap(o) /\ owner' = by
    /\ stage' = [stage EXCEPT ![o] = at]
    /\ IF leaf = seen[o] THEN Applies(o) ELSE UNCHANGED <<applied, truth, taken>>
    /\ blind' = blind \cup {x \in {o} : leaf \in hidden}
    /\ UNCHANGED <<reply, given, bounded>> /\ Touches(o)

-----------------------------------------------------------------------------
\* _observe, when the request is admitted: what cannot be read is unavailable, and so is a
\* file that is moved away while it is read
Observe(o) ==
    /\ stage[o] = "idle"
    /\ stage' = [stage EXCEPT ![o] = "observed"]
    /\ \E c \in Content \cup {Absent} : want' = [want EXCEPT ![o] = c]
    /\ \E s \in ({leaf} \ Opaque) \cup {AnyState} : seen' = [seen EXCEPT ![o] = s]
    /\ UNCHANGED <<leaf, tmp, reply, applied, blind, truth, owner, taken, bounded>> /\ Touches(o)

\* _execute: a target that is a link is refused before anything is done
RefuseLink(o) == stage[o] = "observed" /\ leaf = Link /\ Refuse(o) /\ UNCHANGED tmp

\* write_file: the new content, synced under the private name; delete_file goes on at once
Begin(o) ==
    /\ stage[o] = "observed" /\ leaf # Link
    /\ tmp' = [tmp EXCEPT ![o] = want[o]]
    /\ stage' = [stage EXCEPT ![o] = IF want[o] = Absent THEN "checked" ELSE "written"]
    /\ UNCHANGED <<name, reply, given, bounded>>

\* the new content goes to the name in one call
Put(o) ==
    /\ leaf' = tmp[o] /\ Drop(o) /\ owner' = o
    /\ Applies(o) /\ Finish(o, "success") /\ UNCHANGED <<blind, given, bounded>> /\ Touches(o)

\* the before-state is unavailable: os.replace, whatever is there
Overwrite(o) == stage[o] = "written" /\ seen[o] = AnyState /\ Put(o)

\* RENAME_NOREPLACE onto a name that was absent
Place(o) ==
    /\ stage[o] = "written" /\ seen[o] = Absent
    /\ (leaf = Absent /\ Put(o)) \/ (leaf # Absent /\ Drop(o) /\ Refuse(o))

\* RENAME_EXCHANGE; a name that is gone is an OSError and the private file stays
Exchange(o) ==
    /\ stage[o] = "written" /\ seen[o] \in Content
    /\ Take(o, "exchanged", o, Opaque) \/ (leaf = Absent /\ Refuse(o) /\ UNCHANGED tmp)

\* delete_file of a target that was not present, or is gone
RefuseDelete(o) ==
    /\ stage[o] = "checked" /\ (seen[o] \notin Content \/ leaf = Absent)
    /\ Refuse(o) /\ UNCHANGED tmp

\* the target is renamed to the private name
Claim(o) ==
    /\ stage[o] = "checked" /\ seen[o] \in Content
    /\ Take(o, "claimed", Unset, {Sealed})

\* what was displaced is the recorded state: it is unlinked, the write or delete stands
Keep(o) ==
    /\ stage[o] \in {"exchanged", "claimed"} /\ Inspectable(o) /\ Displaced(o)
    /\ Drop(o) /\ Finish(o, "success") /\ UNCHANGED <<name, given, bounded>>

\* it cannot be inspected: the error leaves at once, nothing is undone (_execute catches it)
Raise(o) ==
    /\ stage[o] \in {"exchanged", "claimed"} /\ ~Inspectable(o)
    /\ Finish(o, "failed") /\ UNCHANGED <<name, tmp, given, bounded>>

\* a write displaced something else: exchange back
Undo(o) ==
    /\ stage[o] = "exchanged" /\ o \in Undoing
    /\ \/ /\ leaf # Absent /\ Swap(o) /\ owner' = Unset
          /\ taken' = (taken \/ (owner # o /\ leaf = truth))
          /\ stage' = [stage EXCEPT ![o] = "undone"] /\ UNCHANGED reply
       \/ leaf = Absent /\ Finish(o, "refused") /\ UNCHANGED <<leaf, tmp, owner, taken>>
    /\ UNCHANGED <<applied, blind, truth, given, bounded>> /\ Touches(o)

\* then the private name is unlinked, and the reply says conflict
Discard(o) == stage[o] = "undone" /\ Drop(o) /\ Refuse(o)

\* a delete did: renamed back, or kept under the private name if the name is taken
M_RestoreOver(o) ==
    /\ stage[o] = "claimed" /\ o \in Undoing /\ Finish(o, "refused")
    /\ Drop(o) /\ UNCHANGED <<leaf, owner>>
    /\ UNCHANGED <<applied, blind, truth, taken, given, bounded>> /\ Touches(o)
Restore(o) ==
    /\ stage[o] = "claimed" /\ o \in Undoing /\ Finish(o, "refused")
    /\ \/ leaf = Absent /\ leaf' = tmp[o] /\ Drop(o) /\ owner' = Unset
       \/ leaf # Absent /\ UNCHANGED <<leaf, tmp, owner>>
    /\ UNCHANGED <<applied, blind, truth, taken, given, bounded>> /\ Touches(o)

-----------------------------------------------------------------------------
\* another process replaces or removes the file
Edit(s) ==
    /\ edits < MaxEdits /\ edits' = edits + 1
    /\ leaf' = s /\ owner' = Unset /\ Entitled(s)
    /\ UNCHANGED <<tmp, stage, given, reply, applied, blind, crashes>> /\ Touches(Unset)

\* the broker dies: nothing is undone, the private files stay (no recovery for writes)
Crash ==
    /\ crashes < MaxCrashes /\ crashes' = crashes + 1
    /\ stage' = [o \in Op |-> IF stage[o] \in {"idle", "done"} THEN stage[o] ELSE "lost"]
    /\ disturbed' = FALSE
    /\ UNCHANGED <<leaf, tmp, given, reply, applied, blind, truth, owner, taken, edits>>

Step(o) ==
    \/ Observe(o) \/ RefuseLink(o) \/ Begin(o) \/ Overwrite(o) \/ Place(o) \/ Exchange(o)
    \/ RefuseDelete(o) \/ Claim(o) \/ Keep(o) \/ Raise(o) \/ Undo(o) \/ Discard(o) \/ Restore(o)

CNext == Crash \/ (\E o \in Op : Step(o)) \/ \E s \in States : Edit(s)

CSpec == CInit /\ [][CNext]_cvars

-----------------------------------------------------------------------------
(* Properties.                                                             *)

\* what the name shows: until it is put back, what was displaced by mistake
Shown == IF Undoing = {} THEN leaf ELSE tmp[CHOOSE o \in Undoing : TRUE]

\* However many threads and processes are at work, the calls of _cas_replace and _cas_delete
\* are together one compare-and-swap, seen by every other actor as a single step, unless a
\* further actor comes between a swap by mistake and its undoing; a swap with something that
\* cannot be inspected stands, with an error for its reply.
Cas == INSTANCE AtomicCas WITH leaf <- Shown, result <- reply, None <- Unset,
                               upsets <- edits + crashes
ImplementsAtomicCas ==
    Cas!AInit /\ [][disturbed \/ disturbed' \/ Cas!ANext]_(Cas!avars)

\* A content no operation was entitled to replace is destroyed in one way only: one undo
\* exchanges away what a further actor has put there meanwhile (H13). Otherwise it is under
\* the name or under a private name, also when an inspection raises and when the broker dies
\* between two calls.
NothingLost == truth # Absent /\ ~taken => truth \in {leaf} \cup {tmp[o] : o \in Op}

\* assurance/claims.json:9, "A write or delete takes effect only if the target is in the state
\* recorded at admission; otherwise nothing changes", has two exceptions: with a third actor
\* the undo destroys what it put there,
NothingDestroyed == truth # Absent => truth \in {leaf} \cup {tmp[o] : o \in Op}

\* and what cannot be inspected is replaced, or removed, and stays so.
NothingBlind == blind = {}

=============================================================================
