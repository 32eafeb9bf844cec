------------------------------- MODULE Rename -------------------------------
(***************************************************************************)
(* rename_file in darm_guard/broker.py: the claim, inspect, re-attest and  *)
(* place protocol through a private name (_rename_protocol), and what      *)
(* startup does with a rename a crash cut short (_recover_rename).         *)
(*                                                                         *)
(* Covered: several renames at once, in any direction; foreign edits of    *)
(* the paths at any step; the re-attestation and the appends to the log    *)
(* that fail; a process that dies at any step of the protocol or of its    *)
(* own recovery (an append that raises there ends the start as well).      *)
(*                                                                         *)
(* Abstracted: a file is an identity, a content and an attestation, all    *)
(* three moved by a rename; nobody guesses the private names (B9); the     *)
(* broker has a key. M_ operators are mutated forms of the one that        *)
(* follows.                                                                *)
(***************************************************************************)
EXTENDS Integers, Sequences, FiniteSets, SequencesExt

CONSTANTS
    Req, Path, None, Absent,
    Ours, Alien,        \* a content the broker wrote, and one it did not
    FirstWrite,         \* the request that wrote the file at the start
    ForeignPaths,       \* where the foreign actor edits
    SignFails,          \* may the re-attestation fail?
    RecordFails,        \* may an append raise, with or without its line on disk?
    MaxCrashes,         \* bound: times the process dies
    MaxForeign          \* bound: foreign edits

ASSUME RenameAssumption ==
    /\ ForeignPaths \subseteq Path /\ {SignFails, RecordFails} \subseteq BOOLEAN
    /\ MaxCrashes \in Nat /\ MaxForeign \in Nat
    /\ Ours # Alien /\ Absent \notin {Ours, Alien} /\ FirstWrite \notin Req
    /\ Req \cap Path = {} /\ None \notin Req \cup Path

Place       == Path \cup Req        \* a request's private name is the request
Content     == {Ours, Alien}
Attestation == [rid : Req \cup {FirstWrite}, target : Path, digest : Content]
File        == [ino : Nat, content : Content \cup {Absent}, att : Attestation \cup {None}]
NoFile      == [ino |-> 0, content |-> Absent, att |-> None]
Verdict     == {"none", "confirmedSuccess", "confirmedFailure", "unresolved"}

VARIABLES
    mode,       \* "up" or "starting"
    at,         \* the file at each path and private name
    pc,
    src, dst,   \* each request's arguments
    before, dstBefore, oldAtt,  \* what its prepared record says of the world
    order,      \* log: the prepared renames, in order
    verdict,    \* log: the verdict of the outcome or reconciled record
    recovering, \* how far _recover_rename is with the first open rename
    mine,       \* history: the file each request claimed
    placed,     \* history: requests that reached their destination
    destroyed,  \* history: files the foreign actor removed or replaced
    minted,     \* every attestation the broker signed
    inodes, crashes, foreign

args    == <<src, dst, before, dstBefore, oldAtt>>
log     == <<order, verdict>>
history == <<mine, placed, destroyed>>
bounds  == <<crashes, foreign>>
vars    == <<mode, at, pc, args, log, recovering, history, minted, inodes, bounds>>

TypeOK ==
    /\ mode \in {"up", "starting"} /\ at \in [Place -> File] /\ \A x \in Place : at[x].ino = 0 => at[x] = NoFile
    /\ pc \in [Req -> {"idle", "observed", "prepared", "claimed", "attested", "movedback",
                       "executed", "done", "lost"}]
    /\ src \in [Req -> Path \cup {None}] /\ dst \in [Req -> Path \cup {None}]
    /\ before \in [Req -> Content \cup {Absent, None}]
    /\ dstBefore \in [Req -> Content \cup {Absent, None}]
    /\ oldAtt \in [Req -> Attestation \cup {None}]
    /\ order \in Seq(Req) /\ IsInjective(order) /\ verdict \in [Req -> Verdict]
    /\ recovering \in {"no", "forward", "restore", "classify"}
    /\ mine \in [Req -> Nat] /\ placed \subseteq Req /\ destroyed \subseteq Nat
    /\ minted \subseteq Attestation /\ inodes \in Nat /\ crashes \in Nat /\ foreign \in Nat

Prepared == ToSet(order)
Open     == {r \in Prepared : verdict[r] = "none"}

\* the file at the start: written by the broker, tampered with, or foreign
FirstAtt(p)   == [rid |-> FirstWrite, target |-> p, digest |-> Ours]
FirstFiles(p) == [ino : {1}, content : Content, att : {None, FirstAtt(p)}]

Init ==
    /\ mode = "up" /\ pc = [r \in Req |-> "idle"]
    /\ \E p \in Path : \E f \in FirstFiles(p) :
          /\ at = [x \in Place |-> IF x = p THEN f ELSE NoFile]
          /\ minted = {FirstAtt(p)}
    /\ src = [r \in Req |-> None] /\ dst = src /\ before = src /\ dstBefore = src /\ oldAtt = src
    /\ order = <<>> /\ verdict = [r \in Req |-> "none"] /\ recovering = "no"
    /\ mine = [r \in Req |-> 0] /\ placed = {} /\ destroyed = {}
    /\ inodes = 1 /\ crashes = 0 /\ foreign = 0

-----------------------------------------------------------------------------
(* Admission, under the broker's lock.                                     *)

Observe(r) ==
    /\ mode = "up" /\ pc[r] = "idle" /\ \A s \in Req : pc[s] # "observed"
    /\ \E p \in Path : \E q \in Path \ {p} :
          /\ src' = [src EXCEPT ![r] = p] /\ dst' = [dst EXCEPT ![r] = q]
          /\ before' = [before EXCEPT ![r] = at[p].content]
    /\ pc' = [pc EXCEPT ![r] = "observed"]
    /\ UNCHANGED <<mode, at, dstBefore, oldAtt, log, recovering, history, minted, inodes, bounds>>

\* E29: only a source that carries our attestation of its path and of what was observed
M_AnySource(r, a) == TRUE
Attested(r, a) == a # None /\ a.target = src[r] /\ a.digest = before[r]

Prepare(r) ==
    /\ pc[r] = "observed"
    /\ dstBefore' = [dstBefore EXCEPT ![r] = at[dst[r]].content]
    /\ oldAtt' = [oldAtt EXCEPT ![r] = at[src[r]].att]
    /\ \/ /\ Attested(r, at[src[r]].att)
          /\ order' = Append(order, r) /\ pc' = [pc EXCEPT ![r] = "prepared"]
       \/ /\ ~Attested(r, at[src[r]].att)
          /\ order' = order /\ pc' = [pc EXCEPT ![r] = "done"]
       \* the append raises: nothing is performed, though its line may be on disk
       \/ /\ RecordFails /\ Attested(r, at[src[r]].att)
          /\ order' \in {order, Append(order, r)} /\ pc' = [pc EXCEPT ![r] = "done"]
    /\ UNCHANGED <<mode, at, src, dst, before, verdict, recovering, history, minted, inodes, bounds>>

-----------------------------------------------------------------------------
(* _rename_protocol, outside the lock.                                     *)

\* RENAME_NOREPLACE
M_Replace(a, b) == at' = [at EXCEPT ![b] = at[a], ![a] = NoFile]
Move(a, b) == at[b] = NoFile /\ at' = [at EXCEPT ![b] = at[a], ![a] = NoFile]

Step(r, from, to) == pc[r] = from /\ pc' = [pc EXCEPT ![r] = to]

NewAtt(r) == [rid |-> r, target |-> dst[r], digest |-> before[r]]

SetAtt(x, a) == at' = [at EXCEPT ![x].att = a]

Claim(r) ==
    /\ pc[r] = "prepared"
    /\ \/ /\ before[r] # Absent /\ at[src[r]] # NoFile /\ Step(r, "prepared", "claimed")
          /\ Move(src[r], r) /\ mine' = [mine EXCEPT ![r] = at[src[r]].ino]
       \/ /\ before[r] = Absent \/ at[src[r]] = NoFile
          /\ Step(r, "prepared", "executed") /\ UNCHANGED <<at, mine>>
    /\ UNCHANGED <<mode, args, log, recovering, placed, destroyed, minted, inodes, bounds>>

\* back to the source, or left at the private name when the source is taken
GoBack(r) == Move(r, src[r]) \/ (at[src[r]] # NoFile /\ at' = at)

\* what was claimed is not what was recorded
InspectFails(r) ==
    /\ Step(r, "claimed", "executed") /\ at[r].content # before[r] /\ GoBack(r)
    /\ UNCHANGED <<mode, args, log, recovering, history, minted, inodes, bounds>>

Reattest(r) ==
    /\ pc[r] = "claimed" /\ at[r].content = before[r]
    /\ \/ /\ Step(r, "claimed", "attested") /\ SetAtt(r, NewAtt(r))
          /\ minted' = minted \cup {NewAtt(r)}
       \/ /\ SignFails /\ Step(r, "claimed", "executed") /\ GoBack(r) /\ UNCHANGED minted
    /\ UNCHANGED <<mode, args, log, recovering, history, inodes, bounds>>

PlaceFile(r) ==
    /\ pc[r] = "attested"
    /\ \/ Step(r, "attested", "executed") /\ Move(r, dst[r]) /\ placed' = placed \cup {r}
       \/ /\ at[dst[r]] # NoFile /\ Step(r, "attested", "movedback")
          /\ Move(r, src[r]) /\ UNCHANGED placed
       \/ /\ at[dst[r]] # NoFile /\ at[src[r]] # NoFile /\ Step(r, "attested", "executed")
          /\ UNCHANGED <<at, placed>>
    /\ UNCHANGED <<mode, args, log, recovering, mine, destroyed, minted, inodes, bounds>>

\* the destination was taken: the original attestation goes back on the source
RestoreEvidence(r) ==
    /\ Step(r, "movedback", "executed")
    /\ IF at[src[r]] = NoFile THEN at' = at ELSE SetAtt(src[r], oldAtt[r])
    /\ UNCHANGED <<mode, args, log, recovering, history, minted, inodes, bounds>>

\* both paths are observed after the effect, or after recovery
M_DestinationOnly(r) ==
    LET s == at[src[r]].content
        d == at[dst[r]].content
    IN  CASE d = before[r]                          -> "confirmedSuccess"
          [] s = before[r] /\ d = dstBefore[r]      -> "confirmedFailure"
          [] OTHER                                  -> "unresolved"
Classify(r) ==
    LET s == at[src[r]].content
        d == at[dst[r]].content
    IN  CASE d = before[r] /\ s = Absent            -> "confirmedSuccess"
          [] s = before[r] /\ d = dstBefore[r]      -> "confirmedFailure"
          [] OTHER                                  -> "unresolved"

Outcome(r) ==
    /\ Step(r, "executed", "done")
    /\ \/ verdict' = [verdict EXCEPT ![r] = Classify(r)]
       \/ RecordFails /\ UNCHANGED verdict     \* the append raises and is swallowed
    /\ UNCHANGED <<mode, at, args, order, recovering, history, minted, inodes, bounds>>

-----------------------------------------------------------------------------
(* Crash, and recovery of the open renames in the order of the log.        *)

Crash ==
    /\ crashes < MaxCrashes /\ crashes' = crashes + 1
    /\ mode' = "starting" /\ recovering' = "no"
    /\ pc' = [r \in Req |-> IF pc[r] \in {"idle", "done"} THEN pc[r] ELSE "lost"]
    /\ UNCHANGED <<at, args, log, history, minted, inodes, foreign>>

Recovers(r, stage) ==
    /\ mode = "starting" /\ recovering = stage /\ r \in Open
    /\ \E i \in DOMAIN order : order[i] = r /\ \A j \in 1 .. i - 1 : order[j] \notin Open

Reattested(r) == at[r].att # None /\ at[r].att.rid = r /\ at[r].att.target = dst[r]

M_StayOpen(r) == UNCHANGED verdict
GiveUp(r) == verdict' = [verdict EXCEPT ![r] = "unresolved"]

Forward(r) == at[r] # NoFile /\ Reattested(r) /\ at[dst[r]] = NoFile

ChooseForward(r) ==
    /\ Recovers(r, "no") /\ Forward(r) /\ recovering' = "forward"
    /\ UNCHANGED <<mode, at, pc, args, log, history, minted, inodes, bounds>>

\* the destination may be taken meanwhile: the file stays where the evidence names it
RollForward(r) ==
    /\ Recovers(r, "forward")
    /\ \/ /\ Move(r, dst[r]) /\ placed' = placed \cup {r}
          /\ recovering' = "classify" /\ UNCHANGED verdict
       \/ at[dst[r]] # NoFile /\ GiveUp(r) /\ recovering' = "no" /\ UNCHANGED <<at, placed>>
    /\ UNCHANGED <<mode, pc, args, order, mine, destroyed, minted, inodes, bounds>>

\* all or nothing: the move first, the attestation only after it and only onto our content
RollBack(r) ==
    /\ Recovers(r, "no") /\ at[r] # NoFile /\ ~Forward(r)
    /\ \/ /\ Move(r, src[r]) /\ UNCHANGED verdict
          /\ recovering' = IF at[r].content = before[r] THEN "restore" ELSE "classify"
       \/ at[src[r]] # NoFile /\ GiveUp(r) /\ UNCHANGED <<at, recovering>>
    /\ UNCHANGED <<mode, pc, args, order, history, minted, inodes, bounds>>

RestoreAttestation(r) ==
    /\ Recovers(r, "restore")
    /\ \/ at[src[r]] # NoFile /\ SetAtt(src[r], oldAtt[r]) /\ recovering' = "classify" /\ UNCHANGED verdict
       \/ at[src[r]] = NoFile /\ GiveUp(r) /\ recovering' = "no" /\ UNCHANGED at
    /\ UNCHANGED <<mode, pc, args, order, history, minted, inodes, bounds>>

\* nothing at the private name: a roll-back cut short is finished
FinishRollBack(r) == IF at[src[r]].content = before[r] THEN SetAtt(src[r], oldAtt[r]) ELSE at' = at

RecoverInPlace(r) ==
    /\ Recovers(r, "no") /\ at[r] = NoFile
    /\ FinishRollBack(r) /\ recovering' = "classify"
    /\ UNCHANGED <<mode, pc, args, log, history, minted, inodes, bounds>>

Reconciled(r) ==
    /\ Recovers(r, "classify") /\ recovering' = "no"
    /\ verdict' = [verdict EXCEPT ![r] = Classify(r)]
    /\ UNCHANGED <<mode, at, pc, args, order, history, minted, inodes, bounds>>

FinishStart ==
    /\ mode = "starting" /\ Open = {} /\ mode' = "up"
    /\ UNCHANGED <<at, pc, args, log, recovering, history, minted, inodes, bounds>>

-----------------------------------------------------------------------------
\* someone replaces, alters or removes the file at a path
Foreign(p) ==
    /\ foreign < MaxForeign /\ foreign' = foreign + 1
    /\ \/ /\ inodes' = inodes + 1
          /\ \E a \in minted \cup {None}, c \in Content :
                at' = [at EXCEPT ![p] = [ino |-> inodes + 1, content |-> c, att |-> a]]
          /\ destroyed' = destroyed \cup {at[p].ino}
       \/ /\ at[p] # NoFile /\ at' = [at EXCEPT ![p].content = Alien]
          /\ UNCHANGED <<inodes, destroyed>>
       \/ /\ at[p] # NoFile /\ at' = [at EXCEPT ![p] = NoFile]
          /\ destroyed' = destroyed \cup {at[p].ino} /\ UNCHANGED inodes
    /\ UNCHANGED <<mode, pc, args, log, recovering, mine, placed, minted, crashes>>

Thread(r) ==
    \/ Observe(r) \/ Prepare(r) \/ Claim(r) \/ InspectFails(r) \/ Reattest(r) \/ PlaceFile(r)
    \/ RestoreEvidence(r) \/ Outcome(r)

Recovery(r) ==
    ChooseForward(r) \/ RollForward(r) \/ RollBack(r) \/ RestoreAttestation(r) \/ RecoverInPlace(r) \/ Reconciled(r)

Next == \/ \E r \in Req : Thread(r) \/ Recovery(r)
        \/ Crash \/ FinishStart
        \/ \E p \in ForeignPaths : Foreign(p)

Spec == Init /\ [][Next]_vars
FairSpec == Spec /\ WF_vars(FinishStart) /\ \A r \in Req : WF_vars(Thread(r)) /\ WF_vars(Recovery(r))

-----------------------------------------------------------------------------
(* Properties.                                                             *)

AtRest == mode = "up" /\ \A r \in Req : pc[r] \in {"idle", "done", "lost"}

\* one rename only has been prepared: what another does to the same paths is the
\* subject of NoFileLost and NeverLaunders
Alone == Cardinality(Prepared) <= 1

\* A rename ends all the way: at rest its file was placed under a new attestation, or is
\* back at the source with the original one, whoever takes the destination and wherever
\* the process dies, in recovery too. The one exception is recorded as unresolved: the
\* file at the private name, when the destination is taken while recovery rolls forward.
AllOrNothing ==
    AtRest /\ Alone => \A r \in {q \in Prepared : src[q] \notin ForeignPaths} :
        \/ /\ r \in placed /\ at[r] = NoFile /\ at[src[r]] = NoFile
           /\ at[dst[r]].ino = mine[r] => at[dst[r]].att = NewAtt(r)
        \/ /\ r \notin placed /\ at[r] = NoFile
           /\ at[src[r]] = [ino |-> 1, content |-> before[r], att |-> oldAtt[r]]
        \/ verdict[r] = "unresolved" /\ at[r].ino = mine[r]

\* Up to the second rename, the protocol and its recovery implement one atomic move with
\* an honest record.
Moves == INSTANCE AtomicMove WITH moved <- placed
ImplementsAtomicMove == Moves!MInit /\ [][~Alone' \/ Moves!MNext]_(Moves!mvars)

\* Two renames in any direction, a foreign edit and a crash: no file disappears that
\* the foreign actor did not remove itself (RENAME_NOREPLACE at every step).
NoFileLost == \A i \in 1 .. inodes : i \in destroyed \/ \E x \in Place : at[x].ino = i

\* E29: the broker signs only content it wrote: no rename, and no chain of renames,
\* launders a foreign file, whatever is exchanged between the observation, the
\* attestation check and the claim.
NeverLaunders == \A a \in minted : a.digest = Ours

\* A rename one of whose appends raised is over and stays open while the broker serves.
Unrecorded == {r \in Open : mode = "up" /\ pc[r] = "done"}

\* Recovery always ends, and every rename is closed by a verdict: its outcome's, or that of
\* the next start when the process died in it or an append of its own raised.
EveryRenameClosed == \A r \in Req : r \in Prepared ~> verdict[r] # "none" \/ r \in Unrecorded

-----------------------------------------------------------------------------
(* What the documents say and the code does not do.                        *)

\* _recover_rename: "restore the original attestation only after the move, and only onto
\* our own content": recovery never marks a file that is not the one it moved back.
OnlyOntoOurOwn ==
    [][\A r \in Req : RestoreAttestation(r) /\ verdict' = verdict => at[src[r]].ino = mine[r]]_vars

=============================================================================
