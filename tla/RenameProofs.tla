---------------------------- MODULE RenameProofs ----------------------------
(***************************************************************************)
(* Proofs about Rename, for every set of requests and paths, any number of *)
(* crashes and foreign edits.                                              *)
(***************************************************************************)
EXTENDS Rename, TLAPS, SequenceTheorems, FiniteSetTheorems, WellFoundedInduction

-----------------------------------------------------------------------------
(* The inductive invariant.                                                *)

Running == {"prepared", "claimed", "attested", "movedback", "executed"}

\* a request is over: answered, or cut short by a crash
Over == {"done", "lost"}

\* a request runs with its paths observed, from its prepared record to its verdict; while
\* the broker starts nothing runs but recovery
ThreadInv ==
    /\ mode = "up" \/ Open = {} => recovering = "no"
    /\ mode = "starting" => \A r \in Req : pc[r] \in {"idle"} \cup Over
    /\ \A r \in Req :
         /\ pc[r] # "idle" => /\ src[r] \in Path /\ dst[r] \in Path \ {src[r]}
                              /\ before[r] \in Content \cup {Absent}
         /\ pc[r] \in {"idle", "observed"} => r \notin Prepared /\ verdict[r] = "none"
         /\ pc[r] \in Running => r \in Open
         /\ r \in Open => pc[r] \in Running \cup Over
         /\ r \in placed => r \in Prepared /\ pc[r] \in {"executed"} \cup Over

\* every attestation anywhere was signed by the broker, over a content it wrote
EvidenceInv ==
    /\ NeverLaunders
    /\ \A r \in Prepared : before[r] = Ours
    /\ \A r \in Req : oldAtt[r] \in minted \cup {None}
    /\ \A x \in Place : at[x].att \in minted \cup {None}

\* the private name holds the request's file from the claim to the placement, and is empty
\* before and after
PrivateInv ==
    /\ \A x \in Place : at[x] # NoFile => at[x].content \in Content
    /\ \A r \in Req :
         /\ pc[r] \in {"idle", "observed", "prepared"} \/ r \in placed => at[r] = NoFile
         /\ pc[r] \in {"claimed", "attested"} => at[r] # NoFile
         /\ Recovers(r, recovering) => /\ recovering = "forward" => at[r] # NoFile
                                       /\ recovering \in {"restore", "classify"} => at[r] = NoFile

IInv == TypeOK /\ ThreadInv /\ EvidenceInv /\ PrivateInv /\ NoFileLost

-----------------------------------------------------------------------------
(* What the calls do.                                                      *)

\* A rename takes the file, all of it, to a name that was free.
LEMMA MoveFiles ==
    ASSUME at \in [Place -> File], NEW a \in Place, NEW b \in Place \ {a}, Move(a, b)
    PROVE  /\ at' \in [Place -> File]
           /\ at[b] = NoFile /\ at'[b] = at[a] /\ at'[a] = NoFile
           /\ \A x \in Place \ {a, b} : at'[x] = at[x]
<1>1. NoFile \in File
  BY DEF NoFile, File
<1> QED
  BY <1>1 DEF Move

\* A new attestation changes nothing else of its file.
LEMMA SetAttFiles ==
    ASSUME TypeOK, NEW x \in Place, NEW a \in Attestation \cup {None}, SetAtt(x, a),
           at[x] # NoFile
    PROVE  /\ at' \in [Place -> File]
           /\ at'[x].ino = at[x].ino /\ at'[x].ino # 0 /\ at'[x] # NoFile
           /\ at'[x].content = at[x].content /\ at'[x].att = a
           /\ \A y \in Place \ {x} : at'[y] = at[y]
<1>1. at \in [Place -> File] /\ at[x].ino # 0 /\ at[x] \in File
  BY DEF TypeOK
<1>2. at' = [at EXCEPT ![x] = [at[x] EXCEPT !.att = a]]
  BY DEF SetAtt
<1>3. [at[x] EXCEPT !.att = a] \in File
  BY <1>1 DEF File
<1>4. at'[x] = [at[x] EXCEPT !.att = a]
  BY <1>1, <1>2
<1>5. at'[x].ino = at[x].ino /\ at'[x].content = at[x].content /\ at'[x].att = a
  BY <1>1, <1>4 DEF File
<1> QED
  BY <1>1, <1>2, <1>3, <1>5 DEF NoFile

\* The private name of a request is no path.
LEMMA Names ==
    ASSUME NEW r \in Req
    PROVE  /\ r \in Place /\ \A p \in Path : p \in Place /\ p # r /\ p \notin Req
BY RenameAssumption DEF Place

\* Recovery is at the first open rename, and at no other.
LEMMA RecoversOne ==
    ASSUME TypeOK, NEW r, NEW stage, Recovers(r, stage)
    PROVE  /\ r \in Open /\ mode = "starting" /\ recovering = stage
           /\ \A q, t : Recovers(q, t) => q = r /\ t = stage
<1>1. PICK i \in DOMAIN order : order[i] = r /\ \A j \in 1 .. i - 1 : order[j] \notin Open
  BY DEF Recovers
<1>2. ASSUME NEW q, NEW t, Recovers(q, t) PROVE q = r /\ t = stage
  <2>1. PICK k \in DOMAIN order : order[k] = q /\ \A j \in 1 .. k - 1 : order[j] \notin Open
    BY <1>2 DEF Recovers
  <2>2. q \in Open /\ t = recovering /\ r \in Open /\ stage = recovering
    BY <1>2 DEF Recovers
  <2>3. DOMAIN order = 1 .. Len(order) /\ Len(order) \in Nat
    BY DEF TypeOK
  <2>4. ~(i < k) /\ ~(k < i)
    BY <1>1, <2>1, <2>2, <2>3
  <2> QED
    BY <1>1, <2>1, <2>2, <2>3, <2>4
<1> QED
  BY <1>2 DEF Recovers

\* An open request has its paths, and a content the broker wrote.
LEMMA OpenArgs ==
    ASSUME TypeOK, ThreadInv, EvidenceInv, NEW r \in Open
    PROVE  /\ r \in Req /\ src[r] \in Path /\ dst[r] \in Path \ {src[r]}
           /\ before[r] = Ours /\ Ours \in Content /\ Ours # Absent
           /\ NewAtt(r) \in Attestation /\ oldAtt[r] \in Attestation \cup {None}
<1>1. r \in Prepared /\ r \in Req
  BY DEF Open, Prepared, ToSet, TypeOK
<1>2. pc[r] # "idle"
  BY <1>1 DEF ThreadInv
<1> QED
  BY <1>1, <1>2, RenameAssumption DEF ThreadInv, EvidenceInv, TypeOK, NewAtt, Attestation, Content

\* A step of recovery works on an open rename whose request is over.
LEMMA RecoveryArgs ==
    ASSUME TypeOK, ThreadInv, EvidenceInv, NEW r \in Req, NEW stage, Recovers(r, stage)
    PROVE  /\ r \in Open /\ pc[r] \in Over /\ mode = "starting" /\ recovering = stage
           /\ src[r] \in Path /\ dst[r] \in Path \ {src[r]} /\ before[r] = Ours
<1>1. r \in Open /\ mode = "starting" /\ recovering = stage
  BY RecoversOne
<1> QED
  BY <1>1, OpenArgs DEF ThreadInv, Running, Over

-----------------------------------------------------------------------------
(* Types.                                                                  *)

\* Whatever step is taken: the files stay, one is renamed to a name that was free, one gets
\* another attestation, or the foreign actor is at work.
LEMMA FileCalls ==
    ASSUME TypeOK, ThreadInv, EvidenceInv, PrivateInv, [Next]_vars
    PROVE  \/ UNCHANGED <<destroyed, inodes>>
              /\ \/ at' = at
                 \/ \E a \in Place : \E b \in Place \ {a} : Move(a, b)
                 \/ \E x \in Place, a \in Attestation \cup {None} : at[x] # NoFile /\ SetAtt(x, a)
           \/ \E p \in ForeignPaths : Foreign(p)
<1> USE DEF Running, Over
<1> DEFINE Moved == \E a \in Place : \E b \in Place \ {a} : Move(a, b)
           Marked == \E x \in Place, a \in Attestation \cup {None} : at[x] # NoFile /\ SetAtt(x, a)
           Called == UNCHANGED <<destroyed, inodes>> /\ (at' = at \/ Moved \/ Marked)
<1>g. ASSUME NEW r \in Req, src[r] \in Path, GoBack(r) PROVE at' = at \/ Moved
  BY <1>g, Names DEF GoBack
<1>1. ASSUME NEW r \in Req, Observe(r) PROVE Called
  BY <1>1 DEF Observe, history
<1>2. ASSUME NEW r \in Req, Prepare(r) PROVE Called
  BY <1>2 DEF Prepare, history
<1>3. ASSUME NEW r \in Req, Claim(r) PROVE Called
  <2>1. src[r] \in Path
    BY <1>3 DEF Claim, Step, ThreadInv
  <2> QED
    BY <1>3, <2>1, Names DEF Claim
<1>4. ASSUME NEW r \in Req, InspectFails(r) PROVE Called
  <2>1. src[r] \in Path
    BY <1>4 DEF InspectFails, Step, ThreadInv
  <2> QED
    BY <1>4, <2>1, <1>g DEF InspectFails, history
<1>5. ASSUME NEW r \in Req, Reattest(r) PROVE Called
  <2>1. src[r] \in Path /\ r \in Open /\ at[r] # NoFile
    BY <1>5 DEF Reattest, ThreadInv, PrivateInv
  <2>2. NewAtt(r) \in Attestation
    BY <2>1, OpenArgs
  <2> QED
    BY <1>5, <2>1, <2>2, <1>g, Names DEF Reattest, history
<1>6. ASSUME NEW r \in Req, PlaceFile(r) PROVE Called
  <2>1. src[r] \in Path /\ dst[r] \in Path
    BY <1>6 DEF PlaceFile, ThreadInv
  <2> QED
    BY <1>6, <2>1, Names DEF PlaceFile
<1>7. ASSUME NEW r \in Req, RestoreEvidence(r) PROVE Called
  <2>1. r \in Open
    BY <1>7 DEF RestoreEvidence, Step, ThreadInv
  <2> QED
    BY <1>7, <2>1, OpenArgs, Names DEF RestoreEvidence, history
<1>8. ASSUME NEW r \in Req, Outcome(r) PROVE Called
  BY <1>8 DEF Outcome, history
<1>9. ASSUME NEW r \in Req, ChooseForward(r) PROVE Called
  BY <1>9 DEF ChooseForward, history
<1>10. ASSUME NEW r \in Req, RollForward(r) PROVE Called
  <2>1. src[r] \in Path /\ dst[r] \in Path
    BY <1>10, RecoveryArgs DEF RollForward
  <2> QED
    BY <1>10, <2>1, Names DEF RollForward
<1>11. ASSUME NEW r \in Req, RollBack(r) PROVE Called
  <2>1. src[r] \in Path
    BY <1>11, RecoveryArgs DEF RollBack, history
  <2> QED
    BY <1>11, <2>1, Names DEF RollBack, history
<1>12. ASSUME NEW r \in Req, RestoreAttestation(r) PROVE Called
  <2>1. r \in Open
    BY <1>12, RecoveryArgs DEF RestoreAttestation, history
  <2> QED
    BY <1>12, <2>1, OpenArgs, Names DEF RestoreAttestation, history
<1>13. ASSUME NEW r \in Req, RecoverInPlace(r) PROVE Called
  <2>1. r \in Open
    BY <1>13, RecoveryArgs DEF RecoverInPlace, history
  <2>2. CASE at[src[r]].content = before[r]
    <3>1. at[src[r]] # NoFile /\ SetAtt(src[r], oldAtt[r])
      BY <1>13, <2>1, <2>2, OpenArgs DEF RecoverInPlace, FinishRollBack, NoFile
    <3> QED
      BY <1>13, <2>1, <3>1, OpenArgs, Names DEF RecoverInPlace, history
  <2>3. CASE at[src[r]].content # before[r]
    BY <1>13, <2>3 DEF RecoverInPlace, FinishRollBack, history
  <2> QED
    BY <2>2, <2>3
<1>14. ASSUME NEW r \in Req, Reconciled(r) PROVE Called
  BY <1>14 DEF Reconciled, history
<1>15. CASE Crash
  BY <1>15 DEF Crash, history
<1>16. CASE FinishStart
  BY <1>16 DEF FinishStart, history
<1>17. CASE UNCHANGED vars
  BY <1>17 DEF vars, history
<1> QED
  BY <1>1, <1>2, <1>3, <1>4, <1>5, <1>6, <1>7, <1>8, <1>9, <1>10, <1>11, <1>12, <1>13, <1>14,
     <1>15, <1>16, <1>17 DEF Next, Thread, Recovery

\* A name that is free is free of everything: files have numbers.
FilesOK == at \in [Place -> File] /\ \A x \in Place : at[x].ino = 0 => at[x] = NoFile

\* No call makes a file out of nothing, or a file without a number.
LEMMA FilesStep ==
    ASSUME TypeOK, ThreadInv, EvidenceInv, PrivateInv, [Next]_vars
    PROVE  FilesOK'
<1> USE RenameAssumption DEF FilesOK
<1>t. FilesOK /\ minted \subseteq Attestation /\ inodes \in Nat
  BY DEF TypeOK
<1>n. NoFile \in File
  BY DEF NoFile, File
<1>m. ASSUME NEW a \in Place, NEW b \in Place \ {a}, Move(a, b) PROVE FilesOK'
  BY <1>t, <1>m, MoveFiles
<1>s. ASSUME NEW x \in Place, NEW a \in Attestation \cup {None}, SetAtt(x, a), at[x] # NoFile
      PROVE  FilesOK'
  <2>1. at' \in [Place -> File] /\ at'[x].ino # 0 /\ \A y \in Place \ {x} : at'[y] = at[y]
    BY <1>s, SetAttFiles
  <2> QED
    BY <1>t, <2>1
<1>u. ASSUME at' = at PROVE FilesOK'
  BY <1>t, <1>u
<1>f. ASSUME NEW p \in ForeignPaths, Foreign(p) PROVE FilesOK'
  <2>p. p \in Place
    BY DEF Place
  <2>1. ASSUME NEW a \in minted \cup {None}, NEW c \in Content,
               at' = [at EXCEPT ![p] = [ino |-> inodes + 1, content |-> c, att |-> a]]
        PROVE  FilesOK'
    <3>1. [ino |-> inodes + 1, content |-> c, att |-> a] \in File /\ inodes + 1 # 0
      BY <1>t DEF File
    <3> QED
      BY <1>t, <2>p, <2>1, <3>1
  <2>2. ASSUME at[p] # NoFile, at' = [at EXCEPT ![p].content = Alien] PROVE FilesOK'
    <3>1. at[p] \in File /\ at[p].ino # 0
      BY <1>t, <2>p, <2>2
    <3>2. [at[p] EXCEPT !.content = Alien] \in File /\ [at[p] EXCEPT !.content = Alien].ino = at[p].ino
      BY <3>1 DEF File, Content
    <3>3. at' = [at EXCEPT ![p] = [at[p] EXCEPT !.content = Alien]]
      BY <2>2
    <3> QED
      BY <1>t, <2>p, <3>1, <3>2, <3>3
  <2>3. ASSUME at' = [at EXCEPT ![p] = NoFile] PROVE FilesOK'
    BY <1>t, <1>n, <2>p, <2>3
  <2> QED
    BY <1>f, <2>1, <2>2, <2>3 DEF Foreign
<1> QED
  BY <1>m, <1>s, <1>u, <1>f, FileCalls

\* No file disappears but by the hand of the foreign actor.
LEMMA LostStep ==
    ASSUME TypeOK, ThreadInv, EvidenceInv, PrivateInv, NoFileLost, [Next]_vars
    PROVE  NoFileLost'
<1>t. /\ at \in [Place -> File] /\ inodes \in Nat /\ ForeignPaths \subseteq Place
      /\ \A x \in Place : at[x] = NoFile => at[x].ino = 0
  BY RenameAssumption DEF TypeOK, NoFile, Place
<1>k. ASSUME UNCHANGED <<destroyed, inodes>>,
             \A x \in Place : at[x] # NoFile => \E y \in Place : at'[y].ino = at[x].ino
      PROVE  NoFileLost'
  BY <1>t, <1>k DEF NoFileLost
<1>1. CASE UNCHANGED <<destroyed, inodes>> /\ at' = at
  BY <1>1, <1>k
<1>2. ASSUME UNCHANGED <<destroyed, inodes>>, NEW a \in Place, NEW b \in Place \ {a}, Move(a, b)
      PROVE  NoFileLost'
  <2>1. /\ at[b] = NoFile /\ at'[b] = at[a]
        /\ \A x \in Place \ {a, b} : at'[x] = at[x]
    BY <1>t, <1>2, MoveFiles
  <2>2. \A x \in Place : at[x] # NoFile => \E y \in Place : at'[y].ino = at[x].ino
    BY <2>1
  <2> QED
    BY <1>2, <1>k, <2>2
<1>3. ASSUME UNCHANGED <<destroyed, inodes>>, NEW x \in Place, NEW a \in Attestation \cup {None},
             at[x] # NoFile, SetAtt(x, a)
      PROVE  NoFileLost'
  <2>1. at'[x].ino = at[x].ino /\ \A y \in Place \ {x} : at'[y] = at[y]
    BY <1>3, SetAttFiles
  <2> QED
    BY <1>3, <1>k, <2>1
<1>4. ASSUME NEW p \in ForeignPaths, Foreign(p) PROVE NoFileLost'
  <2>k. ASSUME \A x \in Place \ {p} : at'[x] = at[x],
               destroyed' = destroyed \cup {at[p].ino} \/ (destroyed' = destroyed /\ at'[p].ino = at[p].ino),
               inodes' = inodes \/ (inodes' = inodes + 1 /\ at'[p].ino = inodes + 1)
        PROVE  NoFileLost'
    <3>1. \A i \in 1 .. inodes : i \in destroyed' \/ \E x \in Place : at'[x].ino = i
      BY <1>t, <2>k DEF NoFileLost
    <3>2. \A i \in 1 .. inodes' : i \in 1 .. inodes \/ (i = inodes + 1 /\ at'[p].ino = i)
      BY <1>t, <2>k
    <3> QED
      BY <1>t, <3>1, <3>2 DEF NoFileLost
  <2>1. ASSUME inodes' = inodes + 1, destroyed' = destroyed \cup {at[p].ino},
               NEW a, NEW c, at' = [at EXCEPT ![p] = [ino |-> inodes + 1, content |-> c, att |-> a]]
        PROVE  NoFileLost'
    BY <1>t, <2>1, <2>k
  <2>2. ASSUME UNCHANGED <<inodes, destroyed>>, at' = [at EXCEPT ![p].content = Alien]
        PROVE  NoFileLost'
    <3>1. at' = [at EXCEPT ![p] = [at[p] EXCEPT !.content = Alien]]
      BY <2>2
    <3>2. [at[p] EXCEPT !.content = Alien].ino = at[p].ino
      BY <1>t DEF File
    <3> QED
      BY <1>t, <2>2, <2>k, <3>1, <3>2
  <2>3. ASSUME inodes' = inodes, destroyed' = destroyed \cup {at[p].ino}, at' = [at EXCEPT ![p] = NoFile]
        PROVE  NoFileLost'
    BY <1>t, <2>3, <2>k
  <2> QED
    BY <1>4, <2>1, <2>2, <2>3 DEF Foreign
<1> QED
  BY <1>1, <1>2, <1>3, <1>4, FileCalls

\* A request is prepared once: it was not in the log when it was observed.
LEMMA OrderStep ==
    ASSUME TypeOK, ThreadInv, NEW r \in Req, Prepare(r), order' = Append(order, r)
    PROVE  /\ order' \in Seq(Req) /\ IsInjective(order') /\ order' # <<>>
           /\ Prepared' = Prepared \cup {r} /\ r \notin Prepared
<1>1. pc[r] = "observed" /\ r \notin Prepared /\ order \in Seq(Req) /\ IsInjective(order)
  BY DEF Prepare, ThreadInv, TypeOK
<1>2. /\ order' \in Seq(Req) /\ DOMAIN order' = 1 .. Len(order) + 1 /\ DOMAIN order = 1 .. Len(order)
      /\ Len(order) \in Nat /\ order'[Len(order) + 1] = r
      /\ \A j \in 1 .. Len(order) : order'[j] = order[j]
  BY <1>1, AppendProperties
<1>3. \A j \in 1 .. Len(order) : order[j] # r
  BY <1>1, <1>2 DEF Prepared, ToSet
<1>4. IsInjective(order')
  BY <1>1, <1>2, <1>3 DEF IsInjective
<1>5. Prepared' = Prepared \cup {r}
  BY <1>2 DEF Prepared, ToSet
<1>6. order' # <<>>
  BY <1>2
<1> QED
  BY <1>1, <1>2, <1>4, <1>5, <1>6

\* The log is unchanged but for a prepared record or a verdict.
LEMMA LogStep ==
    ASSUME TypeOK, ThreadInv, [Next]_vars
    PROVE  /\ order' = order \/ \E r \in Req : Prepare(r) /\ order' = Append(order, r)
           /\ verdict' = verdict
              \/ \E r \in Open, v \in Verdict \ {"none"} : verdict' = [verdict EXCEPT ![r] = v]
<1>1. ASSUME NEW r \in Req, Outcome(r) \/ Reconciled(r) \/ RollForward(r) \/ RollBack(r) \/ RestoreAttestation(r)
      PROVE  r \in Open
  <2>1. CASE Outcome(r)
    BY <2>1 DEF Outcome, Step, ThreadInv, Running
  <2> QED
    BY <1>1, <2>1, RecoversOne DEF Reconciled, RollForward, RollBack, RestoreAttestation
<1>2. \A r \in Req : Classify(r) \in Verdict \ {"none"}
  BY DEF Classify, Verdict
<1> QED
  BY <1>1, <1>2 DEF Next, Thread, Recovery, Observe, Prepare, Claim, InspectFails, Reattest,
     PlaceFile, RestoreEvidence, Outcome, ChooseForward, RollForward, RollBack, RestoreAttestation,
     RecoverInPlace, Reconciled, Crash, FinishStart, Foreign, vars, log, GiveUp, Verdict

\* Every step keeps the types.
LEMMA TypeStep ==
    ASSUME TypeOK, ThreadInv, EvidenceInv, PrivateInv, [Next]_vars
    PROVE  TypeOK'
<1> USE RenameAssumption
<1>t. TypeOK
  OBVIOUS
<1>p. /\ mode \in {"up", "starting"} /\ recovering \in {"no", "forward", "restore", "classify"}
      /\ placed \subseteq Req /\ destroyed \subseteq Nat
      /\ pc \in [Req -> {"idle", "observed", "prepared", "claimed", "attested", "movedback",
                         "executed", "done", "lost"}]
  BY <1>t DEF TypeOK
<1>1. FilesOK'
  BY FilesStep
<1>2. mode' \in {"up", "starting"}
  BY <1>p DEF Next, Thread, Recovery, Observe, Prepare, Claim, InspectFails, Reattest,
     PlaceFile, RestoreEvidence, Outcome, ChooseForward, RollForward, RollBack, RestoreAttestation,
     RecoverInPlace, Reconciled, Crash, FinishStart, Foreign, vars
<1>3. recovering' \in {"no", "forward", "restore", "classify"}
  <2>1. ASSUME NEW r \in Req, Thread(r) PROVE recovering' = recovering
    BY <2>1 DEF Thread, Observe, Prepare, Claim, InspectFails, Reattest, PlaceFile,
                RestoreEvidence, Outcome
  <2>2. ASSUME NEW r \in Req, Recovery(r)
        PROVE  recovering' \in {"no", "forward", "restore", "classify"}
    BY <1>p, <2>2 DEF Recovery, ChooseForward, RollForward, RollBack, RestoreAttestation,
                      RecoverInPlace, Reconciled
  <2> QED
    BY <1>p, <2>1, <2>2 DEF Next, Crash, FinishStart, Foreign, vars
<1>c. pc' \in [Req -> {"idle", "observed", "prepared", "claimed", "attested", "movedback",
                       "executed", "done", "lost"}]
  <2>1. ASSUME NEW r \in Req, Thread(r)
        PROVE  pc' \in [Req -> {"idle", "observed", "prepared", "claimed", "attested", "movedback",
                                "executed", "done", "lost"}]
    BY <1>p, <2>1 DEF Thread, Step, Observe, Prepare, Claim, InspectFails, Reattest, PlaceFile,
                      RestoreEvidence, Outcome
  <2>2. ASSUME NEW r \in Req, Recovery(r) PROVE pc' = pc
    BY <2>2 DEF Recovery, ChooseForward, RollForward, RollBack, RestoreAttestation,
                RecoverInPlace, Reconciled
  <2> QED
    BY <1>p, <2>1, <2>2 DEF Next, Crash, FinishStart, Foreign, vars
<1>4. src' \in [Req -> Path \cup {None}] /\ dst' \in [Req -> Path \cup {None}]
  <2>1. ASSUME NEW r \in Req, Thread(r)
        PROVE  Observe(r) \/ UNCHANGED <<src, dst>>
    BY <2>1 DEF Thread, Prepare, Claim, InspectFails, Reattest, PlaceFile, RestoreEvidence,
                Outcome, args
  <2>2. ASSUME NEW r \in Req, Recovery(r) PROVE UNCHANGED <<src, dst>>
    BY <2>2 DEF Recovery, ChooseForward, RollForward, RollBack, RestoreAttestation,
                RecoverInPlace, Reconciled, args
  <2>3. ASSUME NEW r \in Req, Observe(r)
        PROVE  src' \in [Req -> Path \cup {None}] /\ dst' \in [Req -> Path \cup {None}]
    BY <1>t, <2>3 DEF TypeOK, Observe
  <2> QED
    BY <1>t, <2>1, <2>2, <2>3 DEF TypeOK, Next, Crash, FinishStart, Foreign, vars, args
<1>5. /\ before' \in [Req -> Content \cup {Absent, None}]
      /\ dstBefore' \in [Req -> Content \cup {Absent, None}]
      /\ oldAtt' \in [Req -> Attestation \cup {None}]
  <2>1. \A x \in Place : at[x].content \in Content \cup {Absent} /\ at[x].att \in Attestation \cup {None}
    BY <1>t DEF TypeOK, File
  <2>2. ASSUME NEW r \in Req, Observe(r)
        PROVE  before' \in [Req -> Content \cup {Absent, None}] /\ UNCHANGED <<dstBefore, oldAtt>>
    BY <1>t, <2>1, <2>2 DEF TypeOK, Observe, Place
  <2>3. ASSUME NEW r \in Req, Prepare(r)
        PROVE  /\ before' = before
               /\ dstBefore' \in [Req -> Content \cup {Absent, None}]
               /\ oldAtt' \in [Req -> Attestation \cup {None}]
    <3>1. src[r] \in Place /\ dst[r] \in Place
      BY <2>3 DEF Prepare, ThreadInv, Place
    <3> QED
      BY <1>t, <2>1, <2>3, <3>1 DEF TypeOK, Prepare
  <2>4. \/ \E r \in Req : Observe(r) \/ Prepare(r)
        \/ UNCHANGED <<before, dstBefore, oldAtt>>
    BY DEF Next, Thread, Recovery, Observe, Prepare, Claim, InspectFails, Reattest,
     PlaceFile, RestoreEvidence, Outcome, ChooseForward, RollForward, RollBack, RestoreAttestation,
     RecoverInPlace, Reconciled, Crash, FinishStart, Foreign, vars, args
  <2> QED
    BY <1>t, <2>2, <2>3, <2>4 DEF TypeOK
<1>6. order' \in Seq(Req) /\ IsInjective(order')
  BY <1>t, LogStep, OrderStep DEF TypeOK
<1>7. verdict' \in [Req -> Verdict]
  BY <1>t, LogStep DEF TypeOK
<1>8. mine' \in [Req -> Nat] /\ placed' \subseteq Req /\ destroyed' \subseteq Nat
  <2>1. \A x \in Place : at[x].ino \in Nat
    BY <1>t DEF TypeOK, File
  <2>2. ASSUME NEW r \in Req, Claim(r) PROVE mine' \in [Req -> Nat] /\ UNCHANGED <<placed, destroyed>>
    <3>1. src[r] \in Place
      BY <2>2 DEF Claim, Step, ThreadInv, Place
    <3> QED
      BY <1>t, <2>1, <2>2, <3>1 DEF TypeOK, Claim
  <2>3. ASSUME NEW p \in ForeignPaths, Foreign(p)
        PROVE  destroyed' \subseteq Nat /\ UNCHANGED <<mine, placed>>
    <3>1. p \in Place
      BY DEF Place
    <3> QED
      BY <1>p, <2>1, <2>3, <3>1 DEF Foreign
  <2>4. ASSUME NEW r \in Req, Thread(r) \/ Recovery(r)
        PROVE  placed' \subseteq Req /\ destroyed' = destroyed /\ (mine' = mine \/ Claim(r))
    BY <1>p, <2>4 DEF Thread, Recovery, Observe, Prepare, Claim, InspectFails, Reattest,
       PlaceFile, RestoreEvidence, Outcome, ChooseForward, RollForward, RollBack,
       RestoreAttestation, RecoverInPlace, Reconciled, history
  <2>5. CASE Crash \/ FinishStart \/ UNCHANGED vars
    BY <1>t, <2>5 DEF TypeOK, Crash, FinishStart, vars, history
  <2> QED
    BY <1>t, <2>2, <2>3, <2>4, <2>5 DEF TypeOK, Next
<1>9. minted' \subseteq Attestation
  <2>1. ASSUME NEW r \in Req, Reattest(r) PROVE minted' \subseteq Attestation
    <3>1. r \in Open
      BY <2>1 DEF Reattest, ThreadInv, Running
    <3> QED
      BY <1>t, <2>1, <3>1, OpenArgs DEF TypeOK, Reattest
  <2>2. (\E r \in Req : Reattest(r)) \/ minted' = minted
    BY DEF Next, Thread, Recovery, Observe, Prepare, Claim, InspectFails, Reattest,
     PlaceFile, RestoreEvidence, Outcome, ChooseForward, RollForward, RollBack, RestoreAttestation,
     RecoverInPlace, Reconciled, Crash, FinishStart, Foreign, vars
  <2> QED
    BY <1>t, <2>1, <2>2 DEF TypeOK
<1>10. inodes' \in Nat /\ crashes' \in Nat /\ foreign' \in Nat
  BY <1>t DEF TypeOK, Next, Thread, Recovery, Observe, Prepare, Claim, InspectFails, Reattest,
     PlaceFile, RestoreEvidence, Outcome, ChooseForward, RollForward, RollBack, RestoreAttestation,
     RecoverInPlace, Reconciled, Crash, FinishStart, Foreign, vars, bounds
<1> QED
  BY <1>1, <1>2, <1>3, <1>c, <1>4, <1>5, <1>6, <1>7, <1>8, <1>9, <1>10 DEF TypeOK, FilesOK

-----------------------------------------------------------------------------
(* Threads and evidence.                                                   *)

\* A verdict closes its request and no other.
LEMMA Closing ==
    ASSUME TypeOK, NEW r \in Req, order' = order, NEW v \in Verdict \ {"none"},
           verdict' = [verdict EXCEPT ![r] = v]
    PROVE  Prepared' = Prepared /\ Open' = Open \ {r}
BY DEF TypeOK, Open, Prepared, ToSet, Verdict

\* A request goes through its steps once, its arguments do not change, and only recovery
\* goes on with one whose process has died.
LEMMA ThreadStep ==
    ASSUME TypeOK, ThreadInv, EvidenceInv, [Next]_vars
    PROVE  ThreadInv'
<1> USE RenameAssumption DEF ThreadInv, Running, Over
<1>t. /\ pc \in [Req -> {"idle", "observed", "prepared", "claimed", "attested", "movedback",
                         "executed", "done", "lost"}]
      /\ src \in [Req -> Path \cup {None}] /\ dst \in [Req -> Path \cup {None}]
      /\ before \in [Req -> Content \cup {Absent, None}]
      /\ verdict \in [Req -> Verdict] /\ Prepared \subseteq Req
      /\ mode \in {"up", "starting"}
      /\ \A x \in Place : at[x].content \in Content \cup {Absent}
  BY DEF TypeOK, Prepared, ToSet, File
<1>k. ASSUME UNCHANGED log PROVE Prepared' = Prepared /\ Open' = Open
  BY <1>k DEF log, Prepared, Open
<1>c. ASSUME NEW r \in Req, order' = order, NEW v \in Verdict \ {"none"},
             verdict' = [verdict EXCEPT ![r] = v]
      PROVE  Prepared' = Prepared /\ Open' = Open \ {r}
  BY <1>c, Closing
<1>o. \A r \in Open : r \in Req /\ r \in Prepared
  BY <1>t DEF Open
<1>1. ASSUME NEW r \in Req, Observe(r) PROVE ThreadInv'
  <2>1. PICK p \in Path : \E q \in Path \ {p} :
          /\ src' = [src EXCEPT ![r] = p] /\ dst' = [dst EXCEPT ![r] = q]
          /\ before' = [before EXCEPT ![r] = at[p].content]
    BY <1>1 DEF Observe
  <2>2. at[p].content \in Content \cup {Absent}
    BY <1>t DEF Place
  <2>3. /\ pc[r] = "idle" /\ pc' = [pc EXCEPT ![r] = "observed"]
        /\ UNCHANGED <<mode, order, verdict, recovering, placed>>
        /\ Prepared' = Prepared /\ Open' = Open
    BY <1>1, <1>k DEF Observe, log, history
  <2>4. ASSUME NEW s \in Req \ {r}
        PROVE  /\ pc'[s] = pc[s] /\ src'[s] = src[s] /\ dst'[s] = dst[s] /\ before'[s] = before[s]
    BY <1>t, <2>1, <2>3
  <2>5. /\ src'[r] = p /\ dst'[r] \in Path \ {p} /\ before'[r] = at[p].content /\ pc'[r] = "observed"
    BY <1>t, <2>1, <2>3
  <2>6. mode = "up"
    BY <1>1 DEF Observe
  <2> QED
    BY <1>t, <1>o, <2>2, <2>3, <2>4, <2>5, <2>6
<1>2. ASSUME NEW r \in Req, Prepare(r) PROVE ThreadInv'
  <2>0. /\ mode = "up" /\ pc[r] = "observed"
        /\ UNCHANGED <<mode, src, dst, before, verdict, recovering, placed>>
    BY <1>2, <1>t DEF Prepare, history
  <2>1. ASSUME order' = Append(order, r), NEW to \in {"prepared", "done"}, pc' = [pc EXCEPT ![r] = to]
        PROVE  ThreadInv'
    <3>1. Prepared' = Prepared \cup {r} /\ r \notin Prepared
      BY <1>2, <2>1, OrderStep
    <3>2. Open' = Open \cup {r}
      BY <2>0, <3>1 DEF Open
    <3> QED
      BY <1>t, <1>o, <2>0, <2>1, <3>1, <3>2
  <2>2. ASSUME order' = order, pc' = [pc EXCEPT ![r] = "done"] PROVE ThreadInv'
    <3>1. Prepared' = Prepared /\ Open' = Open
      BY <1>k, <2>0, <2>2 DEF log
    <3> QED
      BY <1>t, <1>o, <2>0, <2>2, <3>1
  <2> QED
    BY <1>2, <2>1, <2>2 DEF Prepare
<1>3. ASSUME NEW r \in Req, Claim(r) \/ InspectFails(r) \/ Reattest(r) \/ RestoreEvidence(r)
      PROVE  ThreadInv'
  <2>1. /\ pc[r] \in Running \ {"executed"} /\ \E to \in Running : pc' = [pc EXCEPT ![r] = to]
        /\ UNCHANGED <<mode, args, log, recovering, placed>>
    BY <1>3 DEF Claim, InspectFails, Reattest, RestoreEvidence, Step, history
  <2> QED
    BY <1>t, <1>k, <1>o, <2>1 DEF args, log
<1>6. ASSUME NEW r \in Req, PlaceFile(r) PROVE ThreadInv'
  <2>1. /\ pc[r] = "attested" /\ \E to \in {"movedback", "executed"} : pc' = [pc EXCEPT ![r] = to]
        /\ placed' = placed \/ (placed' = placed \cup {r} /\ pc' = [pc EXCEPT ![r] = "executed"])
        /\ UNCHANGED <<mode, args, log, recovering>>
    BY <1>6 DEF PlaceFile, Step
  <2> QED
    BY <1>t, <1>k, <1>o, <2>1 DEF args, log
<1>8. ASSUME NEW r \in Req, Outcome(r) PROVE ThreadInv'
  <2>1. Classify(r) \in Verdict \ {"none"}
    BY DEF Classify, Verdict
  <2>2. /\ pc[r] = "executed" /\ pc' = [pc EXCEPT ![r] = "done"] /\ order' = order
        /\ UNCHANGED <<mode, args, recovering, placed>>
        /\ verdict' = verdict \/ verdict' = [verdict EXCEPT ![r] = Classify(r)]
    BY <1>8 DEF Outcome, Step, history
  <2>3. CASE verdict' = [verdict EXCEPT ![r] = Classify(r)]
    <3>1. Prepared' = Prepared /\ Open' = Open \ {r}
      BY <1>c, <2>1, <2>2, <2>3
    <3> QED
      BY <1>t, <1>o, <2>2, <2>3, <3>1 DEF args
  <2>4. CASE verdict' = verdict
    <3>1. Prepared' = Prepared /\ Open' = Open
      BY <1>k, <2>2, <2>4 DEF log
    <3> QED
      BY <1>t, <1>o, <2>2, <2>4, <3>1 DEF args
  <2> QED
    BY <2>2, <2>3, <2>4
<1>9. ASSUME NEW r \in Req, ChooseForward(r) \/ RecoverInPlace(r) PROVE ThreadInv'
  <2>1. mode = "starting" /\ r \in Open /\ UNCHANGED <<mode, pc, args, log, placed>>
    BY <1>9, RecoversOne DEF ChooseForward, RecoverInPlace, history
  <2> QED
    BY <1>t, <1>k, <1>o, <2>1 DEF args, log
<1>10. ASSUME NEW r \in Req,
              RollForward(r) \/ RollBack(r) \/ RestoreAttestation(r) \/ Reconciled(r)
       PROVE  ThreadInv'
  <2>1. /\ mode = "starting" /\ r \in Open /\ pc[r] \in Over
    BY <1>10, RecoveryArgs DEF RollForward, RollBack, RestoreAttestation, Reconciled
  <2>2. /\ UNCHANGED <<mode, pc, args, order>> /\ placed' \in {placed, placed \cup {r}}
        /\ \/ verdict' = verdict
           \/ /\ recovering' = "no"
              /\ \E v \in {"unresolved", Classify(r)} : verdict' = [verdict EXCEPT ![r] = v]
    BY <1>10 DEF RollForward, RollBack, RestoreAttestation, Reconciled, GiveUp, Recovers, history
  <2>3. "unresolved" \in Verdict \ {"none"} /\ Classify(r) \in Verdict \ {"none"}
    BY DEF Classify, Verdict
  <2>4. /\ Prepared' = Prepared /\ Open' \subseteq Open /\ Open \ {r} \subseteq Open'
        /\ recovering' = "no" \/ Open' = Open
    BY <1>k, <1>c, <2>2, <2>3 DEF log
  <2>5. \A q \in Req : pc[q] \in {"idle", "observed"} => verdict'[q] = verdict[q]
    BY <1>t, <2>1, <2>2
  <2> QED
    BY <1>t, <1>o, <2>1, <2>2, <2>4, <2>5 DEF args
<1>15. CASE Crash
  <2>1. /\ mode' = "starting" /\ recovering' = "no"
        /\ pc' = [r \in Req |-> IF pc[r] \in {"idle", "done"} THEN pc[r] ELSE "lost"]
        /\ UNCHANGED <<args, log, placed>>
    BY <1>15 DEF Crash, history
  <2> QED
    BY <1>t, <1>k, <1>o, <2>1 DEF args, log
<1>16. CASE FinishStart
  <2>1. /\ mode' = "up" /\ UNCHANGED <<pc, args, log, placed, recovering>> /\ Open = {}
        /\ mode = "starting"
    BY <1>16 DEF FinishStart, history
  <2> QED
    BY <1>t, <1>k, <1>o, <2>1 DEF args, log
<1>17. ASSUME NEW p \in ForeignPaths, Foreign(p) PROVE ThreadInv'
  <2>1. UNCHANGED <<mode, pc, args, log, recovering, placed>>
    BY <1>17 DEF Foreign
  <2> QED
    BY <1>t, <1>k, <1>o, <2>1 DEF args, log
<1>18. CASE UNCHANGED vars
  BY <1>18, <1>k DEF vars, args, history, log
<1> QED
  BY <1>1, <1>2, <1>3, <1>6, <1>8, <1>9, <1>10, <1>15, <1>16, <1>17, <1>18 DEF Next, Thread, Recovery

\* An attestation moves with its file, or is one the broker has signed: for a content it
\* wrote, since it has attested that content before.
LEMMA EvidenceStep ==
    ASSUME TypeOK, ThreadInv, EvidenceInv, PrivateInv, [Next]_vars
    PROVE  EvidenceInv'
<1> USE RenameAssumption DEF EvidenceInv, NeverLaunders
<1>t. /\ at \in [Place -> File] /\ oldAtt \in [Req -> Attestation \cup {None}]
      /\ before \in [Req -> Content \cup {Absent, None}]
      /\ Prepared \subseteq Req
  BY DEF TypeOK, Prepared, ToSet
<1>n. NoFile.att = None
  BY DEF NoFile
<1> DEFINE Signed == \A x \in Place : at'[x].att \in minted' \cup {None}
<1>m. ASSUME NEW a \in Place, NEW b \in Place \ {a}, Move(a, b), minted \subseteq minted' PROVE Signed
  BY <1>m, <1>n, <1>t, MoveFiles
<1>s. ASSUME NEW x \in Place, NEW a \in Attestation \cup {None}, SetAtt(x, a), at[x] # NoFile,
             a \in minted' \cup {None}, minted \subseteq minted'
      PROVE  Signed
  BY <1>s, SetAttFiles
<1>u. ASSUME at' = at, minted' = minted PROVE Signed
  BY <1>u
<1>g. ASSUME NEW r \in Req, src[r] \in Path, GoBack(r), minted' = minted PROVE Signed
  BY <1>g, <1>m, <1>u, Names DEF GoBack
<1>1. ASSUME NEW r \in Req, Observe(r) PROVE EvidenceInv'
  <2>1. r \notin Prepared /\ Prepared' = Prepared
    BY <1>1 DEF Observe, ThreadInv, log, Prepared
  <2>2. /\ \A q \in Req \ {r} : before'[q] = before[q]
        /\ UNCHANGED <<at, oldAtt, minted>>
    BY <1>1, <1>t DEF Observe
  <2> QED
    BY <1>t, <2>1, <2>2
<1>2. ASSUME NEW r \in Req, Prepare(r) PROVE EvidenceInv'
  <2>1. src[r] \in Place
    BY <1>2 DEF Prepare, ThreadInv, Place
  <2>2. UNCHANGED <<at, before, minted>> /\ oldAtt' = [oldAtt EXCEPT ![r] = at[src[r]].att]
    BY <1>2 DEF Prepare
  <2>3. CASE order' = Append(order, r) /\ Attested(r, at[src[r]].att)
    <3>1. Prepared' = Prepared \cup {r}
      BY <1>2, <2>3, OrderStep
    <3>2. before[r] = Ours
      BY <2>1, <2>3 DEF Attested
    <3> QED
      BY <1>t, <2>1, <2>2, <3>1, <3>2
  <2>4. CASE order' = order
    <3>1. Prepared' = Prepared
      BY <2>4 DEF Prepared
    <3> QED
      BY <1>t, <2>1, <2>2, <3>1
  <2> QED
    BY <1>2, <2>3, <2>4 DEF Prepare
<1>r. ASSUME UNCHANGED <<order, before, oldAtt, minted>>, Signed PROVE EvidenceInv'
  BY <1>r DEF Prepared
<1>3. ASSUME NEW r \in Req, Claim(r) PROVE EvidenceInv'
  <2>1. src[r] \in Path
    BY <1>3 DEF Claim, Step, ThreadInv
  <2> QED
    BY <1>3, <2>1, <1>m, <1>u, <1>r, Names DEF Claim, args, log
<1>4. ASSUME NEW r \in Req, InspectFails(r) PROVE EvidenceInv'
  <2>1. src[r] \in Path
    BY <1>4 DEF InspectFails, Step, ThreadInv
  <2> QED
    BY <1>4, <2>1, <1>g, <1>r DEF InspectFails, args, log
<1>5. ASSUME NEW r \in Req, Reattest(r) PROVE EvidenceInv'
  <2>1. r \in Open /\ at[r] # NoFile
    BY <1>5 DEF Reattest, ThreadInv, PrivateInv, Running
  <2>2. NewAtt(r) \in Attestation /\ src[r] \in Path /\ NewAtt(r).digest = Ours
    BY <2>1, OpenArgs DEF NewAtt
  <2>3. UNCHANGED <<order, before, oldAtt>>
    BY <1>5 DEF Reattest, args, log
  <2>4. CASE SetAtt(r, NewAtt(r)) /\ minted' = minted \cup {NewAtt(r)}
    <3>1. Signed
      BY <2>1, <2>2, <2>4, <1>s, Names
    <3> QED
      BY <2>2, <2>3, <2>4, <3>1 DEF Prepared
  <2>5. CASE GoBack(r) /\ minted' = minted
    BY <2>2, <2>3, <2>5, <1>g, <1>r
  <2> QED
    BY <1>5, <2>4, <2>5 DEF Reattest
<1>6. ASSUME NEW r \in Req, PlaceFile(r) PROVE EvidenceInv'
  <2>1. src[r] \in Path /\ dst[r] \in Path
    BY <1>6 DEF PlaceFile, ThreadInv
  <2> QED
    BY <1>6, <2>1, <1>m, <1>u, <1>r, Names DEF PlaceFile, args, log
<1>7. ASSUME NEW r \in Req, RestoreEvidence(r) PROVE EvidenceInv'
  <2>1. r \in Open
    BY <1>7 DEF RestoreEvidence, Step, ThreadInv, Running
  <2>2. src[r] \in Path /\ oldAtt[r] \in Attestation \cup {None}
    BY <2>1, OpenArgs
  <2> QED
    BY <1>7, <2>2, <1>s, <1>u, <1>r, Names DEF RestoreEvidence, args, log
<1>8. ASSUME NEW r \in Req, Outcome(r) PROVE EvidenceInv'
  BY <1>8, <1>u, <1>r DEF Outcome, args
<1>9. ASSUME NEW r \in Req, ChooseForward(r) PROVE EvidenceInv'
  BY <1>9, <1>u, <1>r DEF ChooseForward, args, log
<1>10. ASSUME NEW r \in Req, RollForward(r) PROVE EvidenceInv'
  <2>1. src[r] \in Path /\ dst[r] \in Path
    BY <1>10, RecoveryArgs DEF RollForward
  <2> QED
    BY <1>10, <2>1, <1>m, <1>u, <1>r, Names DEF RollForward, args
<1>11. ASSUME NEW r \in Req, RollBack(r) PROVE EvidenceInv'
  <2>1. src[r] \in Path
    BY <1>11, RecoveryArgs DEF RollBack
  <2> QED
    BY <1>11, <2>1, <1>m, <1>u, <1>r, Names DEF RollBack, args
<1>12. ASSUME NEW r \in Req, RestoreAttestation(r) PROVE EvidenceInv'
  <2>1. src[r] \in Path /\ oldAtt[r] \in Attestation \cup {None}
    BY <1>12, <1>t, RecoveryArgs DEF RestoreAttestation
  <2> QED
    BY <1>12, <2>1, <1>s, <1>u, <1>r, Names DEF RestoreAttestation, args
<1>13. ASSUME NEW r \in Req, RecoverInPlace(r) PROVE EvidenceInv'
  <2>1. src[r] \in Path /\ oldAtt[r] \in Attestation \cup {None} /\ before[r] = Ours
    BY <1>13, <1>t, RecoveryArgs DEF RecoverInPlace
  <2>2. UNCHANGED <<order, before, oldAtt, minted>>
    BY <1>13 DEF RecoverInPlace, args, log
  <2>3. CASE at[src[r]].content = before[r]
    <3>1. at[src[r]] # NoFile /\ SetAtt(src[r], oldAtt[r])
      BY <1>13, <2>1, <2>3 DEF RecoverInPlace, FinishRollBack, NoFile
    <3> QED
      BY <2>1, <2>2, <3>1, <1>s, <1>r, Names
  <2>4. CASE at[src[r]].content # before[r]
    BY <1>13, <2>2, <2>4, <1>u, <1>r DEF RecoverInPlace, FinishRollBack
  <2> QED
    BY <2>3, <2>4
<1>14. ASSUME NEW r \in Req, Reconciled(r) PROVE EvidenceInv'
  BY <1>14, <1>u, <1>r DEF Reconciled, args
<1>15. CASE Crash
  BY <1>15, <1>u, <1>r DEF Crash, args, log
<1>16. CASE FinishStart
  BY <1>16, <1>u, <1>r DEF FinishStart, args, log
<1>17. ASSUME NEW p \in ForeignPaths, Foreign(p) PROVE EvidenceInv'
  <2>1. p \in Place /\ at[p] \in File
    BY <1>t DEF Place
  <2>2. UNCHANGED <<order, before, oldAtt, minted>>
    BY <1>17 DEF Foreign, args, log
  <2>3. /\ \A x \in Place \ {p} : at'[x] = at[x]
        /\ at'[p].att \in minted \cup {None}
    <3>1. ASSUME NEW a \in minted \cup {None}, NEW c,
                 at' = [at EXCEPT ![p] = [ino |-> inodes + 1, content |-> c, att |-> a]]
          PROVE  at'[p].att \in minted \cup {None}
      BY <1>t, <2>1, <3>1
    <3>2. ASSUME at' = [at EXCEPT ![p].content = Alien] PROVE at'[p].att \in minted \cup {None}
      <4>1. [at[p] EXCEPT !.content = Alien].att = at[p].att
        BY <2>1 DEF File
      <4>2. at'[p] = [at[p] EXCEPT !.content = Alien]
        BY <1>t, <2>1, <3>2
      <4> QED
        BY <2>1, <4>1, <4>2
    <3>3. ASSUME at' = [at EXCEPT ![p] = NoFile] PROVE at'[p].att \in minted \cup {None}
      BY <1>t, <1>n, <2>1, <3>3
    <3>4. at'[p].att \in minted \cup {None}
      BY <1>17, <3>1, <3>2, <3>3 DEF Foreign
    <3> QED
      BY <1>17, <1>t, <3>4 DEF Foreign
  <2>4. Signed
    BY <2>2, <2>3
  <2> QED
    BY <2>2, <2>4, <1>r
<1>18. CASE UNCHANGED vars
  BY <1>18, <1>u, <1>r DEF vars, args, log
<1> QED
  BY <1>1, <1>2, <1>3, <1>4, <1>5, <1>6, <1>7, <1>8, <1>9, <1>10, <1>11, <1>12, <1>13, <1>14,
     <1>15, <1>16, <1>17, <1>18 DEF Next, Thread, Recovery

-----------------------------------------------------------------------------
(* Where the files are.                                                    *)

\* While nobody appends to the log, recovery stays at its rename.
LEMMA RecoversStill ==
    ASSUME TypeOK, UNCHANGED <<mode, order, verdict>>, NEW q, Recovers(q, recovering)'
    PROVE  /\ Recovers(q, recovering)
           /\ \A r, stage : Recovers(r, stage) => q = r
<1>1. Open' = Open /\ mode' = mode /\ order' = order
  BY DEF Open, Prepared
<1>2. /\ mode = "starting" /\ q \in Open
      /\ \E i \in DOMAIN order : order[i] = q /\ \A j \in 1 .. i - 1 : order[j] \notin Open
  BY <1>1 DEF Recovers
<1>3. Recovers(q, recovering)
  BY <1>2 DEF Recovers
<1> QED
  BY <1>3, RecoversOne DEF Recovers

\* What a foreign edit leaves: every private name as it was, and at the path a file with
\* some content, or none.
LEMMA ForeignFiles ==
    ASSUME TypeOK, PrivateInv, NEW p \in ForeignPaths, Foreign(p)
    PROVE  /\ p \in Path /\ \A x \in Place \ {p} : at'[x] = at[x]
           /\ at'[p] # NoFile => at'[p].content \in Content
<1> USE RenameAssumption
<1>1. p \in Place /\ p \in Path /\ at \in [Place -> File] /\ at[p] \in File
  BY DEF Place, TypeOK
<1>2. ASSUME NEW a, NEW c \in Content,
             at' = [at EXCEPT ![p] = [ino |-> inodes + 1, content |-> c, att |-> a]]
      PROVE  at'[p].content \in Content
  BY <1>1, <1>2
<1>3. ASSUME at' = [at EXCEPT ![p].content = Alien] PROVE at'[p].content \in Content
  <2>1. [at[p] EXCEPT !.content = Alien].content = Alien
    BY <1>1 DEF File
  <2>2. at'[p] = [at[p] EXCEPT !.content = Alien]
    BY <1>1, <1>3
  <2> QED
    BY <2>1, <2>2 DEF Content
<1>4. ASSUME at' = [at EXCEPT ![p] = NoFile] PROVE at'[p] = NoFile
  BY <1>1, <1>4
<1>5. at'[p] # NoFile => at'[p].content \in Content
  BY <1>2, <1>3, <1>4 DEF Foreign
<1> QED
  BY <1>1, <1>5 DEF Foreign

\* Only the claim fills a private name, and only the placement or the way back empties it.
LEMMA PrivateStep ==
    ASSUME TypeOK, ThreadInv, EvidenceInv, PrivateInv, [Next]_vars
    PROVE  PrivateInv'
<1> USE RenameAssumption DEF Running
<1>t. /\ at \in [Place -> File]
      /\ pc \in [Req -> {"idle", "observed", "prepared", "claimed", "attested", "movedback",
                         "executed", "done", "lost"}]
      /\ Req \subseteq Place /\ Path \subseteq Place
  BY DEF TypeOK, Place
<1> DEFINE Filled == \A x \in Place : at[x] # NoFile => at[x].content \in Content
           InPlace(r) == pc[r] \in {"idle", "observed", "prepared"} \/ r \in placed => at[r] = NoFile
           InHand(r)  == pc[r] \in {"claimed", "attested"} => at[r] # NoFile
           AtHand(r)  == Recovers(r, recovering) =>
                           /\ recovering = "forward" => at[r] # NoFile
                           /\ recovering \in {"restore", "classify"} => at[r] = NoFile
<1>i. Filled /\ \A r \in Req : InPlace(r) /\ InHand(r) /\ AtHand(r)
  BY DEF PrivateInv
<1>q. ASSUME Filled', \A r \in Req : InPlace(r)' /\ InHand(r)' /\ AtHand(r)' PROVE PrivateInv'
  BY <1>q DEF PrivateInv
\* a step of a thread: recovery is not at work
<1>th. ASSUME mode = "up", UNCHANGED <<mode, recovering>> PROVE \A r \in Req : AtHand(r)'
  BY <1>th DEF ThreadInv
<1>m. ASSUME NEW a \in Place, NEW b \in Place \ {a}, Move(a, b) PROVE Filled'
  BY <1>t, <1>m, <1>i, MoveFiles
<1>s. ASSUME NEW x \in Place, NEW a \in Attestation \cup {None}, SetAtt(x, a), at[x] # NoFile
      PROVE  Filled' /\ \A y \in Place : (at'[y] = NoFile <=> at[y] = NoFile)
  BY <1>s, <1>i, SetAttFiles
<1>u. ASSUME at' = at PROVE Filled'
  BY <1>u, <1>i
\* what a step of one request leaves alone
<1>o. ASSUME NEW r \in Req, NEW q \in Req \ {r}, at'[q] = at[q], pc'[q] = pc[q],
             q \in placed' => q \in placed
      PROVE  InPlace(q)' /\ InHand(q)'
  BY <1>o, <1>i
<1>v. ASSUME NEW r \in Req, \A q \in Req \ {r} : at'[q] = at[q] /\ pc'[q] = pc[q],
             placed' \subseteq placed \cup {r}, mode = "up", UNCHANGED <<mode, recovering>>,
             Filled', InPlace(r)', InHand(r)'
      PROVE  PrivateInv'
  <2>1. \A q \in Req \ {r} : InPlace(q)' /\ InHand(q)'
    BY <1>v, <1>o
  <2> QED
    BY <1>v, <1>th, <1>q, <2>1
<1>w. ASSUME NEW r \in Req, NEW stage, Recovers(r, stage), UNCHANGED <<mode, pc, order>>,
             verdict' = verdict \/ recovering' = "no",
             \A q \in Req \ {r} : at'[q] = at[q], placed' \subseteq placed \cup {r},
             Filled', InPlace(r)', InHand(r)', verdict' = verdict => AtHand(r)'
      PROVE  PrivateInv'
  <2>1. \A q \in Req \ {r} : InPlace(q)' /\ InHand(q)'
    BY <1>w, <1>o
  <2>2. CASE recovering' = "no"
    BY <1>w, <1>q, <2>1, <2>2
  <2>3. CASE verdict' = verdict
    <3>1. \A q \in Req : Recovers(q, recovering)' => q = r
      BY <1>w, <2>3, RecoversStill
    <3> QED
      BY <1>w, <1>q, <2>1, <2>3, <3>1
  <2> QED
    BY <1>w, <2>2, <2>3
<1>1. ASSUME NEW r \in Req, Observe(r) PROVE PrivateInv'
  <2>1. /\ pc[r] = "idle" /\ pc' = [pc EXCEPT ![r] = "observed"] /\ mode = "up"
        /\ UNCHANGED <<mode, at, recovering, placed>>
    BY <1>1 DEF Observe, history
  <2> QED
    BY <1>t, <1>i, <1>u, <1>v, <2>1
<1>2. ASSUME NEW r \in Req, Prepare(r) PROVE PrivateInv'
  <2>1. /\ pc[r] = "observed" /\ mode = "up" /\ UNCHANGED <<mode, at, recovering, placed>>
        /\ pc' = [pc EXCEPT ![r] = "prepared"] \/ pc' = [pc EXCEPT ![r] = "done"]
    BY <1>2, <1>t DEF Prepare, ThreadInv, TypeOK, history, Over
  <2> QED
    BY <1>t, <1>i, <1>u, <1>v, <2>1
\* what a running request knows
<1>r. ASSUME NEW r \in Req, pc[r] \in Running
      PROVE  /\ mode = "up" /\ src[r] \in Path /\ dst[r] \in Path /\ r \in Open
             /\ r \in placed => pc[r] = "executed"
  BY <1>r DEF ThreadInv, TypeOK, Over
<1>3. ASSUME NEW r \in Req, Claim(r) PROVE PrivateInv'
  <2>1. /\ pc[r] = "prepared" /\ UNCHANGED <<mode, recovering, placed>>
        /\ \/ /\ pc' = [pc EXCEPT ![r] = "claimed"] /\ Move(src[r], r) /\ at[src[r]] # NoFile
           \/ pc' = [pc EXCEPT ![r] = "executed"] /\ at' = at
    BY <1>3 DEF Claim, Step
  <2>2. mode = "up" /\ src[r] \in Path /\ r \notin placed
    BY <1>r, <2>1
  <2>3. CASE Move(src[r], r) /\ pc' = [pc EXCEPT ![r] = "claimed"]
    <3>1. at'[r] # NoFile /\ \A q \in Req \ {r} : at'[q] = at[q]
      BY <1>t, <2>1, <2>2, <2>3, MoveFiles, Names
    <3>2. Filled'
      BY <1>m, <2>2, <2>3, Names
    <3> QED
      BY <1>t, <1>v, <2>1, <2>2, <2>3, <3>1, <3>2
  <2>4. CASE at' = at /\ pc' = [pc EXCEPT ![r] = "executed"]
    BY <1>t, <1>u, <1>v, <2>1, <2>2, <2>4
  <2> QED
    BY <2>1, <2>3, <2>4
\* a file that goes from a private name to a path
<1>b. ASSUME NEW r \in Req, NEW p \in Path, Move(r, p)
      PROVE  Filled' /\ at'[r] = NoFile /\ \A q \in Req \ {r} : at'[q] = at[q]
  BY <1>t, <1>b, <1>m, MoveFiles, Names
<1>4. ASSUME NEW r \in Req, InspectFails(r) PROVE PrivateInv'
  <2>1. /\ pc[r] = "claimed" /\ pc' = [pc EXCEPT ![r] = "executed"]
        /\ GoBack(r) /\ UNCHANGED <<mode, recovering, placed>>
    BY <1>4 DEF InspectFails, Step, history
  <2>2. mode = "up" /\ src[r] \in Path /\ r \notin placed
    BY <1>r, <2>1
  <2>3. Filled' /\ \A q \in Req \ {r} : at'[q] = at[q]
    BY <1>b, <1>u, <2>1, <2>2 DEF GoBack
  <2> QED
    BY <1>t, <1>v, <2>1, <2>2, <2>3
<1>5. ASSUME NEW r \in Req, Reattest(r) PROVE PrivateInv'
  <2>1. /\ pc[r] = "claimed" /\ UNCHANGED <<mode, recovering, placed>>
        /\ \/ pc' = [pc EXCEPT ![r] = "attested"] /\ SetAtt(r, NewAtt(r))
           \/ pc' = [pc EXCEPT ![r] = "executed"] /\ GoBack(r)
    BY <1>5 DEF Reattest, Step, history
  <2>2. mode = "up" /\ src[r] \in Path /\ r \in Open /\ r \notin placed /\ at[r] # NoFile
    BY <1>r, <1>i, <2>1
  <2>3. CASE pc' = [pc EXCEPT ![r] = "attested"] /\ SetAtt(r, NewAtt(r))
    <3>1. NewAtt(r) \in Attestation
      BY <2>2, OpenArgs
    <3>2. Filled' /\ at'[r] # NoFile /\ \A q \in Req \ {r} : at'[q] = at[q]
      BY <1>t, <1>s, <2>2, <2>3, <3>1, SetAttFiles
    <3> QED
      BY <1>t, <1>v, <2>1, <2>2, <2>3, <3>2
  <2>4. CASE pc' = [pc EXCEPT ![r] = "executed"] /\ GoBack(r)
    <3>1. Filled' /\ \A q \in Req \ {r} : at'[q] = at[q]
      BY <1>b, <1>u, <2>2, <2>4 DEF GoBack
    <3> QED
      BY <1>t, <1>v, <2>1, <2>2, <2>4, <3>1
  <2> QED
    BY <2>1, <2>3, <2>4
<1>6. ASSUME NEW r \in Req, PlaceFile(r) PROVE PrivateInv'
  <2>1. /\ pc[r] = "attested" /\ UNCHANGED <<mode, recovering>>
        /\ \/ pc' = [pc EXCEPT ![r] = "executed"] /\ Move(r, dst[r]) /\ placed' = placed \cup {r}
           \/ pc' = [pc EXCEPT ![r] = "movedback"] /\ Move(r, src[r]) /\ placed' = placed
           \/ pc' = [pc EXCEPT ![r] = "executed"] /\ at' = at /\ placed' = placed
    BY <1>6 DEF PlaceFile, Step
  <2>2. mode = "up" /\ src[r] \in Path /\ dst[r] \in Path /\ r \notin placed
    BY <1>r, <2>1
  <2>3. Filled' /\ (at'[r] = NoFile \/ placed' = placed) /\ \A q \in Req \ {r} : at'[q] = at[q]
    BY <1>b, <1>u, <2>1, <2>2
  <2>4. pc'[r] \in {"executed", "movedback"} /\ \A q \in Req \ {r} : pc'[q] = pc[q]
    BY <1>t, <2>1
  <2> QED
    BY <1>v, <2>1, <2>2, <2>3, <2>4
<1>7. ASSUME NEW r \in Req, RestoreEvidence(r) PROVE PrivateInv'
  <2>1. /\ pc[r] = "movedback" /\ pc' = [pc EXCEPT ![r] = "executed"]
        /\ UNCHANGED <<mode, recovering, placed>>
    BY <1>7 DEF RestoreEvidence, Step, history
  <2>2. mode = "up" /\ src[r] \in Path /\ r \in Open /\ r \notin placed
    BY <1>r, <2>1
  <2>3. Filled' /\ \A q \in Req : at'[q] = at[q]
    <3>1. CASE at' = at
      BY <1>u, <3>1
    <3>2. CASE at[src[r]] # NoFile /\ SetAtt(src[r], oldAtt[r])
      BY <1>s, <1>t, <2>2, <3>2, OpenArgs, SetAttFiles, Names
    <3> QED
      BY <1>7, <3>1, <3>2 DEF RestoreEvidence
  <2> QED
    BY <1>t, <1>v, <2>1, <2>2, <2>3
<1>8. ASSUME NEW r \in Req, Outcome(r) PROVE PrivateInv'
  <2>1. /\ pc[r] = "executed" /\ pc' = [pc EXCEPT ![r] = "done"]
        /\ UNCHANGED <<mode, at, recovering, placed>>
    BY <1>8 DEF Outcome, Step, history
  <2> QED
    BY <1>t, <1>i, <1>r, <1>u, <1>v, <2>1
\* what recovery knows
<1>x. ASSUME NEW r \in Req, NEW stage, Recovers(r, stage)
      PROVE  /\ pc[r] \in Over /\ recovering = stage /\ AtHand(r) /\ InPlace(r)
             /\ src[r] \in Path /\ dst[r] \in Path /\ r \in Open
  BY <1>x, <1>i, RecoveryArgs
<1>9. ASSUME NEW r \in Req, ChooseForward(r) PROVE PrivateInv'
  <2>1. /\ Recovers(r, "no") /\ at[r] # NoFile /\ recovering' = "forward"
        /\ UNCHANGED <<mode, at, pc, order, verdict, placed>>
    BY <1>9 DEF ChooseForward, Forward, log, history
  <2> QED
    BY <1>w, <1>i, <1>u, <2>1
<1>10. ASSUME NEW r \in Req, RollForward(r) PROVE PrivateInv'
  <2>1. /\ Recovers(r, "forward") /\ UNCHANGED <<mode, pc, order>>
        /\ \/ /\ Move(r, dst[r]) /\ placed' = placed \cup {r} /\ verdict' = verdict
              /\ recovering' = "classify"
           \/ recovering' = "no" /\ UNCHANGED <<at, placed>>
    BY <1>10 DEF RollForward
  <2>2. dst[r] \in Path /\ pc[r] \in Over
    BY <1>x, <2>1
  <2>3. CASE Move(r, dst[r]) /\ verdict' = verdict /\ recovering' = "classify"
    <3>1. Filled' /\ at'[r] = NoFile /\ \A q \in Req \ {r} : at'[q] = at[q]
      BY <1>b, <2>2, <2>3
    <3> QED
      BY <1>w, <2>1, <2>2, <2>3, <3>1 DEF Over
  <2>4. CASE recovering' = "no" /\ UNCHANGED <<at, placed>>
    BY <1>w, <1>i, <1>u, <2>1, <2>2, <2>4
  <2> QED
    BY <2>1, <2>3, <2>4
<1>11. ASSUME NEW r \in Req, RollBack(r) PROVE PrivateInv'
  <2>1. /\ Recovers(r, "no") /\ UNCHANGED <<mode, pc, order, placed>>
        /\ \/ /\ Move(r, src[r]) /\ verdict' = verdict /\ recovering' \in {"restore", "classify"}
           \/ at' = at /\ recovering' = "no"
    BY <1>11, RecoversOne DEF RollBack, history
  <2>2. src[r] \in Path /\ pc[r] \in Over
    BY <1>x, <2>1
  <2>3. CASE Move(r, src[r]) /\ verdict' = verdict /\ recovering' \in {"restore", "classify"}
    <3>1. Filled' /\ at'[r] = NoFile /\ \A q \in Req \ {r} : at'[q] = at[q]
      BY <1>b, <2>2, <2>3
    <3> QED
      BY <1>w, <2>1, <2>2, <2>3, <3>1 DEF Over
  <2>4. CASE at' = at /\ recovering' = "no"
    BY <1>w, <1>i, <1>u, <2>1, <2>2, <2>4
  <2> QED
    BY <2>1, <2>3, <2>4
<1>12. ASSUME NEW r \in Req, RestoreAttestation(r) PROVE PrivateInv'
  <2>1. /\ Recovers(r, "restore") /\ UNCHANGED <<mode, pc, order, placed>>
        /\ \/ /\ at[src[r]] # NoFile /\ SetAtt(src[r], oldAtt[r])
              /\ verdict' = verdict /\ recovering' = "classify"
           \/ at' = at /\ recovering' = "no"
    BY <1>12 DEF RestoreAttestation, history
  <2>2. src[r] \in Path /\ pc[r] \in Over /\ at[r] = NoFile /\ oldAtt[r] \in Attestation \cup {None}
    BY <1>x, <2>1, OpenArgs
  <2>3. CASE at[src[r]] # NoFile /\ SetAtt(src[r], oldAtt[r]) /\ verdict' = verdict /\ recovering' = "classify"
    <3>1. Filled' /\ \A q \in Req : at'[q] = at[q]
      BY <1>s, <1>t, <2>2, <2>3, SetAttFiles, Names
    <3> QED
      BY <1>w, <2>1, <2>2, <2>3, <3>1 DEF Over
  <2>4. CASE at' = at /\ recovering' = "no"
    BY <1>w, <1>i, <1>u, <2>1, <2>2, <2>4
  <2> QED
    BY <2>1, <2>3, <2>4
<1>13. ASSUME NEW r \in Req, RecoverInPlace(r) PROVE PrivateInv'
  <2>1. /\ Recovers(r, "no") /\ at[r] = NoFile /\ FinishRollBack(r) /\ recovering' = "classify"
        /\ UNCHANGED <<mode, pc, order, verdict, placed>>
    BY <1>13 DEF RecoverInPlace, log, history
  <2>2. /\ src[r] \in Path /\ pc[r] \in Over /\ oldAtt[r] \in Attestation \cup {None}
        /\ before[r] = Ours /\ Ours # Absent
    BY <1>x, <2>1, OpenArgs
  <2>3. Filled' /\ \A q \in Req : at'[q] = at[q]
    <3>1. CASE at[src[r]].content = before[r]
      <4>1. at[src[r]] # NoFile /\ SetAtt(src[r], oldAtt[r])
        BY <2>1, <2>2, <3>1 DEF FinishRollBack, NoFile
      <4> QED
        BY <1>s, <1>t, <2>2, <4>1, SetAttFiles, Names
    <3>2. CASE at[src[r]].content # before[r]
      BY <1>u, <2>1, <3>2 DEF FinishRollBack
    <3> QED
      BY <3>1, <3>2
  <2> QED
    BY <1>w, <2>1, <2>2, <2>3 DEF Over
<1>14. ASSUME NEW r \in Req, Reconciled(r) PROVE PrivateInv'
  <2>1. /\ Recovers(r, "classify") /\ recovering' = "no" /\ UNCHANGED <<mode, at, pc, order, placed>>
    BY <1>14 DEF Reconciled, history
  <2> QED
    BY <1>w, <1>i, <1>u, <2>1
<1>15. CASE Crash
  <2>1. /\ recovering' = "no" /\ UNCHANGED <<at, placed>>
        /\ pc' = [r \in Req |-> IF pc[r] \in {"idle", "done"} THEN pc[r] ELSE "lost"]
    BY <1>15 DEF Crash, history
  <2> QED
    BY <1>t, <1>i, <1>u, <1>q, <2>1
<1>16. CASE FinishStart
  <2>1. mode' = "up" /\ UNCHANGED <<at, pc, placed>>
    BY <1>16 DEF FinishStart, history
  <2>2. \A r \in Req : AtHand(r)'
    BY <2>1 DEF Recovers
  <2> QED
    BY <1>i, <1>u, <1>q, <2>1, <2>2
<1>17. ASSUME NEW p \in ForeignPaths, Foreign(p) PROVE PrivateInv'
  <2>1. p \in Path /\ (\A x \in Place \ {p} : at'[x] = at[x]) /\ (at'[p] # NoFile => at'[p].content \in Content)
    BY <1>17, ForeignFiles
  <2>2. UNCHANGED <<mode, pc, order, verdict, recovering, placed>>
    BY <1>17 DEF Foreign, log
  <2>3. \A q \in Req : at'[q] = at[q]
    BY <1>t, <2>1, Names
  <2>4. \A q \in Req : Recovers(q, recovering)' => Recovers(q, recovering)
    BY <2>2, RecoversStill
  <2> QED
    BY <1>t, <1>i, <1>q, <2>1, <2>2, <2>3, <2>4
<1>18. CASE UNCHANGED vars
  <2>1. UNCHANGED <<mode, at, pc, order, verdict, recovering, placed>>
    BY <1>18 DEF vars, log, history
  <2>2. \A q \in Req : Recovers(q, recovering)' => Recovers(q, recovering)
    BY <2>1, RecoversStill
  <2> QED
    BY <1>i, <1>u, <1>q, <2>1, <2>2
<1> QED
  BY <1>1, <1>2, <1>3, <1>4, <1>5, <1>6, <1>7, <1>8, <1>9, <1>10, <1>11, <1>12, <1>13, <1>14,
     <1>15, <1>16, <1>17, <1>18 DEF Next, Thread, Recovery

-----------------------------------------------------------------------------
(* The theorems.                                                           *)

\* At the start there is one file, ours or not, at one path.
LEMMA InitHolds == Init => IInv
<1> SUFFICES ASSUME Init PROVE IInv
  OBVIOUS
<1> USE RenameAssumption
<1>i. /\ mode = "up" /\ pc = [r \in Req |-> "idle"] /\ recovering = "no"
      /\ src = [r \in Req |-> None] /\ dst = src /\ before = src /\ dstBefore = src /\ oldAtt = src
      /\ order = <<>> /\ verdict = [r \in Req |-> "none"]
      /\ mine = [r \in Req |-> 0] /\ placed = {} /\ destroyed = {}
      /\ inodes = 1 /\ crashes = 0 /\ foreign = 0
  BY DEF Init
<1>1. PICK p \in Path : \E f \in FirstFiles(p) :
          /\ at = [x \in Place |-> IF x = p THEN f ELSE NoFile]
          /\ minted = {FirstAtt(p)}
  BY DEF Init
<1>2. PICK f \in FirstFiles(p) : at = [x \in Place |-> IF x = p THEN f ELSE NoFile]
  BY <1>1
<1>3. /\ FirstAtt(p) \in Attestation /\ FirstAtt(p).digest = Ours
      /\ f \in File /\ f.ino = 1 /\ f.content \in Content /\ f.att \in {None, FirstAtt(p)}
      /\ NoFile \in File /\ NoFile.ino = 0 /\ NoFile.att = None
  BY DEF FirstFiles, FirstAtt, Attestation, File, NoFile, Content
<1>4. Prepared = {} /\ Open = {}
  BY <1>i DEF Prepared, Open, ToSet
<1>5. TypeOK
  <2>1. order \in Seq(Req) /\ IsInjective(order)
    BY <1>i, EmptySeq DEF IsInjective
  <2>2. at \in [Place -> File] /\ \A x \in Place : at[x].ino = 0 => at[x] = NoFile
    BY <1>2, <1>3
  <2>3. minted \subseteq Attestation
    BY <1>1, <1>3
  <2> QED
    BY <1>i, <2>1, <2>2, <2>3 DEF TypeOK, Verdict
<1>6. ThreadInv
  BY <1>i, <1>4 DEF ThreadInv, Running, Over
<1>7. EvidenceInv
  BY <1>i, <1>1, <1>2, <1>3, <1>4 DEF EvidenceInv, NeverLaunders
<1>8. PrivateInv
  <2>1. \A r \in Req : at[r] = NoFile
    BY <1>2, Names
  <2> QED
    BY <1>i, <1>2, <1>3, <2>1 DEF PrivateInv, Recovers
<1>9. NoFileLost
  <2>1. p \in Place /\ at[p] = f
    BY <1>2 DEF Place
  <2> QED
    BY <1>i, <1>3, <2>1 DEF NoFileLost
<1> QED
  BY <1>5, <1>6, <1>7, <1>8, <1>9 DEF IInv

\* The invariant of the renames, their recovery and the files they move.
THEOREM Invariance == Spec => []IInv
<1>1. IInv /\ [Next]_vars => IInv'
  BY TypeStep, ThreadStep, EvidenceStep, PrivateStep, LostStep DEF IInv
<1> QED
  BY <1>1, InitHolds, PTL DEF Spec

\* Whatever renames run at once, in any direction and through the same paths, and wherever
\* the process dies: a file leaves the workspace only by the hand of the foreign actor.
THEOREM NoFileDisappears == Spec => []NoFileLost
<1>1. IInv => NoFileLost
  BY DEF IInv
<1> QED
  BY <1>1, Invariance, PTL

\* No rename and no chain of renames signs a content the broker did not write, whatever is
\* exchanged between the observation, the check of the attestation and the claim (E29).
THEOREM NoForeignFileSigned == Spec => []NeverLaunders
<1>1. IInv => NeverLaunders
  BY DEF IInv, EvidenceInv
<1> QED
  BY <1>1, Invariance, PTL

-----------------------------------------------------------------------------
(* Up to the second rename: one atomic move.                               *)

\* Alone, for the proof: no two requests are prepared
Single == \A r, s \in Prepared : r = s

\* one foreign actor, at one path: the other end of the rename is the broker's own
OneForeign == \A p, q \in ForeignPaths : p = q

\* nothing is prepared: there is one attestation, and no file but its own and foreign ones
FirstInv == order = <<>> => \E p \in Path :
    /\ minted = {FirstAtt(p)}
    /\ \A q \in Path \ (ForeignPaths \cup {p}) : at[q] = NoFile

\* what an open rename did shows at its source, where it is the broker's own
SourceInv(r) ==
    /\ r \in placed => at[src[r]] = NoFile
    /\ r \notin placed => (at[src[r]] = NoFile <=> at[r] # NoFile)
    /\ pc[r] \in {"movedback", "executed"} => at[r] = NoFile

\* and at its destination, where that is the broker's own
TargetInv(r) ==
    /\ dstBefore[r] = Absent
    /\ at[dst[r]] = NoFile <=> r \notin placed

OpenInv(r) == /\ src[r] \notin ForeignPaths => SourceInv(r)
              /\ dst[r] \notin ForeignPaths => TargetInv(r)

AloneInv == Single => FirstInv /\ \A r \in Open : OpenInv(r)

\* The elements of a list are finitely many.
LEMMA FiniteList == ASSUME NEW S, NEW list \in Seq(S) PROVE IsFiniteSet(ToSet(list))
<1>1. list \in [1 .. Len(list) -> ToSet(list)] /\ Len(list) \in Nat
  BY DEF ToSet
<1>2. \A x \in ToSet(list) : \E j \in 1 .. Len(list) : list[j] = x
  BY <1>1 DEF ToSet
<1>3. list \in Surjection(1 .. Len(list), ToSet(list))
  BY <1>1, <1>2 DEF Surjection
<1> QED
  BY <1>1, <1>3, FS_Interval, FS_Surjection

\* A set of one element at most.
LEMMA OneAtMost ==
    ASSUME NEW S, IsFiniteSet(S), Cardinality(S) <= 1
    PROVE  \A x, y \in S : x = y
<1> SUFFICES ASSUME NEW x \in S, NEW y \in S, x # y PROVE FALSE
  OBVIOUS
<1>1. IsFiniteSet({x}) /\ Cardinality({x}) = 1 /\ y \notin {x}
  BY FS_Singleton
<1>2. Cardinality({x} \cup {y}) = Cardinality({x}) + 1
  BY <1>1, FS_AddElement
<1>3. Cardinality({x} \cup {y}) <= Cardinality(S)
  <2>1. ({x} \cup {y}) \in SUBSET S
    OBVIOUS
  <2> QED
    BY <2>1, FS_Subset
<1>4. Cardinality(S) \in Nat
  BY FS_CardinalityType
<1> QED
  BY <1>1, <1>2, <1>3, <1>4

\* While nothing is prepared only the foreign actor touches a file, and nothing is signed.
LEMMA NothingYet ==
    ASSUME TypeOK, ThreadInv, [Next]_vars, order = <<>>
    PROVE  /\ minted' = minted
           /\ at' = at \/ \E p \in ForeignPaths : Foreign(p)
<1>1. Open = {}
  BY DEF Open, Prepared, ToSet
<1>2. \A r \in Req : pc[r] \notin Running
  BY <1>1 DEF ThreadInv
<1>3. ASSUME NEW r \in Req, Recovery(r) PROVE FALSE
  BY <1>1, <1>3 DEF Recovery, ChooseForward, RollForward, RollBack, RestoreAttestation,
     RecoverInPlace, Reconciled, Recovers
<1>4. ASSUME NEW r \in Req, Thread(r) PROVE UNCHANGED <<at, minted>>
  BY <1>2, <1>4 DEF Thread, Observe, Prepare, Claim, InspectFails, Reattest, PlaceFile,
     RestoreEvidence, Outcome, Step, Running
<1>5. ASSUME NEW p \in ForeignPaths, Foreign(p) PROVE minted' = minted
  BY <1>5 DEF Foreign
<1> QED
  BY <1>3, <1>4, <1>5 DEF Next, Crash, FinishStart, vars

\* The first record is prepared: its source is the one place with a file of ours.
LEMMA FirstPrepared ==
    ASSUME IInv, AloneInv, NEW r \in Req, Prepare(r), order' = Append(order, r), Single'
    PROVE  OpenInv(r)'
<1> USE RenameAssumption
<1>1. /\ pc[r] = "observed" /\ \E to \in {"prepared", "done"} : pc' = [pc EXCEPT ![r] = to]
      /\ UNCHANGED <<at, src, dst, placed>>
      /\ Attested(r, at[src[r]].att) /\ dstBefore' = [dstBefore EXCEPT ![r] = at[dst[r]].content]
  <2>1. order' # order
    <3>1. order \in Seq(Req)
      BY DEF IInv, TypeOK
    <3> QED
      BY <3>1, AppendProperties
  <2> QED
    BY <2>1 DEF Prepare, history
<1>2. Prepared' = Prepared \cup {r} /\ r \notin Prepared
  BY OrderStep DEF IInv
<1>3. Prepared = {} /\ Single
  BY <1>2 DEF Single
<1>4. order = <<>>
  <2>1. order \in Seq(Req) /\ (order # <<>> => order[1] \in Prepared)
    BY DEF IInv, TypeOK, Prepared, ToSet
  <2> QED
    BY <1>3, <2>1
<1>5. PICK p \in Path : /\ minted = {FirstAtt(p)}
                        /\ \A q \in Path \ (ForeignPaths \cup {p}) : at[q] = NoFile
  BY <1>3, <1>4 DEF AloneInv, FirstInv
<1>6. src[r] \in Path /\ dst[r] \in Path \ {src[r]} /\ r \notin placed /\ at[r] = NoFile
  BY <1>1 DEF IInv, ThreadInv, PrivateInv
<1>7. at[src[r]].att # None /\ at[src[r]].att = FirstAtt(p) /\ at[src[r]].att.target = src[r]
  BY <1>1, <1>5, <1>6, Names DEF Attested, IInv, EvidenceInv
<1>8. p = src[r] /\ at[src[r]] # NoFile
  BY <1>7 DEF FirstAtt, NoFile
<1>9. SourceInv(r)'
  <2>1. pc'[r] \in {"prepared", "done"}
    BY <1>1 DEF IInv, TypeOK
  <2> QED
    BY <1>1, <1>6, <1>8, <2>1 DEF SourceInv
<1>10. dst[r] \notin ForeignPaths => TargetInv(r)'
  <2>1. dstBefore'[r] = at[dst[r]].content
    BY <1>1 DEF IInv, TypeOK
  <2>2. dst[r] \notin ForeignPaths => at[dst[r]] = NoFile
    BY <1>5, <1>6, <1>8
  <2> QED
    BY <1>1, <1>6, <2>1, <2>2 DEF TargetInv, NoFile
<1> QED
  BY <1>1, <1>9, <1>10 DEF OpenInv

\* An open request that keeps its names and its record keeps what they show, when no place
\* was filled or emptied but by the foreign actor.
LEMMA SamePlaces ==
    ASSUME IInv, NEW r \in Open, OpenInv(r), UNCHANGED <<src[r], dst[r], dstBefore[r], placed>>,
           \A x \in Place \ ForeignPaths : at'[x] = NoFile <=> at[x] = NoFile,
           src[r] \notin ForeignPaths /\ pc'[r] \in {"movedback", "executed"} => at[r] = NoFile
    PROVE  OpenInv(r)'
<1>1. src[r] \in Path /\ dst[r] \in Path /\ r \in Req
  BY OpenArgs DEF IInv
<1>2. r \in Place \ ForeignPaths /\ Path \subseteq Place
  BY <1>1, Names, RenameAssumption
<1>3. ASSUME src[r] \notin ForeignPaths PROVE SourceInv(r)'
  <2>1. src[r] \in Place \ ForeignPaths /\ SourceInv(r)
    BY <1>1, <1>2, <1>3 DEF OpenInv
  <2> QED
    BY <1>2, <1>3, <2>1 DEF SourceInv
<1>4. ASSUME dst[r] \notin ForeignPaths PROVE TargetInv(r)'
  <2>1. dst[r] \in Place \ ForeignPaths /\ TargetInv(r)
    BY <1>1, <1>2, <1>4 DEF OpenInv
  <2> QED
    BY <2>1 DEF TargetInv
<1> QED
  BY <1>3, <1>4 DEF OpenInv

\* The file goes back to the source.
LEMMA BackAtSource ==
    ASSUME IInv, NEW r \in Open, OpenInv(r), UNCHANGED <<src, dst, dstBefore, placed>>,
           Move(r, src[r])
    PROVE  OpenInv(r)'
<1>1. /\ src[r] \in Path /\ dst[r] \in Path \ {src[r]} /\ r \in Req
      /\ r \in Place /\ src[r] \in Place \ {r} /\ dst[r] \in Place \ {r, src[r]}
      /\ at \in [Place -> File]
  BY OpenArgs, Names DEF IInv, TypeOK
<1>2. at[src[r]] = NoFile /\ at'[src[r]] = at[r] /\ at'[r] = NoFile /\ at'[dst[r]] = at[dst[r]]
  BY <1>1, MoveFiles
<1>3. ASSUME src[r] \notin ForeignPaths PROVE SourceInv(r)'
  BY <1>1, <1>2, <1>3 DEF OpenInv, SourceInv, IInv, PrivateInv
<1>4. ASSUME dst[r] \notin ForeignPaths PROVE TargetInv(r)'
  BY <1>2, <1>4 DEF OpenInv, TargetInv
<1> QED
  BY <1>3, <1>4 DEF OpenInv

\* The file reaches its destination.
LEMMA AtDestination ==
    ASSUME IInv, NEW r \in Open, OpenInv(r), UNCHANGED <<src, dst, dstBefore>>,
           placed' = placed \cup {r}, r \notin placed, at[r] # NoFile, Move(r, dst[r])
    PROVE  OpenInv(r)'
<1>1. /\ src[r] \in Path /\ dst[r] \in Path \ {src[r]} /\ r \in Req
      /\ r \in Place /\ src[r] \in Place \ {r, dst[r]} /\ dst[r] \in Place \ {r}
      /\ at \in [Place -> File]
  BY OpenArgs, Names DEF IInv, TypeOK
<1>2. at'[dst[r]] = at[r] /\ at'[r] = NoFile /\ at'[src[r]] = at[src[r]]
  BY <1>1, MoveFiles
<1>3. ASSUME src[r] \notin ForeignPaths PROVE SourceInv(r)'
  BY <1>2, <1>3 DEF OpenInv, SourceInv
<1>4. ASSUME dst[r] \notin ForeignPaths PROVE TargetInv(r)'
  BY <1>2, <1>4 DEF OpenInv, TargetInv
<1> QED
  BY <1>3, <1>4 DEF OpenInv

\* Up to the second rename, what the one open rename did shows at its paths.
LEMMA AloneStep == ASSUME IInv, AloneInv, [Next]_vars PROVE AloneInv'
<1> SUFFICES ASSUME Single' PROVE FirstInv' /\ \A r \in Open' : OpenInv(r)'
  BY DEF AloneInv
<1> USE RenameAssumption DEF Running
<1>t. /\ TypeOK /\ ThreadInv /\ EvidenceInv /\ PrivateInv
      /\ pc \in [Req -> {"idle", "observed", "prepared", "claimed", "attested", "movedback",
                         "executed", "done", "lost"}]
      /\ verdict \in [Req -> Verdict] /\ order \in Seq(Req) /\ at \in [Place -> File]
  BY DEF IInv, TypeOK
<1>l. /\ order' = order \/ \E r \in Req : Prepare(r) /\ order' = Append(order, r)
      /\ verdict' = verdict
         \/ \E r \in Open, v \in Verdict \ {"none"} : verdict' = [verdict EXCEPT ![r] = v]
  BY <1>t, LogStep
<1>o. ASSUME NEW r \in Req, Prepare(r), order' = Append(order, r)
      PROVE  Prepared' = Prepared \cup {r} /\ order' # <<>>
  BY <1>t, <1>o, OrderStep
<1>1. Single
  BY <1>l, <1>o DEF Single, Prepared
<1>i. FirstInv /\ \A r \in Open : OpenInv(r) /\ r \in Req
  BY <1>1, <1>t DEF AloneInv, Open, Prepared, ToSet, TypeOK
<1>2. FirstInv'
  <2>1. CASE order' = <<>>
    <3>1. order = <<>> /\ minted' = minted /\ (at' = at \/ \E p \in ForeignPaths : Foreign(p))
      BY <1>l, <1>o, <1>t, <2>1, NothingYet
    <3>2. \A q \in Path \ ForeignPaths : at'[q] = at[q]
      <4>1. ASSUME NEW p \in ForeignPaths, Foreign(p) PROVE \A q \in Path \ ForeignPaths : at'[q] = at[q]
        BY <1>t, <4>1, ForeignFiles, Names DEF Place
      <4> QED
        BY <3>1, <4>1
    <3> QED
      BY <1>i, <3>1, <3>2 DEF FirstInv
  <2>2. CASE order' # <<>>
    BY <2>2 DEF FirstInv
  <2> QED
    BY <2>1, <2>2
\* the log is as it was: the open request was open before, and it is the only one
<1>3. CASE \E r \in Req : Prepare(r) /\ order' = Append(order, r)
  <2>1. PICK r \in Req : Prepare(r) /\ order' = Append(order, r)
    BY <1>3
  <2>2. Prepared' = Prepared \cup {r}
    BY <1>o, <2>1
  <2>3. Open' \subseteq {r}
    BY <2>2 DEF Single, Open
  <2> QED
    BY <1>2, <2>1, <2>3, FirstPrepared
<1>4. CASE order' = order
  <2>o. Prepared' = Prepared /\ Open' \subseteq Open
    <3>1. Prepared' = Prepared
      BY <1>4 DEF Prepared
    <3>2. ASSUME NEW q \in Prepared, verdict'[q] = "none" PROVE verdict[q] = "none"
      <4>1. q \in Req
        BY <1>t DEF Prepared, ToSet, TypeOK
      <4> QED
        BY <1>t, <1>l, <3>2, <4>1
    <3> QED
      BY <3>1, <3>2 DEF Open
  <2> SUFFICES ASSUME NEW r \in Open, r \in Open' PROVE OpenInv(r)'
    BY <1>2, <2>o
  <2>r. /\ r \in Req /\ r \in Place \ ForeignPaths /\ OpenInv(r) /\ before[r] = Ours /\ Ours # Absent
        /\ src[r] \in Path /\ dst[r] \in Path \ {src[r]} /\ oldAtt[r] \in Attestation \cup {None}
        /\ NewAtt(r) \in Attestation /\ verdict[r] = "none" /\ verdict'[r] = "none"
        /\ Path \subseteq Place /\ pc[r] \in Running \cup Over
    BY <1>t, <1>i, OpenArgs, Names DEF Open, ThreadInv
  \* a step that fills and empties no place
  <2>s. ASSUME UNCHANGED <<src[r], dst[r], dstBefore[r], placed>>,
               \A x \in Place \ ForeignPaths : at'[x] = NoFile <=> at[x] = NoFile,
               src[r] \notin ForeignPaths /\ pc'[r] \in {"movedback", "executed"} => at[r] = NoFile
        PROVE  OpenInv(r)'
    BY <2>r, <2>s, SamePlaces
  <2>m. ASSUME NEW x \in Place, NEW a \in Attestation \cup {None}, at[x] # NoFile, SetAtt(x, a)
        PROVE  \A y \in Place \ ForeignPaths : at'[y] = NoFile <=> at[y] = NoFile
    BY <1>t, <2>m, SetAttFiles
  <2>p. src[r] \notin ForeignPaths =>
          /\ pc[r] \in {"movedback", "executed"} \/ r \in placed => at[r] = NoFile
          /\ r \notin placed /\ at[r] = NoFile => at[src[r]] # NoFile
          /\ r \notin placed /\ at[r] # NoFile => at[src[r]] = NoFile
    BY <1>t, <2>r DEF OpenInv, SourceInv, PrivateInv
  <2>g. ASSUME GoBack(r), UNCHANGED <<src, dst, dstBefore, placed>>, at[r] # NoFile
        PROVE  OpenInv(r)'
    <3>1. CASE Move(r, src[r])
      BY <2>r, <2>g, <3>1, BackAtSource
    <3>2. CASE at[src[r]] # NoFile /\ at' = at
      <4>1. src[r] \in ForeignPaths
        BY <2>g, <2>p, <3>2 DEF IInv, PrivateInv
      <4> QED
        BY <2>g, <2>s, <3>2, <4>1
    <3> QED
      BY <2>g, <3>1, <3>2 DEF GoBack
  \* any other request is not prepared: it moves no file
  <2>1. ASSUME NEW q \in Req \ {r}, Thread(q) \/ Recovery(q) PROVE OpenInv(r)'
    <3>1. q \notin Open /\ pc[q] \notin Running
      BY <1>1, <1>t, <2>1 DEF Single, Open, ThreadInv
    <3>2. Observe(q) \/ Prepare(q)
      BY <2>1, <3>1 DEF Thread, Recovery, Claim, InspectFails, Reattest, PlaceFile, RestoreEvidence,
         Outcome, Step, ChooseForward, RollForward, RollBack, RestoreAttestation, RecoverInPlace,
         Reconciled, Recovers
    <3>3. /\ UNCHANGED <<at, placed>> /\ src'[r] = src[r] /\ dst'[r] = dst[r]
          /\ dstBefore'[r] = dstBefore[r] /\ pc'[r] = pc[r]
      BY <1>t, <2>r, <2>1, <3>2 DEF Observe, Prepare, history, TypeOK
    <3> QED
      BY <2>p, <2>s, <3>3
  <2>2. CASE Claim(r)
    <3>1. /\ pc[r] = "prepared" /\ UNCHANGED <<src, dst, dstBefore, placed>>
          /\ \/ pc' = [pc EXCEPT ![r] = "claimed"] /\ at[src[r]] # NoFile /\ Move(src[r], r)
             \/ pc' = [pc EXCEPT ![r] = "executed"] /\ at[src[r]] = NoFile /\ at' = at
      BY <2>2, <2>r DEF Claim, Step, args
    <3>2. r \notin placed /\ at[r] = NoFile
      BY <1>t, <2>r, <3>1 DEF ThreadInv, PrivateInv, Over
    <3>3. CASE pc' = [pc EXCEPT ![r] = "claimed"] /\ at[src[r]] # NoFile /\ Move(src[r], r)
      <4>1. src[r] \in Place /\ r \in Place \ {src[r]} /\ dst[r] \in Place \ {r, src[r]}
        BY <2>r, Names
      <4>2. at'[src[r]] = NoFile /\ at'[r] # NoFile /\ at'[dst[r]] = at[dst[r]] /\ pc'[r] = "claimed"
        BY <1>t, <2>r, <3>3, <4>1, MoveFiles
      <4>3. SourceInv(r)'
        BY <3>1, <3>2, <4>2 DEF SourceInv
      <4>4. TargetInv(r) => TargetInv(r)'
        BY <3>1, <4>2 DEF TargetInv
      <4> QED
        BY <2>r, <3>1, <4>3, <4>4 DEF OpenInv
    <3>4. CASE pc' = [pc EXCEPT ![r] = "executed"] /\ at[src[r]] = NoFile /\ at' = at
      BY <2>p, <2>s, <3>1, <3>2, <3>4
    <3> QED
      BY <3>1, <3>3, <3>4
  <2>3. CASE InspectFails(r)
    <3>1. pc[r] = "claimed" /\ GoBack(r) /\ UNCHANGED <<src, dst, dstBefore, placed>>
      BY <2>3 DEF InspectFails, Step, args, history
    <3> QED
      BY <1>t, <2>g, <2>r, <3>1 DEF PrivateInv
  <2>4. CASE Reattest(r)
    <3>1. /\ pc[r] = "claimed" /\ UNCHANGED <<src, dst, dstBefore, placed>>
          /\ (SetAtt(r, NewAtt(r)) /\ pc' = [pc EXCEPT ![r] = "attested"]) \/ GoBack(r)
      BY <2>4 DEF Reattest, Step, args, history
    <3>2. at[r] # NoFile
      BY <1>t, <2>r, <3>1 DEF PrivateInv
    <3>3. CASE SetAtt(r, NewAtt(r)) /\ pc' = [pc EXCEPT ![r] = "attested"]
      <4>1. pc'[r] = "attested" /\ \A y \in Place \ ForeignPaths : at'[y] = NoFile <=> at[y] = NoFile
        BY <1>t, <2>m, <2>r, <3>2, <3>3
      <4> QED
        BY <2>s, <3>1, <4>1
    <3> QED
      BY <2>g, <3>1, <3>2, <3>3
  <2>5. CASE PlaceFile(r)
    <3>1. /\ pc[r] = "attested" /\ UNCHANGED <<src, dst, dstBefore>>
          /\ \/ Move(r, dst[r]) /\ placed' = placed \cup {r}
             \/ Move(r, src[r]) /\ placed' = placed
             \/ at[src[r]] # NoFile /\ UNCHANGED <<at, placed>>
      BY <2>5 DEF PlaceFile, Step, args
    <3>2. at[r] # NoFile /\ r \notin placed
      BY <1>t, <2>r, <3>1 DEF PrivateInv, ThreadInv
    <3> QED
      BY <2>p, <2>r, <2>s, <3>1, <3>2, AtDestination, BackAtSource
  <2>6. CASE RestoreEvidence(r)
    <3>1. /\ pc[r] = "movedback" /\ UNCHANGED <<src, dst, dstBefore, placed>>
          /\ at' = at \/ (at[src[r]] # NoFile /\ SetAtt(src[r], oldAtt[r]))
      BY <2>6 DEF RestoreEvidence, Step, args, history
    <3>2. \A y \in Place \ ForeignPaths : at'[y] = NoFile <=> at[y] = NoFile
      BY <2>m, <2>r, <3>1
    <3> QED
      BY <2>p, <2>s, <3>1, <3>2
  <2>7. CASE Outcome(r) \/ Reconciled(r)
    <3>1. verdict' = [verdict EXCEPT ![r] = Classify(r)] => verdict'[r] # "none"
      BY <1>t, <2>r DEF Classify
    <3>2. Outcome(r) /\ verdict' = verdict
      BY <2>7, <2>r, <3>1 DEF Outcome, Reconciled
    <3>3. UNCHANGED <<at, src, dst, dstBefore, placed>> /\ pc'[r] = "done"
      BY <1>t, <2>r, <3>2 DEF Outcome, Step, args, history
    <3> QED
      BY <2>s, <3>3
  \* recovery
  <2>x. ASSUME NEW stage, Recovers(r, stage)
        PROVE  /\ pc[r] \in Over /\ recovering = stage
               /\ stage = "forward" => at[r] # NoFile
               /\ stage \in {"restore", "classify"} => at[r] = NoFile
    BY <1>t, <2>x, <2>r, RecoveryArgs DEF PrivateInv
  <2>8. CASE ChooseForward(r)
    <3>1. Recovers(r, "no") /\ UNCHANGED <<at, pc, src, dst, dstBefore, placed>>
      BY <2>8 DEF ChooseForward, args, history
    <3> QED
      BY <2>s, <2>x, <3>1 DEF Over
  <2>9. CASE RollForward(r)
    <3>1. /\ Recovers(r, "forward") /\ UNCHANGED <<src, dst, dstBefore>>
          /\ Move(r, dst[r]) /\ placed' = placed \cup {r}
      BY <1>t, <2>9, <2>r DEF RollForward, GiveUp, args
    <3>2. at[r] # NoFile /\ r \notin placed
      BY <1>t, <2>r, <2>x, <3>1 DEF PrivateInv
    <3> QED
      BY <2>r, <3>1, <3>2, AtDestination
  <2>10. CASE RollBack(r)
    <3>1. Move(r, src[r]) /\ UNCHANGED <<src, dst, dstBefore, placed>>
      BY <1>t, <2>10, <2>r DEF RollBack, GiveUp, args, history
    <3> QED
      BY <2>r, <3>1, BackAtSource
  <2>11. CASE RestoreAttestation(r)
    <3>1. /\ Recovers(r, "restore") /\ UNCHANGED <<pc, src, dst, dstBefore, placed>>
          /\ at[src[r]] # NoFile /\ SetAtt(src[r], oldAtt[r])
      BY <1>t, <2>11, <2>r DEF RestoreAttestation, GiveUp, args, history
    <3>2. \A y \in Place \ ForeignPaths : at'[y] = NoFile <=> at[y] = NoFile
      BY <2>m, <2>r, <3>1
    <3> QED
      BY <2>s, <2>x, <3>1, <3>2
  <2>12. CASE RecoverInPlace(r)
    <3>1. Recovers(r, "no") /\ FinishRollBack(r) /\ UNCHANGED <<pc, src, dst, dstBefore, placed>>
      BY <2>12 DEF RecoverInPlace, args, history
    <3>2. \A y \in Place \ ForeignPaths : at'[y] = NoFile <=> at[y] = NoFile
      <4>1. CASE at[src[r]].content = before[r]
        <5>1. at[src[r]] # NoFile /\ SetAtt(src[r], oldAtt[r])
          BY <2>r, <3>1, <4>1 DEF FinishRollBack, NoFile
        <5> QED
          BY <2>m, <2>r, <5>1
      <4>2. CASE at[src[r]].content # before[r]
        BY <3>1, <4>2 DEF FinishRollBack
      <4> QED
        BY <4>1, <4>2
    <3> QED
      BY <2>s, <2>x, <3>1, <3>2 DEF Over
  <2>13. CASE Crash
    <3>1. UNCHANGED <<at, src, dst, dstBefore, placed>> /\ pc'[r] \notin {"movedback", "executed"}
      BY <1>t, <2>13, <2>r DEF Crash, args, history
    <3> QED
      BY <2>s, <3>1
  <2>14. CASE FinishStart \/ UNCHANGED vars
    <3>1. UNCHANGED <<at, pc, src, dst, dstBefore, placed>>
      BY <2>14 DEF FinishStart, vars, args, history
    <3> QED
      BY <2>p, <2>s, <3>1
  <2>15. ASSUME NEW p \in ForeignPaths, Foreign(p) PROVE OpenInv(r)'
    <3>1. UNCHANGED <<pc, src, dst, dstBefore, placed>> /\ \A x \in Place \ ForeignPaths : at'[x] = at[x]
      BY <1>t, <2>15, ForeignFiles DEF Foreign, args
    <3> QED
      BY <2>p, <2>s, <3>1
  <2>16. ASSUME Thread(r) \/ Recovery(r) PROVE OpenInv(r)'
    <3>1. ~Observe(r) /\ ~Prepare(r)
      BY <2>r DEF Observe, Prepare, Over
    <3> QED
      BY <2>2, <2>3, <2>4, <2>5, <2>6, <2>7, <2>8, <2>9, <2>10, <2>11, <2>12, <2>16, <3>1
         DEF Thread, Recovery
  <2> QED
    BY <2>1, <2>13, <2>14, <2>15, <2>16 DEF Next
<1> QED
  BY <1>l, <1>3, <1>4

\* What is observed once the rename, or its recovery, is through is what it did, or it is
\* called unresolved.
LEMMA HonestRecord ==
    ASSUME OneForeign, IInv, NEW r \in Open, OpenInv(r), r \in placed \/ at[r] = NoFile
           \/ src[r] \in ForeignPaths
    PROVE  Classify(r) \in {"unresolved", IF r \in placed THEN "confirmedSuccess" ELSE "confirmedFailure"}
<1>1. /\ before[r] = Ours /\ Ours # Absent /\ src[r] \in Path /\ dst[r] \in Path /\ src[r] # dst[r]
      /\ src[r] \in Place
  BY OpenArgs, Names DEF IInv
<1>2. NoFile.content = Absent
  BY DEF NoFile
<1>3. \A x \in Place : at[x].content = Absent => at[x] = NoFile
  BY RenameAssumption DEF IInv, PrivateInv, Content
<1>4. CASE src[r] \notin ForeignPaths
  <2>1. r \in placed <=> at[src[r]] = NoFile
    BY <1>4 DEF OpenInv, SourceInv
  <2> QED
    BY <1>1, <1>2, <1>3, <2>1 DEF Classify
<1>5. CASE dst[r] \notin ForeignPaths
  <2>1. dstBefore[r] = Absent /\ (at[dst[r]] = NoFile <=> r \notin placed)
    BY <1>5 DEF OpenInv, TargetInv
  <2>2. dst[r] \in Place
    BY <1>1 DEF Place
  <2> QED
    BY <1>1, <1>2, <1>3, <2>1, <2>2 DEF Classify
<1> QED
  BY <1>1, <1>4, <1>5 DEF OneForeign

\* Up to the second rename a step is a move, a record, or nothing that shows.
LEMMA MoveStep ==
    ASSUME OneForeign, IInv, AloneInv, [Next]_vars, TypeOK', Alone'
    PROVE  Moves!MNext \/ UNCHANGED <<placed, verdict>>
<1> USE DEF Running, Over
<1>t. TypeOK /\ ThreadInv /\ EvidenceInv /\ PrivateInv /\ placed \subseteq Req
  BY DEF IInv, TypeOK
<1>1. Single
  <2>1. order' \in Seq(Req) /\ Cardinality(ToSet(order')) <= 1
    BY DEF TypeOK, Alone, Prepared
  <2>2. \A x, y \in ToSet(order') : x = y
    BY <2>1, FiniteList, OneAtMost
  <2>3. Prepared \subseteq Prepared'
    BY <1>t, LogStep, OrderStep DEF Prepared
  <2> QED
    BY <2>2, <2>3 DEF Single, Prepared
<1>2. \A r \in Open : OpenInv(r) /\ r \in Req /\ verdict[r] = "none"
  BY <1>1, <1>t DEF AloneInv, Open, Prepared, ToSet, TypeOK
<1>m. ASSUME NEW r \in Req, r \notin placed, verdict[r] = "none", placed' = placed \cup {r}, verdict' = verdict
      PROVE  Moves!MNext
  BY <1>m DEF Moves!MNext, Moves!MMove
<1>r. ASSUME NEW r \in Req, NEW v, verdict[r] = "none", placed' = placed, verdict' = [verdict EXCEPT ![r] = v],
             v \in {"unresolved", IF r \in placed THEN "confirmedSuccess" ELSE "confirmedFailure"}
      PROVE  Moves!MNext
  BY <1>r DEF Moves!MNext, Moves!MRecord
<1>g. ASSUME NEW r \in Req, r \in Open, placed' = placed, GiveUp(r) PROVE Moves!MNext
  BY <1>2, <1>g, <1>r DEF GiveUp
<1>c. ASSUME NEW r \in Req, r \in Open, placed' = placed, verdict' = [verdict EXCEPT ![r] = Classify(r)],
             at[r] = NoFile \/ src[r] \in ForeignPaths
      PROVE  Moves!MNext
  <2>1. Classify(r) \in {"unresolved", IF r \in placed THEN "confirmedSuccess" ELSE "confirmedFailure"}
    BY <1>2, <1>c, HonestRecord
  <2> QED
    BY <1>2, <1>c, <1>r, <2>1
<1>3. ASSUME NEW r \in Req, PlaceFile(r) PROVE Moves!MNext \/ UNCHANGED <<placed, verdict>>
  <2>1. pc[r] = "attested" /\ placed' \in {placed, placed \cup {r}} /\ verdict' = verdict
    BY <1>3 DEF PlaceFile, Step, log
  <2>2. r \notin placed /\ r \in Open
    BY <1>t, <2>1 DEF ThreadInv
  <2> QED
    BY <1>2, <1>m, <2>1, <2>2
<1>4. ASSUME NEW r \in Req, Outcome(r) PROVE Moves!MNext \/ UNCHANGED <<placed, verdict>>
  <2>1. /\ pc[r] = "executed" /\ placed' = placed
        /\ verdict' = verdict \/ verdict' = [verdict EXCEPT ![r] = Classify(r)]
    BY <1>4 DEF Outcome, Step, history
  <2>2. r \in Open
    BY <1>t, <2>1 DEF ThreadInv
  <2>3. at[r] = NoFile \/ src[r] \in ForeignPaths
    BY <1>2, <2>1, <2>2 DEF OpenInv, SourceInv
  <2> QED
    BY <1>c, <2>1, <2>2, <2>3
\* what recovery is at
<1>x. ASSUME NEW r \in Req, NEW stage, Recovers(r, stage)
      PROVE  /\ r \in Open /\ recovering = stage /\ verdict[r] = "none"
             /\ stage = "forward" => at[r] # NoFile
             /\ stage \in {"restore", "classify"} => at[r] = NoFile
  BY <1>2, <1>t, <1>x, RecoveryArgs DEF PrivateInv
<1>5. ASSUME NEW r \in Req, RollForward(r) PROVE Moves!MNext
  <2>1. Recovers(r, "forward")
    BY <1>5 DEF RollForward
  <2>2. r \notin placed
    BY <1>t, <1>x, <2>1 DEF PrivateInv
  <2>3. (placed' = placed \cup {r} /\ verdict' = verdict) \/ (GiveUp(r) /\ placed' = placed)
    BY <1>5 DEF RollForward
  <2> QED
    BY <1>g, <1>m, <1>x, <2>1, <2>2, <2>3
<1>6. ASSUME NEW r \in Req, RollBack(r) \/ RestoreAttestation(r)
      PROVE  Moves!MNext \/ UNCHANGED <<placed, verdict>>
  <2>1. \E stage : Recovers(r, stage)
    BY <1>6 DEF RollBack, RestoreAttestation
  <2>2. placed' = placed /\ (verdict' = verdict \/ GiveUp(r))
    BY <1>6 DEF RollBack, RestoreAttestation, history
  <2> QED
    BY <1>g, <1>x, <2>1, <2>2
<1>7. ASSUME NEW r \in Req, Reconciled(r) PROVE Moves!MNext
  <2>1. Recovers(r, "classify") /\ placed' = placed /\ verdict' = [verdict EXCEPT ![r] = Classify(r)]
    BY <1>7 DEF Reconciled, history
  <2> QED
    BY <1>c, <1>x, <2>1
<1>8. ASSUME NEW r \in Req,
             \/ Observe(r) \/ Prepare(r) \/ Claim(r) \/ InspectFails(r) \/ Reattest(r)
             \/ RestoreEvidence(r) \/ ChooseForward(r) \/ RecoverInPlace(r)
      PROVE  UNCHANGED <<placed, verdict>>
  BY <1>8 DEF Observe, Prepare, Claim, InspectFails, Reattest, RestoreEvidence, ChooseForward,
     RecoverInPlace, log, history
<1>9. ASSUME Crash \/ FinishStart \/ UNCHANGED vars \/ \E p \in ForeignPaths : Foreign(p)
      PROVE  UNCHANGED <<placed, verdict>>
  BY <1>9 DEF Crash, FinishStart, vars, Foreign, log, history
<1> QED
  BY <1>3, <1>4, <1>5, <1>6, <1>7, <1>8, <1>9 DEF Next, Thread, Recovery

\* At the start nothing is prepared.
LEMMA InitAlone == Init => AloneInv
<1> SUFFICES ASSUME Init PROVE FirstInv /\ Open = {}
  BY DEF AloneInv
<1>1. Open = {}
  BY DEF Init, Open, Prepared, ToSet
<1>2. FirstInv
  BY DEF Init, FirstInv, Place
<1> QED
  BY <1>1, <1>2

\* Up to the second rename the protocol and its recovery implement one atomic move with an
\* honest record, whoever edits one of the two paths, at any step, and wherever the process
\* dies. (A foreign actor at both paths can imitate either end of a move.)
THEOREM RenameIsAtomic == OneForeign => (Spec => ImplementsAtomicMove)
<1> SUFFICES ASSUME OneForeign PROVE Spec => ImplementsAtomicMove
  OBVIOUS
<1>1. Init => Moves!MInit
  BY DEF Init, Moves!MInit
<1>2. IInv /\ AloneInv /\ [Next]_vars => AloneInv'
  BY AloneStep
<1>3. IInv /\ IInv' /\ AloneInv /\ [Next]_vars => [~Alone' \/ Moves!MNext]_(Moves!mvars)
  BY MoveStep DEF IInv, Moves!mvars
<1> QED
  BY <1>1, <1>2, <1>3, InitAlone, Invariance, PTL DEF Spec, ImplementsAtomicMove

=============================================================================
