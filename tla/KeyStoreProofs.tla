--------------------------- MODULE KeyStoreProofs ---------------------------
(***************************************************************************)
(* Proofs about KeyStore, for every set of files, every number of key      *)
(* pairs, deaths, cut saves and alterations.                               *)
(***************************************************************************)
EXTENDS KeyStore, TLAPS

-----------------------------------------------------------------------------
(* The inductive invariant.                                                *)

Working(p) == step[p] # "idle"
Holds(p)   == step[p] \in {"saving", "published", "loaded", "rotating", "rotated"}
Saving     == \E p \in Process : step[p] \in {"published", "rotated"}
LegacyReliedOn == \E f \in File : att[f].key = V1 /\ att[f] # NoAtt
Signed     == {att[f].key : f \in File} \cap Key

\* One process at a time is at the keys: the one that holds the log's lock.
LockInv == \A p \in Process : Working(p) => lock = p

\* What a process has in memory is what it read and what it is about to write.
RingInv ==
    /\ \A p \in Process : Holds(p) => ring[p].legacy = legacy
    /\ \A p \in Process : step[p] \in {"published", "loaded", "rotated"} => priv = ring[p].active
    /\ \A p \in Process : step[p] \in {"saving", "published"} => pub = {}
    /\ \A p \in Process : step[p] \in {"loaded", "rotating", "rotated"} => pub # {}
    /\ \A p \in Process : step[p] \in {"reading", "saving"} /\ pub = {} => priv = None
    /\ priv = V1 => pub = {} /\ \A p \in Process : step[p] \in {"idle", "claimed"}

\* Where the public halves of the keys in use are. While no save was cut, the file of
\* public keys has them all; after one cut, it has all but the active one, which a start
\* adds from the private file.
PublicInv ==
    /\ pub = {} => Signed = {}
    /\ torn = 0 => /\ Signed \subseteq pub
                   /\ priv \in Key /\ ~Saving => priv \in pub
    /\ torn <= 1 => /\ \A p \in Process : Holds(p) => Signed \subseteq ring[p].publics
                    /\ priv # None /\ ~Saving => Signed \subseteq pub \cup {priv}

\* Every signature, old or new or on its way, is over what the broker wrote.
DigestInv == \A f \in File : /\ att[f] = NoAtt \/ att[f].digest = Ours
                             /\ checked[f] = None \/ checked[f].digest = Ours

IInv == TypeOK /\ LockInv /\ RingInv /\ PublicInv /\ SecretKept /\ DigestInv

-----------------------------------------------------------------------------
(* What the steps have in common.                                          *)

\* A process at the keys is alone there.
LEMMA Alone ==
    ASSUME LockInv, NEW p \in Process, Working(p)
    PROVE  lock = p /\ \A q \in Process \ {p} : step[q] = "idle"
BY DEF LockInv, Working

\* With the lock free nobody is at the keys.
LEMMA NobodyWorks ==
    ASSUME LockInv, lock = None
    PROVE  \A q \in Process : step[q] = "idle"
BY KeyAssumption DEF LockInv, Working, Process

\* What a process moves to, and that the others stay.
LEMMA Moves ==
    ASSUME TypeOK, NEW p \in Process, NEW from, NEW to, Goes(p, from, to)
    PROVE  step[p] = from /\ step'[p] = to /\ \A q \in Process \ {p} : step'[q] = step[q]
BY DEF TypeOK, Goes

\* Signatures are made with the key in the broker's memory.
LEMMA SignedAfter ==
    ASSUME TypeOK, NEW f \in File, NEW d, att' = [att EXCEPT ![f] = [key |-> ring["broker"].active, digest |-> d]]
    PROVE  Signed' \subseteq Signed \cup {ring["broker"].active}
<1>1. \A g \in File : att'[g].key \in {att[g].key, ring["broker"].active}
  BY DEF TypeOK
<1> QED
  BY <1>1 DEF Signed

\* Only the attestations matter for what is signed.
LEMMA SignedSame ==
    ASSUME att' = att
    PROVE  Signed' = Signed /\ (LegacyReliedOn' <=> LegacyReliedOn)
BY DEF Signed, LegacyReliedOn

\* The first start finds no keys, or a v1 secret.
LEMMA InitHolds == Init => IInv
<1> SUFFICES ASSUME Init PROVE IInv
  OBVIOUS
<1> USE KeyAssumption
<1>1. \A f \in File : att[f] \in {NoAtt, [key |-> V1, digest |-> Ours]} /\ att[f].key = V1
  BY DEF Init, NoAtt
<1>2. att \in [File -> Attestation]
  <2>1. NoAtt \in Attestation /\ [key |-> V1, digest |-> Ours] \in Attestation
    BY DEF Attestation, NoAtt, Content
  <2> QED
    BY <1>1, <2>1 DEF Init
<1>3. TypeOK
  BY <1>2 DEF Init, TypeOK, Ring, NoRing, Content, Key
<1>4. Signed = {}
  BY <1>1 DEF Signed, Key
<1>5. LockInv /\ RingInv
  BY DEF Init, LockInv, RingInv, Working, Holds
<1>6. PublicInv
  BY <1>4 DEF Init, PublicInv, Holds, Key
<1>7. SecretKept
  BY DEF Init, SecretKept, LegacySecretKept
<1>8. DigestInv
  BY <1>1 DEF Init, DigestInv
<1> QED
  BY <1>3, <1>5, <1>6, <1>7, <1>8 DEF IInv

-----------------------------------------------------------------------------
(* Every step keeps the types.                                             *)

\* Every step keeps the types.
LEMMA TypeStep ==
    ASSUME IInv, [Next]_vars
    PROVE  TypeOK'
<1> USE KeyAssumption DEF disk, world, bounds
<1>0. TypeOK
  BY DEF IInv
<1>1. CASE UNCHANGED vars
  BY <1>0, <1>1 DEF TypeOK, vars
<1>2. ASSUME NEW p \in Process, Claim(p) PROVE TypeOK'
  BY <1>0, <1>2 DEF TypeOK, Claim, Goes, TakeLock
<1>3. ASSUME NEW p \in Process, SetLegacyAside(p) PROVE TypeOK'
  BY <1>0, <1>3 DEF TypeOK, SetLegacyAside, Goes
<1>4. ASSUME NEW p \in Process, LoadRing(p) PROVE TypeOK'
  <2>1. priv \in Key
    BY <1>0, <1>4 DEF IInv, RingInv, LoadRing, TypeOK
  <2>2. NewRing(priv, pub) \in Ring /\ priv \in NewRing(priv, pub).publics /\ NewRing(priv, pub).active = priv
    BY <1>0, <2>1 DEF TypeOK, NewRing, Ring
  <2> QED
    BY <1>0, <1>4, <2>2 DEF TypeOK, LoadRing, Goes
<1>5. ASSUME NEW p \in Process, RefuseToStart(p) PROVE TypeOK'
  BY <1>0, <1>5 DEF TypeOK, RefuseToStart, Goes
<1>6. ASSUME NEW p \in Process, CreateRing(p) PROVE TypeOK'
  <2>1. keys' \in Key /\ keys' \in 0 .. MaxKeys
    BY <1>0, <1>6 DEF TypeOK, CreateRing, Key
  <2>2. /\ NewRing(keys', {}) \in Ring /\ keys' \in NewRing(keys', {}).publics
        /\ NewRing(keys', {}).active = keys'
    BY <1>0, <2>1 DEF TypeOK, NewRing, Ring
  <2>3. /\ step' = [step EXCEPT ![p] = "saving"] /\ ring' = [ring EXCEPT ![p] = NewRing(keys', {})]
        /\ UNCHANGED <<priv, pub, legacy, lock, content, att, checked, torn, crashes, foreign>>
    BY <1>6 DEF CreateRing, Goes
  <2> QED
    BY <1>0, <2>1, <2>2, <2>3 DEF TypeOK
<1>7. ASSUME NEW p \in Process, SavePrivate(p) PROVE TypeOK'
  BY <1>0, <1>7 DEF TypeOK, SavePrivate, Goes, Ring
<1>8. ASSUME NEW p \in Process, SavePublic(p) PROVE TypeOK'
  BY <1>0, <1>8 DEF TypeOK, SavePublic, Publishes, Goes, Ring, NoRing
<1>9. ASSUME NEW p \in Process, Crash(p) PROVE TypeOK'
  BY <1>0, <1>9 DEF TypeOK, Crash, Ring, NoRing
<1>10. CASE \E f \in File : Write(f) \/ AcceptLegacy(f) \/ Reattest(f)
  <2>1. ASSUME Up PROVE ring["broker"].active \in Key
    BY <1>0, <2>1 DEF TypeOK, Up, Ring, Process
  <2>2. ASSUME NEW f \in File, Write(f) PROVE TypeOK'
    BY <1>0, <2>1, <2>2 DEF TypeOK, Write, Attestation, Content
  <2>3. ASSUME NEW f \in File, AcceptLegacy(f) PROVE TypeOK'
    BY <1>0, <2>3 DEF TypeOK, AcceptLegacy
  <2>4. ASSUME NEW f \in File, Reattest(f) PROVE TypeOK'
    BY <1>0, <2>1, <2>4 DEF TypeOK, Reattest, DigestSigned, Attestation
  <2> QED
    BY <1>10, <2>2, <2>3, <2>4
<1>11. ASSUME NEW f \in File, Alter(f) PROVE TypeOK'
  BY <1>0, <1>11 DEF TypeOK, Alter, Content
<1>12. CASE Rotate
  <2>1. keys' \in Key /\ keys' \in 0 .. MaxKeys
    BY <1>0, <1>12 DEF TypeOK, Rotate, Key
  <2>2. "rotator" \in Process /\ ring["rotator"].publics \subseteq Key
    BY <1>0 DEF TypeOK, Process, Ring
  <2> DEFINE new == NewRing(keys', ring["rotator"].publics)
  <2>3. new \in Ring /\ keys' \in new.publics /\ new.active = keys'
    BY <1>0, <2>1, <2>2 DEF TypeOK, NewRing, Ring
  <2>4. /\ step' = [step EXCEPT !["rotator"] = "rotating"] /\ ring' = [ring EXCEPT !["rotator"] = new]
        /\ UNCHANGED <<priv, pub, legacy, lock, content, att, checked, torn, crashes, foreign>>
    BY <1>12 DEF Rotate, Goes
  <2> QED
    BY <1>0, <2>1, <2>2, <2>3, <2>4 DEF TypeOK
<1>13. CASE RetireLegacySecret
  BY <1>0, <1>13 DEF TypeOK, RetireLegacySecret, Ring, Process
<1>14. CASE LosePrivateKey
  BY <1>0, <1>14 DEF TypeOK, LosePrivateKey
<1> QED
  BY <1>1, <1>2, <1>3, <1>4, <1>5, <1>6, <1>7, <1>8, <1>9, <1>10, <1>11, <1>12, <1>13, <1>14 DEF Next

-----------------------------------------------------------------------------
(* Every step keeps the rest of the invariant, one step of the system at a *)
(* time.                                                                   *)

Rest == LockInv /\ RingInv /\ PublicInv /\ SecretKept /\ DigestInv

\* Steps in which nothing is signed and no file of the workspace is looked at.
LEMMA StartSteps ==
    ASSUME IInv, TypeOK', NEW p \in Process,
           Claim(p) \/ SetLegacyAside(p) \/ LoadRing(p) \/ RefuseToStart(p) \/ CreateRing(p)
    PROVE  Rest'
<1> USE KeyAssumption DEF disk, world, bounds
<1>0. /\ TypeOK /\ LockInv /\ RingInv /\ PublicInv /\ SecretKept /\ DigestInv
      /\ UNCHANGED <<pub, att, checked, torn>>
  BY DEF IInv, Claim, SetLegacyAside, LoadRing, RefuseToStart, CreateRing
<1>1. Signed' = Signed /\ DigestInv' /\ (LegacyReliedOn' <=> LegacyReliedOn)
  BY <1>0, SignedSame DEF DigestInv
<1>2. \A q \in Process \ {p} : step[q] = "idle" /\ step'[q] = "idle"
  <2>1. CASE Claim(p)
    BY <1>0, <2>1, NobodyWorks, Moves DEF Claim, TakeLock
  <2>2. CASE ~Claim(p)
    BY <1>0, <2>2, Alone, Moves DEF SetLegacyAside, LoadRing, RefuseToStart, CreateRing, Working
  <2> QED
    BY <2>1, <2>2
<1>3. CASE Claim(p)
  <2>1. step[p] = "idle" /\ step'[p] = "claimed" /\ lock' = p /\ UNCHANGED <<priv, legacy, ring>>
    BY <1>0, <1>3, Moves DEF Claim, TakeLock
  <2>2. LockInv' /\ RingInv'
    BY <1>0, <1>2, <2>1 DEF LockInv, RingInv, Working, Holds
  <2>3. PublicInv' /\ SecretKept'
    BY <1>0, <1>1, <1>2, <2>1 DEF PublicInv, Saving, Holds, SecretKept, LegacySecretKept, LegacyReliedOn
  <2> QED
    BY <1>1, <2>2, <2>3 DEF Rest
<1>4. CASE SetLegacyAside(p)
  <2>1. step[p] = "claimed" /\ step'[p] = "reading" /\ UNCHANGED <<lock, ring>> /\ ~Saving
        /\ IF priv # None /\ pub = {} THEN legacy' = priv /\ priv' = None ELSE UNCHANGED <<priv, legacy>>
    BY <1>0, <1>2, <1>4, Moves DEF SetLegacyAside, Saving
  <2>2. LockInv' /\ RingInv'
    BY <1>0, <1>2, <2>1 DEF LockInv, RingInv, Working, Holds
  <2>3. PublicInv'
    BY <1>0, <1>1, <1>2, <2>1 DEF PublicInv, Saving, Holds, Key
  <2>4. SecretKept'
    BY <1>0, <1>1, <2>1 DEF PublicInv, TypeOK, SecretKept, LegacySecretKept, LegacyReliedOn
  <2> QED
    BY <1>1, <2>2, <2>3, <2>4 DEF Rest
<1>5. CASE LoadRing(p)
  <2>1. /\ step[p] = "reading" /\ step'[p] = "loaded" /\ UNCHANGED <<priv, legacy, lock>>
        /\ pub # {} /\ priv # None /\ ~Saving
    BY <1>0, <1>2, <1>5, Moves DEF LoadRing, Saving
  <2>2. ring'[p].active = priv /\ ring'[p].publics = pub \cup {priv} /\ ring'[p].legacy = legacy
    BY <1>0, <1>5 DEF LoadRing, NewRing, TypeOK
  <2>3. LockInv' /\ RingInv'
    BY <1>0, <1>2, <2>1, <2>2 DEF LockInv, RingInv, Working, Holds
  <2>4. PublicInv' /\ SecretKept'
    BY <1>0, <1>1, <1>2, <2>1, <2>2 DEF PublicInv, Saving, Holds, SecretKept, LegacySecretKept, LegacyReliedOn
  <2> QED
    BY <1>1, <2>3, <2>4 DEF Rest
<1>6. CASE RefuseToStart(p)
  <2>1. step[p] = "reading" /\ step'[p] = "idle" /\ lock' = None /\ UNCHANGED <<priv, legacy, ring>>
    BY <1>0, <1>6, Moves DEF RefuseToStart
  <2>2. LockInv' /\ RingInv'
    BY <1>0, <1>2, <2>1 DEF LockInv, RingInv, Working, Holds
  <2>3. PublicInv' /\ SecretKept'
    BY <1>0, <1>1, <1>2, <2>1 DEF PublicInv, Saving, Holds, SecretKept, LegacySecretKept, LegacyReliedOn
  <2> QED
    BY <1>1, <2>2, <2>3 DEF Rest
<1>7. CASE CreateRing(p)
  <2>1. /\ step[p] = "reading" /\ step'[p] = "saving" /\ UNCHANGED <<priv, legacy, lock>>
        /\ pub = {} /\ ring'[p].legacy = legacy
    BY <1>0, <1>7, Moves DEF CreateRing, NewRing, TypeOK
  <2>2. LockInv' /\ RingInv'
    BY <1>0, <1>2, <2>1 DEF LockInv, RingInv, Working, Holds
  <2>3. PublicInv' /\ SecretKept'
    BY <1>0, <1>1, <1>2, <2>1 DEF PublicInv, Saving, Holds, SecretKept, LegacySecretKept, LegacyReliedOn
  <2> QED
    BY <1>1, <2>2, <2>3 DEF Rest
<1> QED
  BY <1>3, <1>4, <1>5, <1>6, <1>7

\* The steps of a save and of a rotation.
LEMMA SaveSteps ==
    ASSUME IInv, TypeOK', NEW p \in Process, SavePrivate(p) \/ SavePublic(p) \/ (Rotate /\ p = "rotator")
    PROVE  Rest'
<1> USE KeyAssumption DEF disk, world, bounds
<1>0. /\ TypeOK /\ LockInv /\ RingInv /\ PublicInv /\ SecretKept /\ DigestInv
      /\ UNCHANGED <<legacy, att, checked, torn>>
  BY DEF IInv, SavePrivate, SavePublic, Rotate
<1>1. Signed' = Signed /\ DigestInv' /\ (LegacyReliedOn' <=> LegacyReliedOn)
  BY <1>0, SignedSame DEF DigestInv
<1>2. lock = p /\ \A q \in Process \ {p} : step[q] = "idle" /\ step'[q] = "idle"
  BY <1>0, Alone, Moves DEF SavePrivate, SavePublic, Rotate, Working
<1>3. Holds(p) /\ ring[p].active \in ring[p].publics /\ ring[p].active \in Key /\ ring[p].publics \subseteq Key
  BY <1>0, Moves DEF SavePrivate, SavePublic, Rotate, TypeOK, Holds, Ring
<1>4. CASE SavePrivate(p)
  <2>1. /\ \/ step[p] = "saving" /\ step'[p] = "published"
           \/ step[p] = "rotating" /\ step'[p] = "rotated"
        /\ priv' = ring[p].active /\ UNCHANGED <<pub, lock, ring>> /\ Saving'
    <3>1. CASE Goes(p, "saving", "published")
      BY <1>0, <1>4, <3>1, Moves DEF SavePrivate, Saving
    <3>2. CASE Goes(p, "rotating", "rotated")
      BY <1>0, <1>4, <3>2, Moves DEF SavePrivate, Saving
    <3> QED
      BY <1>4, <3>1, <3>2 DEF SavePrivate
  <2>2. priv # V1
    BY <1>0, <2>1 DEF RingInv
  <2>3. LockInv' /\ RingInv'
    BY <1>0, <1>2, <1>3, <2>1 DEF LockInv, RingInv, Working, Holds, Key
  <2>4. PublicInv' /\ SecretKept'
    BY <1>0, <1>1, <1>2, <1>3, <2>1, <2>2 DEF PublicInv, Holds, SecretKept, LegacySecretKept, LegacyReliedOn
  <2> QED
    BY <1>1, <2>3, <2>4 DEF Rest
<1>5. CASE SavePublic(p)
  <2>1. /\ pub' = ring[p].publics /\ priv' = priv /\ priv = ring[p].active
        /\ \/ step[p] = "published" /\ step'[p] = "loaded" /\ UNCHANGED <<lock, ring>>
           \/ step[p] = "rotated" /\ step'[p] = "idle" /\ lock' = None /\ ring'[p] = NoRing
    BY <1>0, <1>5, Moves DEF SavePublic, Publishes, RingInv, TypeOK
  <2>2. ~Saving'
    BY <1>2, <2>1 DEF Saving
  <2>3. LockInv' /\ RingInv'
    BY <1>0, <1>2, <1>3, <2>1 DEF LockInv, RingInv, Working, Holds, Key
  <2>4. PublicInv' /\ SecretKept'
    BY <1>0, <1>1, <1>2, <1>3, <2>1, <2>2 DEF PublicInv, Holds, SecretKept, LegacySecretKept, LegacyReliedOn, TypeOK
  <2> QED
    BY <1>1, <2>3, <2>4 DEF Rest
<1>6. CASE Rotate /\ p = "rotator"
  <2>1. /\ step[p] = "loaded" /\ step'[p] = "rotating" /\ UNCHANGED <<priv, pub, lock>>
        /\ ring[p].publics \subseteq ring'[p].publics /\ ring'[p].legacy = legacy
    BY <1>0, <1>6, Moves DEF Rotate, NewRing, TypeOK
  <2>2. LockInv' /\ RingInv'
    BY <1>0, <1>2, <2>1 DEF LockInv, RingInv, Working, Holds
  <2>3. PublicInv' /\ SecretKept'
    BY <1>0, <1>1, <1>2, <1>3, <2>1 DEF PublicInv, Saving, Holds, SecretKept, LegacySecretKept, LegacyReliedOn
  <2> QED
    BY <1>1, <2>2, <2>3 DEF Rest
<1> QED
  BY <1>4, <1>5, <1>6

\* The broker signs: a write, or a file it attests again.
LEMMA SignSteps ==
    ASSUME IInv, TypeOK', NEW f \in File, Write(f) \/ Reattest(f)
    PROVE  Rest'
<1> USE KeyAssumption DEF disk, world, bounds
<1>0. /\ TypeOK /\ LockInv /\ RingInv /\ PublicInv /\ SecretKept /\ DigestInv /\ Up
      /\ UNCHANGED <<disk, lock, step, ring, torn>>
  BY DEF IInv, Write, Reattest
<1> DEFINE active == ring["broker"].active
<1>1. "broker" \in Process /\ active \in Key /\ active \in ring["broker"].publics /\ priv = active
  BY <1>0 DEF Process, TypeOK, Up, Ring, RingInv
<1>2. PICK d \in Content : d = Ours /\ att' = [att EXCEPT ![f] = [key |-> active, digest |-> d]]
  BY <1>0 DEF Write, Reattest, DigestSigned, DigestInv, Content
<1>3. Signed' \subseteq Signed \cup {active}
  BY <1>0, <1>2, SignedAfter
<1>4. \A q \in Process \ {"broker"} : step[q] = "idle"
  BY <1>0, <1>1, Alone DEF Up, Working
<1>5. DigestInv'
  <2>1. \A g \in File : checked'[g] \in {checked[g], None}
    BY <1>0 DEF Write, Reattest, TypeOK
  <2> QED
    BY <1>0, <1>2, <2>1 DEF DigestInv, TypeOK
<1>6. LockInv' /\ RingInv'
  BY <1>0 DEF LockInv, RingInv, Working, Holds
<1>7. PublicInv'
  <2>1. pub # {}
    BY <1>0, <1>1 DEF RingInv, Up
  <2> QED
    BY <1>0, <1>1, <1>3, <1>4, <2>1 DEF PublicInv, Saving, Holds, Up
<1>8. SecretKept'
  <2>1. LegacyReliedOn' => LegacyReliedOn
    BY <1>0, <1>1, <1>2 DEF LegacyReliedOn, TypeOK, Key
  <2> QED
    BY <1>0, <2>1 DEF SecretKept, LegacySecretKept, LegacyReliedOn
<1> QED
  BY <1>5, <1>6, <1>7, <1>8 DEF Rest

\* The other steps of the running broker, deaths, and what happens from outside.
LEMMA OtherSteps ==
    ASSUME IInv, TypeOK',
           \/ \E f \in File : AcceptLegacy(f) \/ Alter(f)
           \/ RetireLegacySecret \/ LosePrivateKey
           \/ \E p \in Process : Crash(p)
           \/ UNCHANGED vars
    PROVE  Rest'
<1> USE KeyAssumption DEF disk, world, bounds
<1>0. /\ TypeOK /\ LockInv /\ RingInv /\ PublicInv /\ SecretKept /\ DigestInv /\ att' = att
  BY DEF IInv, AcceptLegacy, Alter, RetireLegacySecret, LosePrivateKey, Crash, vars
<1>1. Signed' = Signed /\ (LegacyReliedOn' <=> LegacyReliedOn)
  BY <1>0, SignedSame
<1>2. ASSUME UNCHANGED <<disk, lock, step, ring, torn>>, DigestInv' PROVE Rest'
  BY <1>0, <1>1, <1>2 DEF Rest, LockInv, RingInv, PublicInv, Saving, Working, Holds, SecretKept,
       LegacySecretKept, LegacyReliedOn
<1>3. ASSUME NEW f \in File, AcceptLegacy(f) PROVE Rest'
  <2>1. DigestInv'
    BY <1>0, <1>3 DEF AcceptLegacy, Verifies, DigestInv, TypeOK, Key
  <2> QED
    BY <1>2, <1>3, <2>1 DEF AcceptLegacy
<1>4. ASSUME NEW f \in File, Alter(f) PROVE Rest'
  BY <1>0, <1>2, <1>4 DEF Alter, DigestInv
<1>5. CASE RetireLegacySecret
  <2>1. /\ Up /\ "broker" \in Process /\ legacy' = None /\ ring'["broker"].legacy = None
        /\ ring'["broker"].active = ring["broker"].active /\ ring'["broker"].publics = ring["broker"].publics
        /\ UNCHANGED <<priv, pub, lock, step, checked, torn>> /\ ring["broker"].legacy = legacy
    BY <1>0, <1>5 DEF RetireLegacySecret, TypeOK, Ring, Process, RingInv, Holds, Up
  <2>2. \A q \in Process \ {"broker"} : step[q] = "idle" /\ ring'[q] = ring[q]
    BY <1>0, <1>5, <2>1, Alone DEF Up, Working, RetireLegacySecret, TypeOK
  <2>3. LockInv' /\ RingInv' /\ DigestInv'
    BY <1>0, <2>1, <2>2 DEF LockInv, RingInv, DigestInv, Working, Holds
  <2>4. PublicInv'
    BY <1>0, <1>1, <2>1, <2>2 DEF PublicInv, Saving, Holds
  <2>5. SecretKept'
    <3>1. priv # V1
      BY <1>0, <2>1 DEF RingInv, Up
    <3>2. legacy = V1 => ~LegacyReliedOn
      BY <1>5, <2>1 DEF RetireLegacySecret, LegacyListed, Verifies, Key, LegacyReliedOn
    <3> QED
      BY <1>0, <1>1, <2>1, <3>1, <3>2 DEF SecretKept, LegacySecretKept, LegacyReliedOn
  <2> QED
    BY <2>3, <2>4, <2>5 DEF Rest
<1>6. CASE LosePrivateKey
  <2>1. /\ lock = None /\ pub # {} /\ priv # None /\ priv' = None
        /\ UNCHANGED <<pub, legacy, lock, step, ring, checked, torn>>
    BY <1>6 DEF LosePrivateKey
  <2>2. \A q \in Process : step[q] = "idle"
    BY <1>0, <2>1, NobodyWorks
  <2>3. LockInv' /\ RingInv' /\ DigestInv'
    BY <1>0, <2>1, <2>2 DEF LockInv, RingInv, DigestInv, Working, Holds
  <2>4. PublicInv'
    BY <1>0, <1>1, <2>1, <2>2 DEF PublicInv, Saving, Holds, Key
  <2>5. SecretKept'
    BY <1>0, <1>1, <2>1 DEF RingInv, SecretKept, LegacySecretKept, LegacyReliedOn
  <2> QED
    BY <2>3, <2>4, <2>5 DEF Rest
<1>7. ASSUME NEW p \in Process, Crash(p) PROVE Rest'
  <2>1. lock = p /\ \A q \in Process \ {p} : step[q] = "idle"
    BY <1>0, <1>7, Alone DEF Crash, Working
  <2>2. /\ lock' = None /\ \A q \in Process : step'[q] = "idle"
        /\ UNCHANGED <<priv, pub, legacy>>
        /\ torn' = IF step[p] \in {"published", "rotated"} THEN torn + 1 ELSE torn
    BY <1>0, <1>7, <2>1 DEF Crash, TypeOK
  <2>3. LockInv' /\ RingInv'
    BY <1>0, <2>1, <2>2 DEF LockInv, RingInv, Working, Holds
  <2>4. PublicInv'
    <3>1. torn \in Nat /\ ~Saving'
      BY <1>0, <2>2 DEF TypeOK, Saving
    <3>2. step[p] \notin {"published", "rotated"} => ~Saving
      BY <2>1 DEF Saving
    <3> QED
      BY <1>0, <1>1, <2>2, <3>1, <3>2 DEF PublicInv, Holds
  <2>5. SecretKept'
    BY <1>0, <1>1, <2>2 DEF SecretKept, LegacySecretKept, LegacyReliedOn, TypeOK
  <2>6. DigestInv'
    BY <1>0, <1>7 DEF Crash, DigestInv
  <2> QED
    BY <2>3, <2>4, <2>5, <2>6 DEF Rest
<1>8. CASE UNCHANGED vars
  BY <1>0, <1>2, <1>8 DEF vars, DigestInv
<1> QED
  BY <1>3, <1>4, <1>5, <1>6, <1>7, <1>8

-----------------------------------------------------------------------------
(* The theorems.                                                           *)

\* The inductive invariant holds in every reachable state: whoever has the keys has the
\* lock, and the two files on the disk agree but for one save.
THEOREM Invariance == Spec => []IInv
<1>1. IInv /\ [Next]_vars => IInv'
  <2> SUFFICES ASSUME IInv, [Next]_vars PROVE IInv'
    OBVIOUS
  <2>1. TypeOK'
    BY TypeStep
  <2>2. "rotator" \in Process
    BY DEF Process
  <2>3. Rest'
    BY <2>1, <2>2, StartSteps, SaveSteps, SignSteps, OtherSteps DEF Next
  <2> QED
    BY <2>1, <2>3 DEF IInv, Rest
<1> QED
  BY InitHolds, <1>1, PTL DEF Spec

\* What a running broker signs with is what the disk holds: a rotation is refused while
\* it runs.
THEOREM KeyInMemoryIsOnDisk == Spec => []RunningKeyIsOnDisk
<1>1. IInv => RunningKeyIsOnDisk
  BY DEF IInv, RingInv, RunningKeyIsOnDisk, Up, Process
<1> QED
  BY <1>1, Invariance, PTL

\* Whatever was signed verifies after any number of rotations, starts and deaths: from
\* the public ring alone while no save was cut, in the broker's own ring after one.
THEOREM SignaturesKeepVerifying == Spec => []RingsSuffice
<1>1. IInv => RingsSuffice
  <2> SUFFICES ASSUME IInv PROVE RingsSuffice
    OBVIOUS
  <2>1. \A f \in File : V2(f) => att[f].key \in Signed
    BY DEF V2, Signed
  <2>2. torn = 0 => PublicRingSuffices
    BY <2>1 DEF IInv, PublicInv, PublicRingSuffices
  <2>3. torn <= 1 => OwnRingSuffices
    BY <2>1 DEF IInv, PublicInv, OwnRingSuffices, Up, Holds, Process
  <2> QED
    BY <2>2, <2>3 DEF RingsSuffice
<1> QED
  BY <1>1, Invariance, PTL

\* The v1 secret is not lost while a file relies on it, over the upgrade, the rotations
\* and the retirement, as long as no save was cut.
THEOREM SecretIsKept == Spec => []SecretKept
<1>1. IInv => SecretKept
  BY DEF IInv
<1> QED
  BY <1>1, Invariance, PTL

\* Re-attestation launders nothing: what carries a v2 signature was written by the broker.
THEOREM ReattestationIsHonest == Spec => []NothingLaundered
<1>1. IInv => NothingLaundered
  BY KeyAssumption DEF IInv, DigestInv, NothingLaundered, V2, NoAtt, Key
<1> QED
  BY <1>1, Invariance, PTL
=============================================================================
