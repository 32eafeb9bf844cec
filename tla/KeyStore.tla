------------------------------ MODULE KeyStore ------------------------------
(***************************************************************************)
(* The broker's signing keys and their three files beside the audit log    *)
(* (darm_guard/attest.py, and _load_or_create_keys, rotate_keys,           *)
(* reattest_legacy and retire_legacy_secret in darm_guard/broker.py).      *)
(*                                                                         *)
(* Covered: a first start, the upgrade of a v1 installation, rotation by a *)
(* second process, the lock between the two, a process that dies between   *)
(* any two file operations, a lost private key, and files that change      *)
(* while they are re-attested.                                             *)
(*                                                                         *)
(* Abstracted: a key pair is a number, a key file is what it holds, a file *)
(* of the workspace is written by the broker (Ours) or not (Alien), and    *)
(* signatures are not forged. M_ operators are mutated forms of the one    *)
(* that follows.                                                           *)
(***************************************************************************)
EXTENDS Integers, FiniteSets

CONSTANTS
    File, None, Ours, Alien,
    V1,             \* the HMAC secret of a v1 installation
    MaxTornSaves,   \* bound: deaths between the two halves of a save
    MaxKeys,        \* bound: key pairs ever generated
    MaxCrashes,     \* bound: processes that die or stop
    MaxForeign      \* bound: files altered and keys lost

ASSUME KeyAssumption ==
    /\ MaxTornSaves \in Nat /\ MaxKeys \in Nat /\ MaxCrashes \in Nat /\ MaxForeign \in Nat
    /\ Ours # Alien /\ V1 # None /\ V1 \notin 1 .. MaxKeys
    /\ None \notin 1 .. MaxKeys /\ None \notin {"broker", "rotator"}

Key         == 1 .. MaxKeys
Process     == {"broker", "rotator"}
Content     == {Ours, Alien}
Attestation == [key : Key \cup {V1}, digest : Content]
Ring        == [active : Key \cup {None}, publics : SUBSET Key, legacy : Key \cup {V1, None}]
NoAtt       == [key |-> V1, digest |-> Alien]  \* no attestation: one that never verifies
NoRing      == [active |-> None, publics |-> {}, legacy |-> None]

VARIABLES
    priv,       \* <audit>.key: a v2 seed or the v1 secret
    pub,        \* <audit>.pub.json: its public keys, {} when there is no such file
    legacy,     \* <audit>.legacy.key
    lock,       \* who holds the audit log's lock
    step, ring, \* each process: how far it is, the keys in its memory
    content, att,
    checked,    \* the attestation reattest_legacy has accepted, per file
    keys, torn, crashes, foreign

disk   == <<priv, pub, legacy>>
world  == <<content, att, checked>>
bounds == <<torn, crashes, foreign>>
vars   == <<disk, lock, step, ring, world, keys, bounds>>

TypeOK ==
    /\ priv \in Key \cup {V1, None} /\ legacy \in Key \cup {V1, None} /\ pub \subseteq Key
    /\ lock \in Process \cup {None}
    /\ step \in [Process -> {"idle", "claimed", "reading", "saving", "published", "loaded",
                             "rotating", "rotated"}]
    /\ ring \in [Process -> Ring]
    /\ content \in [File -> Content] /\ att \in [File -> Attestation]
    /\ checked \in [File -> Attestation \cup {None}]
    /\ keys \in 0 .. MaxKeys /\ torn \in Nat /\ crashes \in Nat /\ foreign \in Nat
    /\ \A p \in Process : step[p] \in {"saving", "published", "loaded", "rotating", "rotated"} =>
          ring[p].active \in ring[p].publics

\* a first start, or an installation that used v1
Init ==
    /\ \/ priv = None /\ att = [f \in File |-> NoAtt]
       \/ priv = V1 /\ att \in [File -> {NoAtt, [key |-> V1, digest |-> Ours]}]
    /\ content = [f \in File |-> Ours] /\ checked = [f \in File |-> None]
    /\ pub = {} /\ legacy = None /\ lock = None
    /\ step = [p \in Process |-> "idle"] /\ ring = [p \in Process |-> NoRing]
    /\ keys = 0 /\ torn = 0 /\ crashes = 0 /\ foreign = 0

Goes(p, from, to) == step[p] = from /\ step' = [step EXCEPT ![p] = to]

-----------------------------------------------------------------------------
(* _load_or_create_keys, run by serve and by rotate_keys.                  *)

M_ClaimUnlocked(p) == lock' = p
TakeLock(p) == lock = None /\ lock' = p

Claim(p) ==
    /\ Goes(p, "idle", "claimed") /\ TakeLock(p)
    /\ UNCHANGED <<disk, ring, world, keys, bounds>>

\* a private file with no public ring beside it is a v1 secret
SetLegacyAside(p) ==
    /\ Goes(p, "claimed", "reading")
    /\ IF priv # None /\ pub = {} THEN legacy' = priv /\ priv' = None
                                 ELSE UNCHANGED <<priv, legacy>>
    /\ UNCHANGED <<pub, lock, ring, world, keys, bounds>>

\* KeyRing(private, publics): the active key is one of the public ones
NewRing(active, publics) == [active |-> active, publics |-> publics \cup {active}, legacy |-> legacy]

LoadRing(p) ==
    /\ pub # {} /\ priv # None /\ Goes(p, "reading", "loaded")
    /\ ring' = [ring EXCEPT ![p] = NewRing(priv, pub)]
    /\ UNCHANGED <<disk, lock, world, keys, bounds>>

\* fail closed: without the private key the broker could not sign
RefuseToStart(p) ==
    /\ pub # {} /\ priv = None /\ Goes(p, "reading", "idle") /\ lock' = None
    /\ UNCHANGED <<disk, ring, world, keys, bounds>>

CreateRing(p) ==
    /\ pub = {} /\ keys < MaxKeys /\ keys' = keys + 1 /\ Goes(p, "reading", "saving")
    /\ ring' = [ring EXCEPT ![p] = NewRing(keys', {})]
    /\ UNCHANGED <<disk, lock, world, bounds>>

-----------------------------------------------------------------------------
(* KeyRing.save: two files, each replaced atomically.                      *)

SavePrivate(p) ==
    /\ Goes(p, "saving", "published") \/ Goes(p, "rotating", "rotated")
    /\ priv' = ring[p].active
    /\ UNCHANGED <<pub, legacy, lock, ring, world, keys, bounds>>

M_ActiveOnly(p) == pub' = {ring[p].active}
Publishes(p)    == pub' = ring[p].publics

SavePublic(p) ==
    /\ Publishes(p)
    /\ \/ Goes(p, "published", "loaded") /\ UNCHANGED <<lock, ring>>
       \/ Goes(p, "rotated", "idle") /\ lock' = None /\ ring' = [ring EXCEPT ![p] = NoRing]
    /\ UNCHANGED <<priv, legacy, world, keys, bounds>>

\* rotate_keys: the old private key is discarded, its public half stays
Rotate ==
    /\ Goes("rotator", "loaded", "rotating") /\ keys < MaxKeys /\ keys' = keys + 1
    /\ ring' = [ring EXCEPT !["rotator"] = NewRing(keys', ring["rotator"].publics)]
    /\ UNCHANGED <<disk, lock, world, bounds>>

-----------------------------------------------------------------------------
(* The broker at work.                                                     *)

Up == step["broker"] = "loaded"

\* _check_attestation
Verifies(r, a) == IF a.key \in Key THEN a.key \in r.publics ELSE r.legacy = V1 /\ a # NoAtt

\* a write is attested under the active key
Write(f) ==
    /\ Up /\ content' = [content EXCEPT ![f] = Ours]
    /\ att' = [att EXCEPT ![f] = [key |-> ring["broker"].active, digest |-> Ours]]
    /\ UNCHANGED <<disk, lock, step, ring, checked, keys, bounds>>

\* reattest_legacy: a v1 attestation that verifies, of what the file holds
AcceptLegacy(f) ==
    /\ Up /\ checked[f] = None
    /\ att[f].key = V1 /\ Verifies(ring["broker"], att[f]) /\ content[f] = att[f].digest
    /\ checked' = [checked EXCEPT ![f] = att[f]]
    /\ UNCHANGED <<disk, lock, step, ring, content, att, keys, bounds>>

\* it is signed again for the same request, target and digest
M_DigestNow(f) == content[f]
DigestSigned(f) == checked[f].digest

Reattest(f) ==
    /\ Up /\ checked[f] # None /\ checked' = [checked EXCEPT ![f] = None]
    /\ att' = [att EXCEPT ![f] = [key |-> ring["broker"].active, digest |-> DigestSigned(f)]]
    /\ UNCHANGED <<disk, lock, step, ring, content, keys, bounds>>

\* what verify_world lists as legacy
M_UntamperedOnly == {f \in File : att[f].key = V1 /\ Verifies(ring["broker"], att[f])
                                     /\ content[f] = att[f].digest}
LegacyListed == {f \in File : att[f].key = V1 /\ Verifies(ring["broker"], att[f])}

RetireLegacySecret ==
    /\ Up /\ LegacyListed = {}
    /\ legacy' = None /\ ring' = [ring EXCEPT !["broker"].legacy = None]
    /\ UNCHANGED <<priv, pub, lock, step, world, keys, bounds>>

-----------------------------------------------------------------------------
\* a process dies, or the broker stops: its lock goes with it
Crash(p) ==
    /\ step[p] # "idle" /\ crashes < MaxCrashes /\ crashes' = crashes + 1
    /\ torn' = IF step[p] \in {"published", "rotated"} THEN torn + 1 ELSE torn
    /\ torn' <= MaxTornSaves
    /\ step' = [step EXCEPT ![p] = "idle"] /\ ring' = [ring EXCEPT ![p] = NoRing]
    /\ lock' = IF lock = p THEN None ELSE lock
    /\ checked' = IF p = "broker" THEN [f \in File |-> None] ELSE checked
    /\ UNCHANGED <<disk, content, att, keys, foreign>>

\* someone alters a file, or the private key is lost while nobody runs
Alter(f) ==
    /\ foreign < MaxForeign /\ foreign' = foreign + 1
    /\ content' = [content EXCEPT ![f] = Alien]
    /\ UNCHANGED <<disk, lock, step, ring, att, checked, keys, torn, crashes>>

LosePrivateKey ==
    /\ foreign < MaxForeign /\ foreign' = foreign + 1
    /\ lock = None /\ pub # {} /\ priv # None /\ priv' = None
    /\ UNCHANGED <<pub, legacy, lock, step, ring, world, keys, torn, crashes>>

Next ==
    \/ \E p \in Process : \/ Claim(p) \/ SetLegacyAside(p) \/ LoadRing(p) \/ RefuseToStart(p)
                          \/ CreateRing(p) \/ SavePrivate(p) \/ SavePublic(p) \/ Crash(p)
    \/ \E f \in File : Write(f) \/ AcceptLegacy(f) \/ Reattest(f) \/ Alter(f)
    \/ Rotate \/ RetireLegacySecret \/ LosePrivateKey

Spec == Init /\ [][Next]_vars

-----------------------------------------------------------------------------
(* Properties.                                                             *)

V2(f) == att[f].key \in Key

\* rotate_keys: "a running broker holds the old private key in memory", so rotation is
\* refused meanwhile: what a running broker signs with is always what the disk holds.
RunningKeyIsOnDisk == Up => priv = ring["broker"].active

\* THREAT_MODEL.md:88: earlier attestations keep verifying over rotations, from the
\* public ring alone too.
PublicRingSuffices == Up => \A f \in File : V2(f) => att[f].key \in pub

\* Whatever the broker has signed verifies in its own ring after any rotation and restart.
OwnRingSuffices == Up => \A f \in File : V2(f) => att[f].key \in ring["broker"].publics

\* The v1 secret is not lost while a file relies on it, a tampered file included
\* (retire_legacy_secret), over the upgrade and rotation that move it.
LegacySecretKept ==
    (\E f \in File : att[f].key = V1 /\ att[f] # NoAtt) => V1 \in {priv, legacy}

\* How much of this survives a save that a death cuts between its two files: while none
\* is, the public ring suffices and the v1 secret is kept; the broker's own ring stands
\* one such death (KeyRing.save, _load_or_create_keys).
RingsSuffice == /\ torn = 0 => PublicRingSuffices
                /\ torn <= 1 => OwnRingSuffices
SecretKept   == torn = 0 => LegacySecretKept

\* Re-attestation launders nothing: what carries a v2 signature was written by the broker,
\* also when the file changes between the check and the signature (reattest_legacy).
NothingLaundered == \A f \in File : V2(f) => att[f].digest = Ours

=============================================================================
