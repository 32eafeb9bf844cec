----------------------------- MODULE AtomicCas -----------------------------
(***************************************************************************)
(* What a compare-and-swap on one name promises (B6, cas_applies_iff): an  *)
(* operation takes effect in one step, only on the state it observed, and  *)
(* otherwise changes nothing. AnyState is a target that could not be       *)
(* observed: a write that goes ahead on it applies to any state. One thing *)
(* the broker's promises less: an Opaque file, one it cannot inspect, may  *)
(* be replaced or removed, and the operation reports a failure.            *)
(***************************************************************************)
EXTENDS Naturals

CONSTANTS Op, Content, Absent, Opaque, AnyState, None

VARIABLES leaf,     \* what the name holds
          want,     \* what each operation puts there (Absent deletes), or None
          seen,     \* the state each operation observed, or None
          applied,  \* operations that took effect on what they observed
          blind,    \* operations that took effect on an opaque file
          result,   \* what each operation reported
          upsets    \* foreign edits and deaths of the broker so far

avars == <<leaf, want, seen, applied, blind, result, upsets>>

States == Content \cup {Absent} \cup Opaque

AInit == /\ leaf \in States
         /\ want = [o \in Op |-> None] /\ seen = want
         /\ applied = {} /\ blind = {} /\ result = [o \in Op |-> "none"]
         /\ upsets = 0

AObserve(o) ==
    /\ seen[o] = None
    /\ \E s \in ({leaf} \ Opaque) \cup {AnyState} : seen' = [seen EXCEPT ![o] = s]
    /\ \E c \in Content \cup {Absent} : want' = [want EXCEPT ![o] = c]
    /\ UNCHANGED <<leaf, applied, blind, result, upsets>>

\* the effect of an operation that has had none and has not answered
Effect(o) ==
    /\ o \notin applied \cup blind /\ result[o] = "none"
    /\ leaf' = want[o] /\ UNCHANGED <<want, seen, upsets>>

Matches(o) == seen[o] \in {leaf, AnyState}

AApply(o) ==
    /\ Matches(o) /\ Effect(o)
    /\ applied' = applied \cup {o} /\ UNCHANGED <<blind, result>>

\* both at once: an operation that takes a single call
AApplyAndReport(o) ==
    /\ Matches(o) /\ Effect(o)
    /\ applied' = applied \cup {o} /\ result' = [result EXCEPT ![o] = "success"]
    /\ UNCHANGED blind

ABlind(o) ==
    /\ seen[o] \in Content /\ leaf \in Opaque /\ Effect(o)
    /\ blind' = blind \cup {o} /\ UNCHANGED <<applied, result>>

\* success if and only if it took effect on what it observed
AReport(o) ==
    /\ result[o] = "none" /\ seen[o] # None
    /\ \E how \in {"success", "refused", "failed"} :
          /\ how = "success" <=> o \in applied
          /\ how = "failed" <=> o \in blind
          /\ result' = [result EXCEPT ![o] = how]
    /\ UNCHANGED <<leaf, want, seen, applied, blind, upsets>>

\* somebody else replaces or removes the file, or a crash leaves an undo undone
AForeign ==
    /\ leaf' \in States /\ upsets' = upsets + 1
    /\ UNCHANGED <<want, seen, applied, blind, result>>

ANext ==
    \/ AForeign
    \/ \E o \in Op : AObserve(o) \/ AApply(o) \/ ABlind(o) \/ AReport(o) \/ AApplyAndReport(o)

=============================================================================
