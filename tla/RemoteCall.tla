----------------------------- MODULE RemoteCall -----------------------------
(***************************************************************************)
(* What the broker assumes of an http_get (E31, and ExecHttp of Broker):   *)
(* the remote carries a call out once at most, at any time, also long      *)
(* after the caller has given up; "succeeded" is said of a call that was   *)
(* carried out, "failed" only of one that never is.                        *)
(***************************************************************************)
EXTENDS Naturals

CONSTANT Req

VARIABLES calls,    \* how often the remote has carried out each call
          said      \* what the caller was told: none, failed, unknown or succeeded

rvars == <<calls, said>>

RInit == calls = [r \in Req |-> 0] /\ said = [r \in Req |-> "none"]

CarryOut(r) ==
    /\ calls[r] = 0 /\ said[r] # "failed"
    /\ calls' = [calls EXCEPT ![r] = 1]
    /\ UNCHANGED said

Tell(r, outcome) ==
    /\ said[r] = "none"
    /\ outcome = "succeeded" => calls[r] = 1
    /\ outcome = "failed" => calls[r] = 0
    /\ said' = [said EXCEPT ![r] = outcome]
    /\ UNCHANGED calls

RNext == \E r \in Req : \/ CarryOut(r)
                        \/ \E o \in {"failed", "unknown", "succeeded"} : Tell(r, o)

RSpec == RInit /\ [][RNext]_rvars
=============================================================================
