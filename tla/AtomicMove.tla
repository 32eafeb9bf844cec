---------------------------- MODULE AtomicMove ----------------------------
(***************************************************************************)
(* What a rename promises (B9; assurance/claims.json:84): the file ends    *)
(* where one atomic move would put it, or where it started. Crashes and    *)
(* recovery do not show: a request moves its file once or not at all, and  *)
(* what is finally recorded of it is what it did, or unresolved.           *)
(***************************************************************************)
CONSTANTS Req

VARIABLES moved,    \* requests whose file is at its destination
          verdict   \* what is recorded of each request, or "none"

mvars == <<moved, verdict>>

MInit == moved = {} /\ verdict = [r \in Req |-> "none"]

MMove(r) == /\ r \notin moved /\ verdict[r] = "none"
            /\ moved' = moved \cup {r} /\ UNCHANGED verdict

MRecord(r) ==
    /\ verdict[r] = "none"
    /\ \E v \in {"unresolved", IF r \in moved THEN "confirmedSuccess" ELSE "confirmedFailure"} :
          verdict' = [verdict EXCEPT ![r] = v]
    /\ UNCHANGED moved

MNext == \E r \in Req : MMove(r) \/ MRecord(r)

MSpec == MInit /\ [][MNext]_mvars
=============================================================================
