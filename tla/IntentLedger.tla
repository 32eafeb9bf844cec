---------------------------- MODULE IntentLedger ----------------------------
(***************************************************************************)
(* What three-state intent consumption promises (E24d): an intent is       *)
(* available, held by one request, or spent; a request holds one intent,   *)
(* spends it or gives it back, once; the principal may take available      *)
(* intents away. Crashes do not show.                                      *)
(***************************************************************************)
EXTENDS Naturals

CONSTANTS Req, Intent, None, Granted

VARIABLES avail,    \* how many of each intent may still be reserved
          held,     \* the intent each request has reserved, or None
          spent     \* the intent each request has used up, or None

lvars == <<avail, held, spent>>

LInit == /\ avail = Granted
         /\ held = [r \in Req |-> None] /\ spent = [r \in Req |-> None]

Reserve(r, i) ==
    /\ held[r] = None /\ spent[r] = None /\ avail[i] > 0
    /\ avail' = [avail EXCEPT ![i] = @ - 1]
    /\ held' = [held EXCEPT ![r] = i]
    /\ UNCHANGED spent

Spend(r) ==
    /\ held[r] # None
    /\ spent' = [spent EXCEPT ![r] = held[r]]
    /\ held' = [held EXCEPT ![r] = None]
    /\ UNCHANGED avail

Return(r) ==
    /\ held[r] # None
    /\ avail' = [avail EXCEPT ![held[r]] = @ + 1]
    /\ held' = [held EXCEPT ![r] = None]
    /\ UNCHANGED spent

Revoke(I) ==
    /\ avail' = [i \in Intent |-> IF i \in I THEN 0 ELSE avail[i]]
    /\ UNCHANGED <<held, spent>>

LNext == \/ \E r \in Req : Spend(r) \/ Return(r) \/ \E i \in Intent : Reserve(r, i)
         \/ \E I \in SUBSET Intent : Revoke(I)

LSpec == LInit /\ [][LNext]_lvars
=============================================================================
