------------------------------ MODULE MCGuards ------------------------------
(* Instances of Guards for TLC: one tool in the credential, one the policy  *)
(* authorizes, one nobody knows.                                            *)
EXTENDS Guards

CONSTANTS c1, c2, c3, held, allowed, other
EachItsOwn == [c \in Call |-> IF c = c1 THEN {held} ELSE IF c = c2 THEN {allowed} ELSE {held, other}]
=============================================================================
