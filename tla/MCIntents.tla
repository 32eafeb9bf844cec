----------------------------- MODULE MCIntents -----------------------------
(* Instances of Intents for TLC: i1 allows a write of any path; i2 allows   *)
(* a write or a remote call with a constraint and a premise.                *)
EXTENDS Intents, TLC

CONSTANTS i1, i2, r1
OneEach == [i \in Intent |-> 1]
Narrow(tool) == [tool |-> tool, constraints |-> {<<"path", "a">>}, premises |-> {"if_present a"}]
Wide   == [tool |-> "write_file", constraints |-> {}, premises |-> {}]
TwoForWrites == [i \in Intent |-> IF i = i1 THEN Wide ELSE Narrow("write_file")]
OneForCalls  == [i \in Intent |-> IF i = i1 THEN Wide ELSE Narrow("http_get")]

Ask(tool, value) == [tool |-> tool, args |-> {<<"path", value>>}]
Two(mine, other) == [r \in Req |-> IF r = r1 THEN mine ELSE other]
TwoWrites == {Two(Ask("write_file", "a"), Ask("write_file", "b"))}
WriteAnd  == TwoWrites \cup {Two(Ask("http_get", "a"), Ask("write_file", "b"))}
=============================================================================
