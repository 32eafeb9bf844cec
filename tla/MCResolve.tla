----------------------------- MODULE MCResolve -----------------------------
(* Instances of Resolve for TLC: the tree the foreign actor finds, and the  *)
(* paths and prefixes in use.                                               *)
EXTENDS Resolve

CONSTANTS a, aa, sub, spare, elsewhere, notes, secret

OneStartsOther == {<<a, aa>>}
SmallTree ==
    [d \in Dir |-> [n \in Name |->
        CASE d = Root /\ n = a        -> [kind |-> "dir", to |-> sub]
          [] d = sub /\ n = a         -> [kind |-> "file", to |-> notes]
          [] d = Root /\ n = aa       -> [kind |-> "link", to |-> elsewhere]
          [] d = elsewhere /\ n = a   -> [kind |-> "file", to |-> secret]
          [] OTHER                    -> Missing]]

Paths    == {<<a>>, <<a, a>>, <<aa, a>>, <<a, aa, a>>, <<a, Up, a>>, <<Empty, a>>, <<a, Empty>>}
MCPrefixes == {[dirs |-> d, part |-> x] : d \in {<<>>, <<a>>, <<a, Up>>}, x \in {Empty, a}}
=============================================================================
