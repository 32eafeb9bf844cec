----------------------------- MODULE MCCasFile -----------------------------
(* Model-checking instance of CasFile. The runs check safety only, and     *)
(* operations and contents are interchangeable.                            *)
EXTENDS CasFile, TLC

Symmetric == Permutations(Op) \cup Permutations(Content)
=============================================================================
