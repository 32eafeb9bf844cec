-------------------------- MODULE WorkspaceProofs --------------------------
(***************************************************************************)
(* Proofs about what happens between a path and a file: the walk to it     *)
(* (Resolve), for every tree, path and prefix and any number of changes by *)
(* somebody else; and the compare-and-swap on it (CasFile), for any number *)
(* of operations, contents, edits and deaths.                              *)
(***************************************************************************)
EXTENDS Resolve, CasFile, TLAPS, SequenceTheorems, WellFoundedInduction

(* The walk.                                                               *)

\* a configuration that was loaded, and a walk of a path in normal form
WalkInv ==
    /\ TypeOK
    /\ AtBoundary(policy) /\ AtBoundary(pattern)
    /\ pc = "new" => opened = <<>>
    /\ pc \in {"open", "explain", "leaf"} => InNormalForm(path)

\* no name in the workspace leads out of it but a link, and the walk is in it
InsideInv == Separate(tree) /\ StaysInside

\* what has been opened and what is left make up the path, which was admitted
TrailInv ==
    pc \in {"open", "leaf"} \/ result \in FileId =>
        /\ InNormalForm(path) /\ Admits(path) /\ left # <<>> /\ (pc # "open" => Len(left) = 1)
        /\ Len(opened) + Len(left) = Len(path)
        /\ \A i \in 1 .. Len(opened) : opened[i][1] = path[i]
        /\ \A i \in 1 .. Len(left) : left[i] = path[Len(opened) + i]

IInv == WalkInv /\ InsideInv /\ TrailInv

\* A path in normal form is a sequence of names.
LEMMA NormalForm ==
    ASSUME NEW p \in Path, InNormalForm(p)
    PROVE  p \in Seq(Name) /\ p # <<>> /\ Len(p) \in Nat /\ Len(p) > 0 /\ Front(p) \in Seq(Name)
<1>1. p \in Seq(Name \cup {Empty, Up}) /\ p # <<>>
  BY ResolveAssumption
<1>2. Len(p) \in Nat /\ DOMAIN p = 1 .. Len(p) /\ Len(p) > 0
  BY <1>1, LenProperties, EmptySeq
<1>3. p \in Seq(Name)
  BY <1>1, <1>2 DEF InNormalForm
<1>4. Front(p) \in Seq(Name)
  BY <1>2, <1>3 DEF Front
<1> QED
  BY <1>1, <1>2, <1>3, <1>4

\* At first nothing is opened, and the tree is as the assumption has it.
LEMMA WalkInit == Init => IInv
<1> SUFFICES ASSUME Init PROVE IInv
  OBVIOUS
<1> USE ResolveAssumption
<1>1. <<>> \in Seq(Name) /\ <<>> \in Seq(Name \X Dir)
  BY EmptySeq
<1>2. WalkInv
  BY <1>1 DEF Init, WalkInv, TypeOK
<1>3. InsideInv
  BY TreeAssumption DEF Init, InsideInv, StaysInside, OutsideFiles
<1>4. TrailInv
  BY DEF Init, TrailInv
<1> QED
  BY <1>2, <1>3, <1>4 DEF IInv

\* Whatever somebody else creates, replaces or renames in the workspace, no name of it
\* leads out of it but a link.
LEMMA ForeignStep ==
    ASSUME tree \in [Dir -> [Name -> Node]], Separate(tree), Foreign
    PROVE  tree' \in [Dir -> [Name -> Node]] /\ Separate(tree')
           /\ OutsideFiles(tree') = OutsideFiles(tree)
<1> USE ResolveAssumption
<1>m. Missing \in Node /\ Missing.kind = "missing"
  BY DEF Missing, Node
<1>0. PICK d \in Dir \ Outside, n \in Name :
        Replace(d, n) \/ \E e \in Dir \ Outside, m \in Name : Rename(d, n, e, m)
  BY DEF Foreign
<1>1. CASE Replace(d, n)
  <2>1. PICK node : /\ tree' = [tree EXCEPT ![d][n] = node]
                    /\ node \in {Missing} \cup [kind : {"link"}, to : Dir \cup {None}]
                          \cup [kind : {"file"}, to : FileId \ OutsideFiles(tree)]
                          \cup [kind : {"dir"}, to : FreeDirs]
    BY <1>1 DEF Replace
  <2>2. /\ node \in Node
        /\ node.kind = "dir" => node.to \notin Outside
        /\ node.kind = "file" => node.to \notin OutsideFiles(tree)
    BY <2>1, <1>m DEF Node, FreeDirs
  <2>3. tree' \in [Dir -> [Name -> Node]] /\ \A x \in Outside : tree'[x] = tree[x]
    BY <2>1, <2>2
  <2>4. OutsideFiles(tree') = OutsideFiles(tree)
    BY <2>3 DEF OutsideFiles
  <2>5. \A x \in Dir, k \in Name : tree'[x][k] = tree[x][k] \/ tree'[x][k] = node
    BY <2>1
  <2>6. Separate(tree')
    BY <2>2, <2>4, <2>5 DEF Separate
  <2> QED
    BY <2>3, <2>4, <2>6
<1>2. ASSUME NEW e \in Dir \ Outside, NEW m \in Name, Rename(d, n, e, m)
      PROVE  tree' \in [Dir -> [Name -> Node]] /\ Separate(tree')
             /\ OutsideFiles(tree') = OutsideFiles(tree)
  <2>1. tree' = [tree EXCEPT ![d][n] = Missing, ![e][m] = tree[d][n]]
    BY <1>2 DEF Rename
  <2>2. tree[d][n] \in Node
    OBVIOUS
  <2>3. tree' \in [Dir -> [Name -> Node]] /\ \A x \in Outside : tree'[x] = tree[x]
    BY <1>m, <2>1, <2>2
  <2>4. OutsideFiles(tree') = OutsideFiles(tree)
    BY <2>3 DEF OutsideFiles
  <2>5. \A x \in Dir, k \in Name : tree'[x][k] \in {tree[x][k], Missing, tree[d][n]}
    BY <2>1
  <2>6. Separate(tree')
    BY <1>m, <2>4, <2>5 DEF Separate
  <2> QED
    BY <2>3, <2>4, <2>6
<1> QED
  BY <1>0, <1>1, <1>2

\* The next directory is opened relative to the last one, and only a directory is.
LEMMA OpenNextStep ==
    ASSUME IInv, OpenNext
    PROVE  IInv'
<1> USE ResolveAssumption DEF IInv
<1>1. /\ pc = "open" /\ Len(left) > 1 /\ tree[at][Head(left)].kind = "dir"
      /\ at' = tree[at][Head(left)].to /\ left' = Tail(left)
      /\ opened' = Append(opened, <<Head(left), at'>>)
      /\ UNCHANGED <<policy, pattern, tree, path, pc, result, vacant, refusedBy, foreign>>
  BY DEF OpenNext, Opens, config
<1>2. left \in Seq(Name) /\ left # <<>> /\ at \in Dir /\ opened \in Seq(Name \X Dir)
      /\ tree \in [Dir -> [Name -> Node]] /\ path \in Path
  BY <1>1 DEF WalkInv, TypeOK, TrailInv
<1>3. /\ Head(left) \in Name /\ Tail(left) \in Seq(Name) /\ Len(Tail(left)) = Len(left) - 1
      /\ \A i \in 1 .. Len(Tail(left)) : Tail(left)[i] = left[i + 1]
      /\ Head(left) = left[1] /\ Len(left) \in Nat
  BY <1>2, HeadTailProperties, LenProperties
<1>4. tree[at][Head(left)] \in Node /\ tree[at][Head(left)].kind = "dir"
  BY <1>1, <1>2, <1>3
<1>5. at' \in Dir
  BY <1>1, <1>4 DEF Node, Missing
<1>6. at' \notin Outside
  BY <1>1, <1>2, <1>3 DEF InsideInv, StaysInside, Separate
<1>7. /\ opened' \in Seq(Name \X Dir) /\ Len(opened') = Len(opened) + 1 /\ Len(opened) \in Nat
      /\ \A i \in 1 .. Len(opened) : opened'[i] = opened[i]
      /\ opened'[Len(opened) + 1] = <<Head(left), at'>>
  BY <1>1, <1>2, <1>3, <1>5, AppendProperties, LenProperties
<1>8. WalkInv'
  BY <1>1, <1>3, <1>5, <1>7 DEF WalkInv, TypeOK, AtBoundary, InNormalForm
<1>9. InsideInv'
  BY <1>1, <1>6 DEF InsideInv, StaysInside
<1>10. TrailInv'
  <2>1. InNormalForm(path)' /\ Admits(path)' /\ left' # <<>> /\ pc' = "open"
    <3>1. Admits(path)' = Admits(path) /\ InNormalForm(path)' = InNormalForm(path)
      BY <1>1 DEF Admits, StartsWith, Prov, InNormalForm
    <3>2. Tail(left) # <<>>
      BY <1>1, <1>3
    <3> QED
      BY <1>1, <3>1, <3>2 DEF TrailInv
  <2>2. Len(opened') + Len(left') = Len(path')
    BY <1>1, <1>3, <1>7 DEF TrailInv
  <2>3. ASSUME NEW i \in 1 .. Len(opened') PROVE opened'[i][1] = path'[i]
    <3>1. CASE i \in 1 .. Len(opened)
      BY <1>1, <1>7, <3>1 DEF TrailInv
    <3>2. CASE i = Len(opened) + 1
      BY <1>1, <1>3, <1>7, <3>2 DEF TrailInv
    <3> QED
      BY <1>7, <3>1, <3>2
  <2>4. ASSUME NEW i \in 1 .. Len(left') PROVE left'[i] = path'[Len(opened') + i]
    <3>1. left'[i] = left[i + 1] /\ i + 1 \in 1 .. Len(left) /\ Len(opened') + i = Len(opened) + (i + 1)
      BY <1>1, <1>3, <1>7
    <3> QED
      BY <1>1, <3>1 DEF TrailInv
  <2> QED
    BY <2>1, <2>2, <2>3, <2>4 DEF TrailInv
<1> QED
  BY <1>8, <1>9, <1>10

\* Every step of the walk, and of somebody else, keeps the invariant.
LEMMA WalkStep ==
    ASSUME IInv, [Next]_vars
    PROVE  IInv'
<1> USE ResolveAssumption
<1>t. /\ WalkInv /\ InsideInv /\ TrailInv /\ TypeOK
      /\ left \in Seq(Name) /\ at \in Dir /\ path \in Path /\ opened \in Seq(Name \X Dir)
      /\ tree \in [Dir -> [Name -> Node]]
  BY DEF IInv, WalkInv, TypeOK
<1>k. ASSUME UNCHANGED <<policy, pattern, path, tree>>
      PROVE  /\ Admits(path)' = Admits(path) /\ InNormalForm(path)' = InNormalForm(path)
             /\ AtBoundary(policy)' = AtBoundary(policy) /\ AtBoundary(pattern)' = AtBoundary(pattern)
             /\ Separate(tree)' = Separate(tree) /\ OutsideFiles(tree)' = OutsideFiles(tree)
  BY <1>k DEF Admits, Prov, StartsWith, InNormalForm, AtBoundary, Separate, OutsideFiles
\* an answer that is no file ends the walk where it is
<1>a. ASSUME NEW s \in {"refused", "absent", "unavailable"}, Answer(s), left' \in Seq(Name),
             UNCHANGED <<policy, pattern, tree, path, at, opened, refusedBy, foreign>>,
             vacant' \in BOOLEAN
      PROVE  IInv'
  <2>1. result' \notin FileId /\ pc' = "done"
    BY <1>a DEF Answer
  <2>2. WalkInv'
    BY <1>a, <1>k, <1>t, <2>1 DEF WalkInv, TypeOK, Answer
  <2>3. InsideInv'
    BY <1>a, <1>k, <1>t, <2>1 DEF InsideInv, StaysInside, OutsideFiles
  <2>4. TrailInv'
    BY <2>1 DEF TrailInv
  <2> QED
    BY <2>2, <2>3, <2>4 DEF IInv
<1>1. CASE Decide
  <2>0. vacant' \in BOOLEAN
    BY <1>1 DEF Decide, NamesNothing
  <2>1. CASE ~InNormalForm(path) \/ ~Admits(path)
    BY <1>1, <1>a, <1>t, <2>0, <2>1 DEF Decide, config
  <2>2. CASE InNormalForm(path) /\ Admits(path)
    <3>1. /\ pc = "new" /\ pc' = "open" /\ left' = path /\ result' = result /\ opened = <<>>
          /\ UNCHANGED <<policy, pattern, tree, path, at, opened, refusedBy, foreign>>
      BY <1>1, <1>t, <2>2 DEF Decide, GoesOn, config, WalkInv
    <3>2. path \in Seq(Name) /\ path # <<>> /\ Len(path) \in Nat
      BY <1>t, <2>2, NormalForm
    <3>3. WalkInv'
      BY <1>k, <1>t, <2>0, <2>2, <3>1, <3>2 DEF WalkInv, TypeOK
    <3>4. InsideInv'
      BY <1>k, <1>t, <3>1 DEF InsideInv, StaysInside
    <3>5. TrailInv'
      BY <1>k, <2>2, <3>1, <3>2, EmptySeq DEF TrailInv
    <3> QED
      BY <3>3, <3>4, <3>5 DEF IInv
  <2> QED
    BY <2>1, <2>2
<1>2. CASE OpenNext
  BY <1>2, OpenNextStep
<1>3. CASE OpenRefused
  <2>1. /\ pc = "open" /\ pc' = "explain" /\ result' = result /\ left' = Front(path)
        /\ refusedBy' = tree[at][Head(left)].kind /\ tree[at][Head(left)].kind # "dir"
        /\ Len(left) > 1
        /\ UNCHANGED <<policy, pattern, tree, path, at, opened, vacant, foreign>>
    BY <1>3 DEF OpenRefused, GoesOn, Opens, config
  <2>2. Front(path) \in Seq(Name)
    BY <1>t, <2>1, NormalForm DEF WalkInv
  <2>3. Head(left) \in Name
    BY <1>t, <2>1, HeadTailProperties DEF TrailInv
  <2>4. refusedBy' \in {"nothing", "missing", "link", "file"}
    BY <1>t, <2>1, <2>3 DEF Node, Missing
  <2>5. WalkInv'
    BY <1>k, <1>t, <2>1, <2>2, <2>4 DEF WalkInv, TypeOK
  <2>6. InsideInv'
    BY <1>k, <1>t, <2>1 DEF InsideInv, StaysInside
  <2>7. result' \notin FileId
    BY <1>t, <2>1 DEF TypeOK
  <2>8. TrailInv'
    BY <2>1, <2>7 DEF TrailInv
  <2> QED
    BY <2>5, <2>6, <2>8 DEF IInv
<1>4. CASE ExplainNext
  <2>1. /\ pc = "explain" /\ pc' = "explain" /\ result' = result /\ left' = Tail(left) /\ left # <<>>
        /\ UNCHANGED <<policy, pattern, tree, path, at, opened, vacant, refusedBy, foreign>>
    BY <1>4 DEF ExplainNext, GoesOn, config
  <2>2. Tail(left) \in Seq(Name)
    BY <1>t, <2>1, HeadTailProperties
  <2>3. WalkInv'
    BY <1>k, <1>t, <2>1, <2>2 DEF WalkInv, TypeOK
  <2>4. InsideInv'
    BY <1>k, <1>t, <2>1 DEF InsideInv, StaysInside
  <2>5. result' \notin FileId
    BY <1>t, <2>1 DEF TypeOK
  <2>6. TrailInv'
    BY <2>1, <2>5 DEF TrailInv
  <2> QED
    BY <2>3, <2>4, <2>6 DEF IInv
<1>5. CASE ExplainEnds
  <2>1. \E s \in {"absent", "unavailable"} : Answer(s)
    BY <1>5 DEF ExplainEnds, Explanation
  <2>2. UNCHANGED <<policy, pattern, tree, path, at, left, opened, vacant, refusedBy, foreign>>
    BY <1>5 DEF ExplainEnds, config
  <2> QED
    BY <1>a, <1>t, <2>1, <2>2 DEF TypeOK
<1>6. CASE LookAtLeaf
  <2>1. pc = "open" /\ Len(left) = 1
        /\ UNCHANGED <<policy, pattern, tree, path, at, left, opened, vacant, refusedBy, foreign>>
    BY <1>6 DEF LookAtLeaf, config
  <2>2. (\E s \in {"absent", "unavailable"} : Answer(s)) \/ GoesOn("leaf")
    BY <1>6 DEF LookAtLeaf
  <2>3. CASE GoesOn("leaf")
    <3>1. WalkInv'
      BY <1>k, <1>t, <2>1, <2>3 DEF WalkInv, TypeOK, GoesOn
    <3>2. InsideInv'
      BY <1>k, <1>t, <2>1, <2>3 DEF InsideInv, StaysInside, GoesOn
    <3>3. TrailInv'
      BY <1>k, <1>t, <2>1, <2>3 DEF TrailInv, GoesOn
    <3> QED
      BY <3>1, <3>2, <3>3 DEF IInv
  <2> QED
    BY <1>a, <1>t, <2>1, <2>2, <2>3 DEF TypeOK
<1>7. CASE OpenLeaf
  <2>1. pc = "leaf"
        /\ UNCHANGED <<policy, pattern, tree, path, at, left, opened, vacant, refusedBy, foreign>>
    BY <1>7 DEF OpenLeaf, config
  <2>2. CASE Leaf.kind = "file"
    <3>1. pc' = "done" /\ result' = Leaf.to
      BY <1>7, <2>2 DEF OpenLeaf, Answer
    <3>2. Head(left) \in Name
      BY <1>t, <2>1, HeadTailProperties DEF TrailInv
    <3>3. Leaf.to \in FileId
      <4>1. Leaf \in Node
        BY <1>t, <3>2 DEF Leaf
      <4> QED
        BY <2>2, <4>1 DEF Node, Missing
    <3>4. Leaf.to \notin OutsideFiles(tree)
      BY <1>t, <2>2, <3>2 DEF Leaf, InsideInv, StaysInside, Separate
    <3>5. WalkInv'
      BY <1>k, <1>t, <2>1, <3>1, <3>3 DEF WalkInv, TypeOK
    <3>6. InsideInv'
      BY <1>k, <1>t, <2>1, <3>1, <3>4 DEF InsideInv, StaysInside
    <3>7. TrailInv'
      BY <1>k, <1>t, <2>1, <3>1 DEF TrailInv
    <3> QED
      BY <3>5, <3>6, <3>7 DEF IInv
  <2>3. CASE Leaf.kind # "file"
    <3>1. Answer("unavailable")
      BY <1>7, <2>3 DEF OpenLeaf
    <3> QED
      BY <1>a, <1>t, <2>1, <3>1 DEF TypeOK
  <2> QED
    BY <2>2, <2>3
<1>8. CASE Foreign
  <2>1. /\ UNCHANGED <<policy, pattern, path, pc, at, left, result, opened, refusedBy>>
        /\ foreign' = foreign + 1 /\ vacant' = (vacant \/ NamesNothing(tree', path))
    BY <1>8 DEF Foreign, config
  <2>2. tree' \in [Dir -> [Name -> Node]] /\ Separate(tree')
        /\ OutsideFiles(tree') = OutsideFiles(tree)
    BY <1>8, <1>t, ForeignStep DEF InsideInv
  <2>3. vacant' \in BOOLEAN
    BY <2>1
  <2>4. WalkInv'
    BY <1>t, <2>1, <2>2, <2>3 DEF WalkInv, TypeOK, AtBoundary, InNormalForm
  <2>5. InsideInv'
    BY <1>t, <2>1, <2>2 DEF InsideInv, StaysInside
  <2>6. TrailInv'
    BY <1>t, <2>1 DEF TrailInv, InNormalForm, Admits, Prov, StartsWith
  <2> QED
    BY <2>4, <2>5, <2>6 DEF IInv
<1>9. CASE UNCHANGED vars
  <2>1. UNCHANGED <<policy, pattern, tree, path, pc, at, left, result, opened, vacant, refusedBy, foreign>>
    BY <1>9 DEF vars, config
  <2> QED
    BY <1>k, <1>t, <2>1 DEF IInv, WalkInv, TypeOK, InsideInv, StaysInside, TrailInv
<1> QED
  BY <1>1, <1>2, <1>3, <1>4, <1>5, <1>6, <1>7, <1>8, <1>9 DEF Next, Walk, Done

\* The inductive invariant holds in every reachable state.
THEOREM Invariance == Spec => []IInv
<1>1. IInv /\ [Next]_vars => IInv'
  BY WalkStep
<1> QED
  BY <1>1, WalkInit, PTL DEF Spec

\* "Checking IS opening" (_open_parent): the walk never holds a directory outside the
\* workspace and observes no file outside it, in every tree and whatever links somebody
\* creates between two of its steps.
THEOREM WalkStaysInside == Spec => []StaysInside
<1>1. IInv => StaysInside
  BY DEF IInv, InsideInv
<1> QED
  BY <1>1, Invariance, PTL

\* What a prefix names as directories, the path has before its last name.
LEMMA GrantIsDirectory ==
    ASSUME NEW q \in Prefix, AtBoundary(q), NEW p \in Path, InNormalForm(p), StartsWith(p, q)
    PROVE  /\ Named(q) = q.dirs /\ q.dirs \in Seq(Name \cup {Up}) /\ Len(q.dirs) \in Nat
           /\ Len(q.dirs) < Len(p) /\ \A i \in 1 .. Len(q.dirs) : q.dirs[i] = p[i]
<1>1. q.dirs \in Seq(Name \cup {Up}) /\ q.part = Empty
  BY ResolveAssumption DEF AtBoundary
<1>2. Len(q.dirs) \in Nat /\ p \in Seq(Name) /\ Len(p) \in Nat
  BY <1>1, LenProperties, NormalForm
<1>3. /\ Len(q.dirs) < Len(p)
      /\ SubSeq(q.dirs, 1, Len(q.dirs)) = SubSeq(p, 1, Len(q.dirs))
  BY <1>2 DEF StartsWith, IsPrefix
<1>4. ASSUME NEW i \in 1 .. Len(q.dirs) PROVE q.dirs[i] = p[i]
  <2>1. SubSeq(q.dirs, 1, Len(q.dirs))[i] = q.dirs[i]
    BY <1>1, <1>2
  <2>2. SubSeq(p, 1, Len(q.dirs))[i] = p[i]
    BY <1>2, <1>3
  <2> QED
    BY <1>3, <2>1, <2>2
<1> QED
  BY <1>1, <1>2, <1>3, <1>4 DEF Named

\* The prefixes a principal wrote are honoured by directory, not by letter: a file that is
\* looked at lies below the directory each of them names (_check_prefixes,
\* path_in_normal_form, _open_parent), for every path and prefix.
THEOREM PrefixesAreDirectories == Spec => []EndsBelowGrant
<1>1. IInv => EndsBelowGrant
  <2> SUFFICES ASSUME IInv, pc = "leaf" \/ result \in FileId, NEW q \in {policy, pattern}
               PROVE  IsPrefix(Named(q), [i \in DOMAIN opened |-> opened[i][1]])
    BY DEF EndsBelowGrant
  <2> DEFINE names == [i \in DOMAIN opened |-> opened[i][1]]
  <2>1. /\ Admits(path) /\ Len(left) = 1 /\ Len(opened) + Len(left) = Len(path)
        /\ \A i \in 1 .. Len(opened) : opened[i][1] = path[i]
    BY ResolveAssumption DEF IInv, TrailInv, WalkInv, TypeOK
  <2>2. StartsWith(path, q)
    BY <2>1 DEF Admits, Prov
  <2>3. InNormalForm(path) /\ q \in Prefix /\ AtBoundary(q) /\ path \in Path
    BY ResolveAssumption DEF IInv, TrailInv, WalkInv, TypeOK
  <2>4. /\ Named(q) = q.dirs /\ q.dirs \in Seq(Name \cup {Up}) /\ Len(q.dirs) \in Nat
        /\ Len(q.dirs) < Len(path) /\ \A i \in 1 .. Len(q.dirs) : q.dirs[i] = path[i]
    BY <2>2, <2>3, GrantIsDirectory
  <2>5. opened \in Seq(Name \X Dir) /\ Len(opened) \in Nat /\ DOMAIN opened = 1 .. Len(opened)
    BY LenProperties DEF IInv, WalkInv, TypeOK
  <2>6. names \in Seq(Name) /\ Len(names) = Len(opened)
    BY <2>5
  <2>7. Len(q.dirs) <= Len(names)
    BY <2>1, <2>4, <2>5, <2>6
  <2>8. \A i \in 1 .. Len(q.dirs) : q.dirs[i] = names[i]
    BY <2>1, <2>4, <2>5, <2>7, <2>6
  <2>9. SubSeq(q.dirs, 1, Len(q.dirs)) = SubSeq(names, 1, Len(q.dirs))
    <3> DEFINE n == Len(q.dirs)
    <3>1. SubSeq(q.dirs, 1, n) = [i \in 1 .. n |-> q.dirs[i]]
      BY <2>4
    <3>2. SubSeq(names, 1, n) = [i \in 1 .. n |-> names[i]]
      BY <2>4, <2>6, <2>7
    <3> QED
      BY <2>8, <3>1, <3>2
  <2> HIDE DEF names
  <2>10. IsPrefix(q.dirs, names)
    BY <2>7, <2>9 DEF IsPrefix
  <2> QED
    BY <2>4, <2>10 DEF names
<1> QED
  BY <1>1, Invariance, PTL

-----------------------------------------------------------------------------
(* What a path names, and when an absence is observed.                      *)

\* A set of numbers that holds 0 and with each of its numbers the next holds them all.
LEMMA Upward ==
    ASSUME NEW n \in Nat, NEW S, 0 \in S, \A i \in 0 .. n : i \in S /\ i < n => i + 1 \in S
    PROVE  0 .. n \subseteq S
<1> DEFINE T == {i \in 0 .. n : i \notin S}
<1> SUFFICES ASSUME T # {} PROVE FALSE
  OBVIOUS
<1>1. T \subseteq Nat
  OBVIOUS
<1>2. PICK i \in T : \A j \in T : ~(<<j, i>> \in OpToRel(<, Nat))
  BY <1>1, NatLessThanWellFounded, WFMin
<1>3. i \in 0 .. n /\ i \notin S /\ i # 0
  OBVIOUS
<1>4. i - 1 \in 0 .. n /\ i - 1 < n /\ (i - 1) + 1 = i /\ i - 1 < i /\ i - 1 \in Nat
  BY <1>3
<1>5. i - 1 \notin T
  BY <1>1, <1>2, <1>4 DEF OpToRel
<1> QED
  BY <1>3, <1>4, <1>5

Start == [kind |-> "dir", to |-> Root]
NotDir == [kind |-> "notdir", to |-> None]

\* A path has one sequence of nodes: it begins at the workspace and goes on by Enter.
LEMMA NodesUnfold ==
    ASSUME NEW t, NEW p, Len(p) \in Nat
    PROVE  /\ Nodes(t, p)[0] = Start
           /\ \A i \in 1 .. Len(p) : Nodes(t, p)[i] = Enter(t, Nodes(t, p)[i - 1], p[i])
<1> DEFINE Unfolded(g, n) == [i \in 0 .. n |-> IF i = 0 THEN Start ELSE Enter(t, g[i - 1], p[i])]
           S == {n \in 0 .. Len(p) : \E g : g = Unfolded(g, n)}
<1>1. 0 \in S
  <2> DEFINE g == [i \in 0 .. 0 |-> Start]
  <2>1. g = Unfolded(g, 0)
    OBVIOUS
  <2>2. 0 \in 0 .. Len(p)
    OBVIOUS
  <2> HIDE DEF g
  <2> QED
    BY <2>1, <2>2
<1>2. ASSUME NEW n \in 0 .. Len(p), n \in S, n < Len(p)
      PROVE  n + 1 \in S
  <2>1. PICK g : g = Unfolded(g, n)
    BY <1>2
  <2> DEFINE h == [i \in 0 .. n + 1 |-> IF i = n + 1 THEN Enter(t, g[n], p[n + 1]) ELSE g[i]]
  <2>2. ASSUME NEW i \in 0 .. n + 1 PROVE h[i] = Unfolded(h, n + 1)[i]
    <3>1. CASE i = n + 1
      <4>1. h[i] = Enter(t, g[n], p[n + 1]) /\ i - 1 = n /\ i # 0 /\ n \in 0 .. n + 1 /\ n # n + 1
        BY <3>1
      <4>2. h[i - 1] = g[n]
        BY <4>1
      <4>3. Unfolded(h, n + 1)[i] = Enter(t, h[i - 1], p[i])
        BY <4>1
      <4> QED
        BY <3>1, <4>1, <4>2, <4>3
    <3>2. CASE i # n + 1 /\ i # 0
      <4>1. i \in 0 .. n /\ i - 1 \in 0 .. n + 1 /\ i - 1 # n + 1
        BY <3>2
      <4>2. h[i] = g[i] /\ h[i - 1] = g[i - 1]
        BY <3>2, <4>1
      <4>3. g[i] = Enter(t, g[i - 1], p[i])
        BY <2>1, <3>2, <4>1
      <4>4. Unfolded(h, n + 1)[i] = Enter(t, h[i - 1], p[i])
        BY <3>2
      <4> QED
        BY <4>2, <4>3, <4>4
    <3>3. CASE i = 0
      <4>1. 0 \in 0 .. n /\ i # n + 1 /\ h[i] = g[0]
        BY <3>3
      <4>2. g[0] = Start
        BY <2>1, <4>1
      <4> QED
        BY <3>3, <4>1, <4>2
    <3> QED
      BY <3>1, <3>2, <3>3
  <2>3. h = Unfolded(h, n + 1)
    BY <2>2
  <2> HIDE DEF h
  <2> QED
    BY <1>2, <2>3
<1> HIDE DEF S
<1>3. Len(p) \in S
  <2>1. 0 .. Len(p) \subseteq S
    BY <1>1, <1>2, Upward
  <2> QED
    BY <2>1
<1>4. PICK g : g = Unfolded(g, Len(p))
  BY <1>3 DEF S
<1> DEFINE N == CHOOSE f : f = Unfolded(f, Len(p))
<1>5. N = Unfolded(N, Len(p))
  BY <1>4
<1>6. Nodes(t, p) = N
  BY DEF Nodes, Start
<1> HIDE DEF N
<1>7. N[0] = Start /\ \A i \in 1 .. Len(p) : N[i] = Enter(t, N[i - 1], p[i])
  BY <1>5
<1> QED
  BY <1>6, <1>7

\* Every node of a path is one a directory can hold, or the place where a file is no directory.
LEMMA NodesTyped ==
    ASSUME NEW t \in [Dir -> [Name -> Node]], NEW p \in Seq(Name)
    PROVE  \A i \in 0 .. Len(p) : Nodes(t, p)[i] \in Node \cup {NotDir}
<1> USE ResolveAssumption
<1>0. Len(p) \in Nat /\ Start \in Node /\ Missing \in Node /\ \A i \in 1 .. Len(p) : p[i] \in Name
  BY LenProperties DEF Start, Node, Missing
<1> DEFINE S == {i \in 0 .. Len(p) : Nodes(t, p)[i] \in Node \cup {NotDir}}
<1>1. 0 \in S
  BY <1>0, NodesUnfold
<1>2. ASSUME NEW x \in Node \cup {NotDir}, NEW n \in Name
      PROVE  Enter(t, x, n) \in Node \cup {NotDir}
  <2>1. CASE x.kind = "dir"
    <3>1. x.to \in Dir
      BY <1>2, <2>1 DEF Node, NotDir, Missing
    <3> QED
      BY <2>1, <3>1 DEF Enter
  <2>2. CASE x.kind = "link"
    BY <1>0, <2>2 DEF Enter
  <2>3. CASE x.kind = "file"
    BY <2>3 DEF Enter, NotDir
  <2>4. CASE x.kind \notin {"dir", "link", "file"}
    BY <1>2, <2>4 DEF Enter
  <2> QED
    BY <2>1, <2>2, <2>3, <2>4
<1>3. ASSUME NEW i \in 0 .. Len(p), i \in S, i < Len(p) PROVE i + 1 \in S
  <2>1. i + 1 \in 1 .. Len(p) /\ i + 1 \in 0 .. Len(p) /\ (i + 1) - 1 = i
    BY <1>0, <1>3
  <2>2. Nodes(t, p)[i + 1] = Enter(t, Nodes(t, p)[i], p[i + 1])
    BY <1>0, <2>1, NodesUnfold
  <2> QED
    BY <1>0, <1>2, <1>3, <2>1, <2>2
<1> HIDE DEF S
<1>4. 0 .. Len(p) \subseteq S
  BY <1>0, <1>1, <1>3, Upward
<1> QED
  BY <1>4 DEF S

\* Below a name that is missing everything is.
LEMMA MissingStays ==
    ASSUME NEW t \in [Dir -> [Name -> Node]], NEW p \in Seq(Name), NEW k \in 0 .. Len(p),
           Nodes(t, p)[k].kind = "missing"
    PROVE  Lstat(t, p) = Missing
<1> USE ResolveAssumption
<1>0. Len(p) \in Nat
  BY LenProperties
<1> DEFINE S == {i \in 0 .. Len(p) - k : Nodes(t, p)[k + i] = Missing}
<1>1. 0 \in S
  <2>1. Nodes(t, p)[k] \in Node \cup {NotDir}
    BY NodesTyped
  <2>2. Nodes(t, p)[k] = Missing
    BY <2>1 DEF Node, NotDir, Missing
  <2>3. k + 0 = k /\ 0 \in 0 .. Len(p) - k
    BY <1>0
  <2> QED
    BY <2>2, <2>3
<1>2. ASSUME NEW i \in 0 .. Len(p) - k, i \in S, i < Len(p) - k PROVE i + 1 \in S
  <2>1. k + (i + 1) \in 1 .. Len(p) /\ (k + (i + 1)) - 1 = k + i /\ i + 1 \in 0 .. Len(p) - k
    BY <1>0, <1>2
  <2>2. Nodes(t, p)[k + (i + 1)] = Enter(t, Nodes(t, p)[k + i], p[k + (i + 1)])
    BY <1>0, <2>1, NodesUnfold
  <2> QED
    BY <1>2, <2>1, <2>2 DEF Enter, Missing
<1>3. Len(p) - k \in Nat
  BY <1>0
<1> HIDE DEF S
<1>4. 0 .. Len(p) - k \subseteq S
  BY <1>1, <1>2, <1>3, Upward
<1>5. Len(p) - k \in S /\ k + (Len(p) - k) = Len(p)
  BY <1>0, <1>3, <1>4
<1> QED
  BY <1>5 DEF S, Lstat

\* The nodes of the first names of a path are the first nodes of the path.
LEMMA NodesOfPrefix ==
    ASSUME NEW t, NEW p \in Seq(Name), NEW k \in 0 .. Len(p)
    PROVE  Lstat(t, SubSeq(p, 1, k)) = Nodes(t, p)[k]
<1> DEFINE q == SubSeq(p, 1, k)
<1>0. /\ Len(p) \in Nat /\ k \in Nat /\ q \in Seq(Name) /\ Len(q) = k
      /\ \A i \in 1 .. k : q[i] = p[i]
  BY LenProperties, SubSeqProperties
<1> HIDE DEF q
<1> DEFINE S == {i \in 0 .. k : Nodes(t, q)[i] = Nodes(t, p)[i]}
<1>1. 0 \in S
  BY <1>0, NodesUnfold
<1>2. ASSUME NEW i \in 0 .. k, i \in S, i < k PROVE i + 1 \in S
  <2>1. i + 1 \in 1 .. k /\ i + 1 \in 1 .. Len(p) /\ (i + 1) - 1 = i /\ i + 1 \in 0 .. k
    BY <1>0, <1>2
  <2>2. Nodes(t, q)[i + 1] = Enter(t, Nodes(t, q)[i], q[i + 1])
    BY <1>0, <2>1, NodesUnfold
  <2>3. Nodes(t, p)[i + 1] = Enter(t, Nodes(t, p)[i], p[i + 1])
    BY <1>0, <2>1, NodesUnfold
  <2> QED
    BY <1>0, <1>2, <2>1, <2>2, <2>3
<1> HIDE DEF S
<1>3. 0 .. k \subseteq S
  BY <1>0, <1>1, <1>2, Upward
<1>4. k \in S
  BY <1>0, <1>3
<1> QED
  BY <1>0, <1>4 DEF S, Lstat, q

\* the directory the walk held after its first j names
Held(j) == IF j = 0 THEN Root ELSE opened[j][2]

\* in tree t those names still lead from one of these directories to the next
Linked(t, j) == t[Held(j - 1)][opened[j][1]] = [kind |-> "dir", to |-> Held(j)]

\* The walk by handles agrees with the names, or the path named nothing since it began; what
\* is examined after a refusal are the first names of the path.
AbsenceInv ==
    /\ pc = "new" => at = Root
    /\ pc # "new" /\ NamesNothing(tree, path) => vacant
    /\ pc \in {"open", "leaf"} =>
          at = Held(Len(opened)) /\ (vacant \/ \A j \in 1 .. Len(opened) : Linked(tree, j))
    /\ pc = "explain" => Len(left) < Len(path)
    /\ AbsentWasAbsent

\* Names that lead from directory to directory lead there.
LEMMA LinkedLeads ==
    ASSUME NEW t \in [Dir -> [Name -> Node]], NEW p \in Seq(Name), NEW k \in 0 .. Len(p),
           \A j \in 1 .. k : opened[j][1] = p[j] /\ Linked(t, j)
    PROVE  Nodes(t, p)[k] = [kind |-> "dir", to |-> Held(k)]
<1>0. Len(p) \in Nat /\ k \in Nat
  BY LenProperties
<1> DEFINE S == {i \in 0 .. k : Nodes(t, p)[i] = [kind |-> "dir", to |-> Held(i)]}
<1>1. 0 \in S
  BY <1>0, NodesUnfold DEF Start, Held
<1>2. ASSUME NEW i \in 0 .. k, i \in S, i < k PROVE i + 1 \in S
  <2>1. i + 1 \in 1 .. k /\ i + 1 \in 1 .. Len(p) /\ (i + 1) - 1 = i /\ i + 1 \in 0 .. k
    BY <1>0, <1>2
  <2>2. Nodes(t, p)[i + 1] = Enter(t, Nodes(t, p)[i], p[i + 1])
    BY <1>0, <2>1, NodesUnfold
  <2>3. Enter(t, Nodes(t, p)[i], p[i + 1]) = t[Held(i)][p[i + 1]]
    BY <1>2 DEF Enter
  <2>4. t[Held(i)][p[i + 1]] = [kind |-> "dir", to |-> Held(i + 1)]
    BY <2>1 DEF Linked
  <2> QED
    BY <2>1, <2>2, <2>3, <2>4
<1> HIDE DEF S
<1>3. 0 .. k \subseteq S
  BY <1>0, <1>1, <1>2, Upward
<1>4. k \in S
  BY <1>0, <1>3
<1> QED
  BY <1>4 DEF S

\* A name that is missing where they lead makes the path name nothing.
LEMMA LinkedToMissing ==
    ASSUME NEW t \in [Dir -> [Name -> Node]], NEW p \in Seq(Name), NEW k \in 1 .. Len(p),
           \A j \in 1 .. k - 1 : opened[j][1] = p[j] /\ Linked(t, j),
           t[Held(k - 1)][p[k]] = Missing
    PROVE  NamesNothing(t, p)
<1>0. Len(p) \in Nat /\ k - 1 \in 0 .. Len(p) /\ k \in 0 .. Len(p)
  BY LenProperties
<1>1. Nodes(t, p)[k - 1] = [kind |-> "dir", to |-> Held(k - 1)]
  BY <1>0, LinkedLeads
<1>2. Nodes(t, p)[k] = Enter(t, Nodes(t, p)[k - 1], p[k])
  BY <1>0, NodesUnfold
<1>3. Nodes(t, p)[k] = Missing
  BY <1>1, <1>2 DEF Enter
<1>4. Lstat(t, p) = Missing
  BY <1>0, <1>3, MissingStays DEF Missing
<1>5. InNormalForm(p)
  BY <1>0 DEF InNormalForm
<1> QED
  BY <1>4, <1>5 DEF NamesNothing

\* Whoever takes a directory away from the names that were walked makes the path name
\* nothing, by the removal or already before it: only an empty directory can be replaced.
LEMMA LinksBreak ==
    ASSUME IInv, AbsenceInv, Foreign, pc \in {"open", "leaf"}, ~vacant'
    PROVE  \A j \in 1 .. Len(opened) : Linked(tree', j)
<1> USE ResolveAssumption
<1>0. /\ tree \in [Dir -> [Name -> Node]] /\ tree' \in [Dir -> [Name -> Node]]
      /\ path \in Seq(Name) /\ opened \in Seq(Name \X Dir) /\ Len(opened) \in Nat /\ Len(path) \in Nat
      /\ \A j \in 1 .. Len(opened) : opened[j][1] \in Name /\ opened[j][2] \in Dir
      /\ Len(opened) < Len(path) /\ \A j \in 1 .. Len(opened) : opened[j][1] = path[j]
  <2>1. tree \in [Dir -> [Name -> Node]] /\ tree' \in [Dir -> [Name -> Node]] /\ path \in Path
        /\ opened \in Seq(Name \X Dir) /\ left \in Seq(Name)
    BY ForeignStep DEF IInv, WalkInv, InsideInv, TypeOK
  <2>2. /\ InNormalForm(path) /\ left # <<>>
        /\ Len(opened) + Len(left) = Len(path)
        /\ \A i \in 1 .. Len(opened) : opened[i][1] = path[i]
    BY DEF IInv, TrailInv
  <2>3. path \in Seq(Name) /\ Len(path) \in Nat
    BY <2>1, <2>2, NormalForm
  <2>4. Len(left) \in Nat /\ Len(left) > 0 /\ Len(opened) \in Nat
    BY <2>1, <2>2, LenProperties, EmptySeq
  <2>5. \A j \in 1 .. Len(opened) : opened[j][1] \in Name /\ opened[j][2] \in Dir
    BY <2>1, <2>4
  <2> QED
    BY <2>1, <2>2, <2>3, <2>4, <2>5
<1>h. \A j \in 0 .. Len(opened) : Held(j) \in Dir
  BY <1>0 DEF Held
<1>v. ~vacant /\ ~NamesNothing(tree, path) /\ ~NamesNothing(tree', path)
  BY DEF Foreign, AbsenceInv
<1>l. \A j \in 1 .. Len(opened) : Linked(tree, j)
  BY <1>v DEF AbsenceInv
<1> DEFINE Broken == {j \in 1 .. Len(opened) : ~Linked(tree', j)}
<1> SUFFICES ASSUME Broken # {} PROVE FALSE
  OBVIOUS
<1>1. PICK k \in Broken : \A j \in Broken : ~(<<j, k>> \in OpToRel(<, Nat))
  <2>1. Broken \subseteq Nat
    BY <1>0
  <2> QED
    BY <2>1, NatLessThanWellFounded, WFMin
<1>2. k \in 1 .. Len(opened) /\ k \in Nat /\ k - 1 \in 0 .. Len(opened) /\ k \in 1 .. Len(path)
      /\ ~Linked(tree', k) /\ Linked(tree, k)
  BY <1>0, <1>l
<1>3. \A j \in 1 .. k - 1 : opened[j][1] = path[j] /\ Linked(tree', j)
  <2> SUFFICES ASSUME NEW j \in 1 .. k - 1 PROVE opened[j][1] = path[j] /\ Linked(tree', j)
    OBVIOUS
  <2>1. j \in 1 .. Len(opened) /\ j < k /\ j \in Nat /\ k \in Nat
    BY <1>0, <1>2
  <2>2. <<j, k>> \in OpToRel(<, Nat)
    BY <2>1 DEF OpToRel
  <2> QED
    BY <1>0, <1>1, <2>1, <2>2
<1>4. tree'[Held(k - 1)][path[k]] # Missing
  BY <1>0, <1>2, <1>3, <1>v, LinkedToMissing
<1>5. /\ Held(k - 1) \in Dir /\ path[k] \in Name /\ opened[k][1] = path[k] /\ Held(k) \in Dir
      /\ tree[Held(k - 1)][path[k]] = [kind |-> "dir", to |-> Held(k)]
      /\ tree'[Held(k - 1)][path[k]] # tree[Held(k - 1)][path[k]]
  BY <1>0, <1>2, <1>h DEF Linked
<1>6. tree[Held(k)][path[k + 1]] # Missing /\ path[k + 1] \in Name
  <2>1. PICK x : x = k + 1
    OBVIOUS
  <2>2. x \in 1 .. Len(path) /\ x - 1 = k
    BY <1>0, <1>2, <2>1
  <2>3. \A j \in 1 .. x - 1 : opened[j][1] = path[j] /\ Linked(tree, j)
    BY <1>0, <1>2, <1>l, <2>2
  <2>4. tree[Held(x - 1)][path[x]] # Missing
    BY <1>0, <1>v, <2>2, <2>3, LinkedToMissing
  <2>5. path[x] \in Name
    BY <1>0, <2>2
  <2> QED
    BY <2>1, <2>2, <2>4, <2>5
<1>7. PICK d \in Dir \ Outside, n \in Name :
        Replace(d, n) \/ \E e \in Dir \ Outside, m \in Name : Rename(d, n, e, m)
  BY DEF Foreign
<1>8. CASE Replace(d, n)
  <2>1. Removable(tree[d][n]) /\ \E node : tree' = [tree EXCEPT ![d][n] = node]
    BY <1>8 DEF Replace
  <2>2. d = Held(k - 1) /\ n = path[k]
    BY <1>0, <1>5, <2>1
  <2> QED
    BY <1>5, <1>6, <2>1, <2>2 DEF Removable
<1>9. ASSUME NEW e \in Dir \ Outside, NEW m \in Name, Rename(d, n, e, m) PROVE FALSE
  <2>1. /\ tree[d][n] # Missing /\ tree[e][m] = Missing
        /\ tree' = [tree EXCEPT ![d][n] = Missing, ![e][m] = tree[d][n]]
    BY <1>9 DEF Rename
  <2>2. ~(e = Held(k - 1) /\ m = path[k])
    BY <1>5, <2>1 DEF Missing
  <2>3. d = Held(k - 1) /\ n = path[k]
    BY <1>0, <1>5, <2>1, <2>2
  <2>4. tree'[d][n] = Missing
    BY <1>0, <2>1, <2>2, <2>3
  <2> QED
    BY <1>4, <2>3, <2>4
<1> QED
  BY <1>7, <1>8, <1>9

\* Every step keeps what the walk knows of the names.
LEMMA AbsenceStep ==
    ASSUME IInv, IInv', AbsenceInv, [Next]_vars
    PROVE  AbsenceInv'
<1> USE ResolveAssumption
<1>t. /\ TypeOK /\ tree \in [Dir -> [Name -> Node]] /\ path \in Path
      /\ left \in Seq(Name) /\ opened \in Seq(Name \X Dir) /\ at \in Dir
      /\ Len(left) \in Nat /\ Len(opened) \in Nat
  BY LenProperties DEF IInv, WalkInv, TypeOK
\* a step of the walk that opens nothing and whose answer, if it is one of absence, is true
<1>a. ASSUME UNCHANGED <<tree, path, at, opened, vacant>>,
             pc # "new", pc' # "new", pc' = "leaf" => pc \in {"open", "leaf"}, pc' # "open",
             pc' = "explain" => Len(left') < Len(path'),
             result' = "absent" => vacant \/ NamesNothing(tree, path)
      PROVE  AbsenceInv'
  <2>1. \A j \in 1 .. Len(opened) : Linked(tree, j)' = Linked(tree, j)
    BY <1>a DEF Linked, Held
  <2>2. Held(Len(opened))' = Held(Len(opened))
    BY <1>a DEF Held
  <2>3. NamesNothing(tree, path)' = NamesNothing(tree, path)
    BY <1>a
  <2>4. vacant' /\ NamesNothing(tree, path) => vacant
    BY <1>a
  <2>5. AbsentWasAbsent'
    BY <1>a DEF AbsenceInv, AbsentWasAbsent
  <2>6. pc' \in {"open", "leaf"} =>
          at' = Held(Len(opened))' /\ (vacant' \/ \A j \in 1 .. Len(opened') : Linked(tree, j)')
    BY <1>a, <2>1, <2>2 DEF AbsenceInv
  <2> QED
    BY <1>a, <2>3, <2>5, <2>6 DEF AbsenceInv
<1>1. CASE Decide
  <2>1. /\ pc = "new" /\ at = Root /\ opened = <<>> /\ vacant' = NamesNothing(tree, path)
        /\ UNCHANGED <<tree, path, at, opened>> /\ pc' \in {"done", "open"}
        /\ result' # "absent"
    BY <1>1, <1>t DEF Decide, Answer, GoesOn, AbsenceInv, IInv, WalkInv, TypeOK
  <2>2. Len(opened') = 0 /\ Held(Len(opened))' = Root
    BY <2>1, EmptySeq DEF Held
  <2>3. NamesNothing(tree, path)' = NamesNothing(tree, path)
    BY <2>1
  <2> QED
    BY <2>1, <2>2, <2>3 DEF AbsenceInv, AbsentWasAbsent
<1>2. CASE OpenNext
  <2>1. /\ pc = "open" /\ pc' = "open" /\ Len(left) > 1 /\ tree[at][Head(left)].kind = "dir"
        /\ at' = tree[at][Head(left)].to
        /\ opened' = Append(opened, <<Head(left), at'>>)
        /\ UNCHANGED <<tree, path, result, vacant>>
    BY <1>2 DEF OpenNext, Opens
  <2>2. /\ Len(opened') = Len(opened) + 1
        /\ \A i \in 1 .. Len(opened) : opened'[i] = opened[i]
        /\ opened'[Len(opened) + 1] = <<Head(left), at'>>
        /\ Head(left) \in Name
    <3>1. Head(left) \in Name
      BY <1>t, <2>1, HeadTailProperties, EmptySeq DEF IInv, TrailInv
    <3>2. at' \in Dir
      BY DEF IInv, WalkInv, TypeOK
    <3> QED
      BY <1>t, <2>1, <3>1, <3>2, AppendProperties
  <2>3. at = Held(Len(opened)) /\ (vacant \/ \A j \in 1 .. Len(opened) : Linked(tree, j))
    BY <2>1 DEF AbsenceInv
  <2>4. \A j \in 0 .. Len(opened) : Held(j)' = Held(j)
    BY <1>t, <2>2 DEF Held
  <2>5. ASSUME NEW j, j = Len(opened) + 1 PROVE Held(j)' = at'
    BY <1>t, <2>2, <2>5 DEF Held
  <2>6. at' = Held(Len(opened))'
    BY <1>t, <2>2 DEF Held
  <2>7. ASSUME ~vacant, NEW j \in 1 .. Len(opened') PROVE Linked(tree, j)'
    <3>1. CASE j \in 1 .. Len(opened)
      <4>1. Held(j)' = Held(j) /\ Held(j - 1)' = Held(j - 1) /\ opened'[j][1] = opened[j][1]
        BY <1>t, <2>2, <2>4, <3>1
      <4>2. Linked(tree, j)
        BY <2>3, <2>7, <3>1
      <4> QED
        BY <2>1, <4>1, <4>2 DEF Linked
    <3>2. CASE j = Len(opened) + 1
      <4>1. Held(j)' = at' /\ j - 1 = Len(opened) /\ j - 1 \in 0 .. Len(opened)
        BY <1>t, <2>5, <3>2
      <4>2. Held(j - 1)' = at /\ opened'[j][1] = Head(left)
        BY <2>2, <2>3, <2>4, <3>2, <4>1
      <4>3. tree[at][Head(left)] \in Node
        BY <1>t, <2>2
      <4>4. tree[at][Head(left)] = [kind |-> "dir", to |-> at']
        BY <2>1, <4>3 DEF Node, Missing
      <4> QED
        BY <2>1, <4>1, <4>2, <4>4 DEF Linked
    <3> QED
      BY <1>t, <2>2, <3>1, <3>2
  <2>8. NamesNothing(tree, path)' = NamesNothing(tree, path)
    BY <2>1
  <2> QED
    BY <2>1, <2>6, <2>7, <2>8 DEF AbsenceInv, AbsentWasAbsent
<1>3. CASE OpenRefused
  <2>1. /\ pc = "open" /\ pc' = "explain" /\ result' = result /\ left' = Front(path)
        /\ UNCHANGED <<tree, path, at, opened, vacant>>
    BY <1>3 DEF OpenRefused, GoesOn
  <2>2. path \in Seq(Name) /\ path # <<>> /\ Len(path) \in Nat /\ Len(path) > 0
    BY <1>t, <2>1, NormalForm DEF IInv, WalkInv
  <2>3. Len(Front(path)) < Len(path)
    BY <2>2 DEF Front
  <2> QED
    BY <1>a, <1>t, <2>1, <2>3 DEF TypeOK
<1>4. CASE ExplainNext
  <2>1. /\ pc = "explain" /\ pc' = "explain" /\ result' = result /\ left # <<>> /\ left' = Tail(left)
        /\ UNCHANGED <<tree, path, at, opened, vacant>>
    BY <1>4 DEF ExplainNext, GoesOn
  <2>2. Len(Tail(left)) < Len(path) /\ result # "absent"
    BY <1>t, <2>1, HeadTailProperties, NormalForm DEF AbsenceInv, IInv, WalkInv, TypeOK
  <2> QED
    BY <1>a, <2>1, <2>2
<1>5. CASE ExplainEnds
  <2>1. /\ pc = "explain" /\ pc' = "done"
        /\ UNCHANGED <<tree, path, at, opened, vacant>>
        /\ result' = "absent" => Lstat(tree, Examined).kind = "missing"
    BY <1>5 DEF ExplainEnds, Answer, Explanation
  <2>2. ASSUME Lstat(tree, Examined).kind = "missing"
        PROVE  NamesNothing(tree, path)
    <3>1. path \in Seq(Name) /\ Len(path) \in Nat /\ InNormalForm(path) /\ Len(left) < Len(path)
      BY <1>t, <2>1, NormalForm DEF IInv, WalkInv, AbsenceInv
    <3>2. Len(path) - Len(left) \in 0 .. Len(path)
      BY <1>t, <3>1
    <3>3. Nodes(tree, path)[Len(path) - Len(left)].kind = "missing"
      BY <2>2, <3>1, <3>2, NodesOfPrefix DEF Examined
    <3>4. Lstat(tree, path) = Missing
      BY <1>t, <3>1, <3>2, <3>3, MissingStays
    <3> QED
      BY <3>1, <3>4 DEF NamesNothing
  <2> QED
    BY <1>a, <2>1, <2>2
<1>6. CASE LookAtLeaf
  <2>1. /\ pc = "open" /\ pc' \in {"leaf", "done"} /\ Len(left) = 1
        /\ UNCHANGED <<tree, path, at, opened, vacant>>
        /\ result' = "absent" => Leaf = Missing
    BY <1>6, <1>t DEF LookAtLeaf, Answer, GoesOn, TypeOK
  <2>2. ASSUME Leaf = Missing, ~vacant
        PROVE  NamesNothing(tree, path)
    <3>1. /\ path \in Seq(Name) /\ Len(path) \in Nat /\ Len(opened) + 1 = Len(path)
          /\ \A i \in 1 .. Len(opened) : opened[i][1] = path[i]
          /\ \A i \in 1 .. Len(left) : left[i] = path[Len(opened) + i]
      BY <1>t, <2>1, NormalForm DEF IInv, TrailInv
    <3>2. at = Held(Len(opened)) /\ \A j \in 1 .. Len(opened) : Linked(tree, j)
      BY <2>1, <2>2 DEF AbsenceInv
    <3>3. Head(left) = path[Len(path)]
      BY <1>t, <2>1, <3>1, HeadTailProperties, EmptySeq
    <3>4. PICK x : x = Len(path)
      OBVIOUS
    <3>5. x \in 1 .. Len(path) /\ x - 1 = Len(opened)
      BY <1>t, <3>1, <3>4
    <3>6. tree[Held(x - 1)][path[x]] = Missing
      BY <2>2, <3>2, <3>3, <3>4, <3>5 DEF Leaf
    <3>7. \A j \in 1 .. x - 1 : opened[j][1] = path[j] /\ Linked(tree, j)
      BY <3>1, <3>2, <3>5
    <3> QED
      BY <1>t, <3>1, <3>5, <3>6, <3>7, LinkedToMissing
  <2> QED
    BY <1>a, <2>1, <2>2
<1>7. CASE OpenLeaf
  <2>1. /\ pc = "leaf" /\ pc' = "done" /\ UNCHANGED <<tree, path, at, opened, vacant>>
        /\ result' \in {Leaf.to, "unavailable"} /\ (Leaf.kind = "file" \/ result' = "unavailable")
    BY <1>7 DEF OpenLeaf, Answer
  <2>2. Head(left) \in Name
    BY <1>t, <2>1, HeadTailProperties DEF IInv, TrailInv
  <2>3. Leaf \in Node
    BY <1>t, <2>2 DEF Leaf
  <2>4. result' # "absent"
    BY <2>1, <2>3 DEF Node, Missing
  <2> QED
    BY <1>a, <2>1, <2>4
<1>8. CASE Foreign
  <2>1. /\ UNCHANGED <<path, pc, at, left, result, opened>> /\ pc \notin {"new", "done"}
        /\ vacant' = (vacant \/ NamesNothing(tree', path))
    BY <1>8 DEF Foreign
  <2>2. NamesNothing(tree, path)' = NamesNothing(tree', path)
    BY <2>1
  <2>3. pc' \in {"open", "leaf"} =>
          at' = Held(Len(opened))' /\ (vacant' \/ \A j \in 1 .. Len(opened') : Linked(tree, j)')
    <3>1. Held(Len(opened))' = Held(Len(opened))
      BY <2>1 DEF Held
    <3>2. \A j \in 1 .. Len(opened) : Linked(tree, j)' = Linked(tree', j)
      BY <2>1 DEF Linked, Held
    <3> QED
      BY <1>8, <2>1, <3>1, <3>2, LinksBreak DEF AbsenceInv
  <2> QED
    BY <2>1, <2>2, <2>3 DEF AbsenceInv, AbsentWasAbsent
<1>9. CASE UNCHANGED vars
  <2>1. UNCHANGED <<tree, path, pc, at, left, result, opened, vacant>>
    BY <1>9 DEF vars
  <2>2. \A j \in 1 .. Len(opened) : Linked(tree, j)' = Linked(tree, j)
    BY <2>1 DEF Linked, Held
  <2>3. Held(Len(opened))' = Held(Len(opened)) /\ NamesNothing(tree, path)' = NamesNothing(tree, path)
    BY <2>1 DEF Held
  <2> QED
    BY <2>1, <2>2, <2>3 DEF AbsenceInv, AbsentWasAbsent
<1> QED
  BY <1>1, <1>2, <1>3, <1>4, <1>5, <1>6, <1>7, <1>8, <1>9 DEF Next, Walk, Done

\* An observation of absence, which settles intents and reconciles requests (_observe), is
\* never wrong: at some moment of the call the path did name nothing, in every tree and
\* whatever somebody does to it between two steps of either walk.
THEOREM AbsenceIsTrue == Spec => []AbsentWasAbsent
<1>1. Init => AbsenceInv
  BY DEF Init, AbsenceInv, AbsentWasAbsent
<1>2. IInv /\ IInv' /\ AbsenceInv /\ [Next]_vars => AbsenceInv'
  BY AbsenceStep
<1>3. AbsenceInv => AbsentWasAbsent
  BY DEF AbsenceInv
<1> QED
  BY <1>1, <1>2, <1>3, Invariance, PTL DEF Spec

-----------------------------------------------------------------------------
(* The compare-and-swap on one file, by any number of actors.              *)

\* what each stage of an operation says of its own variables
Booked(o) ==
    /\ stage[o] = "idle" <=> seen[o] = Unset
    /\ stage[o] = "idle" <=> want[o] = Unset
    /\ stage[o] \in {"idle", "observed"} => tmp[o] = Absent
    /\ stage[o] = "checked" => want[o] = Absent /\ tmp[o] = Absent
    /\ stage[o] = "written" => want[o] # Absent /\ tmp[o] = want[o]
    /\ stage[o] = "exchanged" => want[o] # Absent
    /\ stage[o] = "claimed" => want[o] = Absent
    /\ stage[o] \in {"idle", "observed", "checked", "written", "undone"} => o \notin applied \cup blind
    /\ stage[o] \notin {"done", "lost"} => reply[o] = "none"
    /\ stage[o] \in {"exchanged", "claimed"} =>
          /\ seen[o] \in Content /\ tmp[o] # Absent
          /\ o \in applied <=> Displaced(o)
          /\ o \in blind <=> ~Inspectable(o)

\* the private name of an operation keeps what is not the operation's to destroy
Holds(o) ==
    \/ stage[o] \in {"exchanged", "claimed"} /\ ~Displaced(o)
    \/ stage[o] \in {"done", "lost"}

\* what the name should hold is kept under a private name, or it is what the name holds, and
\* not because an operation that is to be undone has put the same there
Kept ==
    truth # Absent /\ ~taken =>
        \/ \E o \in Op : Holds(o) /\ tmp[o] = truth
        \/ owner \notin Undoing /\ leaf = truth

\* as long as nobody comes between, one swap at a time is to be undone, and it stands
UndoIsAlone ==
    ~disturbed => \A o \in Undoing : leaf = want[o] /\ \A q \in Undoing : q = o

CasInv == CTypeOK /\ (\A o \in Op : Booked(o)) /\ UndoIsAlone /\ Kept

\* A step of one operation leaves what belongs to the others alone.
LEMMA OwnStep ==
    ASSUME CTypeOK, NEW o \in Op, Step(o)
    PROVE  /\ \A q \in Op \ {o} :
                 /\ tmp'[q] = tmp[q] /\ stage'[q] = stage[q] /\ want'[q] = want[q]
                 /\ seen'[q] = seen[q] /\ reply'[q] = reply[q]
                 /\ (q \in applied' <=> q \in applied) /\ (q \in blind' <=> q \in blind)
           /\ edits' = edits /\ crashes' = crashes
<1> USE DEF CTypeOK, Step, Observe, RefuseLink, Begin, Put, Overwrite, Place, Take, Exchange, Keep,
        Raise, Undo, Discard, RefuseDelete, Claim, Restore, Swap, Drop, Applies, Refuse, Finish,
        given, name, bounded
<1>1. \A q \in Op \ {o} : tmp'[q] = tmp[q]
  OBVIOUS
<1>2. \A q \in Op \ {o} : stage'[q] = stage[q]
  OBVIOUS
<1>3. \A q \in Op \ {o} : want'[q] = want[q] /\ seen'[q] = seen[q]
  OBVIOUS
<1>4. \A q \in Op \ {o} : reply'[q] = reply[q]
  OBVIOUS
<1>5. \A q \in Op \ {o} : q \in applied' <=> q \in applied
  OBVIOUS
<1>6. \A q \in Op \ {o} : q \in blind' <=> q \in blind
  OBVIOUS
<1>7. edits' = edits /\ crashes' = crashes
  OBVIOUS
<1> QED
  BY <1>1, <1>2, <1>3, <1>4, <1>5, <1>6, <1>7

\* Hence the others are where they were.
LEMMA OthersStay ==
    ASSUME CTypeOK, NEW o \in Op, Step(o), NEW q \in Op \ {o}
    PROVE  /\ Booked(q) => Booked(q)'
           /\ Holds(q) => Holds(q)' /\ tmp'[q] = tmp[q]
           /\ q \in Undoing <=> q \in Undoing'
<1> DEFINE P(x) == /\ tmp'[x] = tmp[x] /\ stage'[x] = stage[x] /\ want'[x] = want[x]
                   /\ seen'[x] = seen[x] /\ reply'[x] = reply[x]
                   /\ (x \in applied' <=> x \in applied) /\ (x \in blind' <=> x \in blind)
<1>1. P(q)
  BY OwnStep
<1>2. (Displaced(q) <=> Displaced(q)') /\ (Inspectable(q) <=> Inspectable(q)')
  BY <1>1 DEF Displaced, Inspectable
<1> QED
  BY <1>1, <1>2 DEF Booked, Holds, Undoing

\* Stages, and the types, of a step.
LEMMA TypeStep ==
    ASSUME CTypeOK, \A o \in Op : Booked(o), [CNext]_cvars
    PROVE  CTypeOK'
<1> USE CasAssumption
<1>b. taken' \in BOOLEAN /\ disturbed' \in BOOLEAN
  <2>1. ASSUME NEW o \in Op, Step(o) PROVE taken' \in BOOLEAN /\ disturbed' \in BOOLEAN
    BY <2>1 DEF Step, Observe, RefuseLink, Begin, Put, Overwrite, Place, Take, Exchange, Keep,
       Raise, Undo, Discard, RefuseDelete, Claim, Restore, Applies, Entitled, Touches, Refuse, name, CTypeOK
  <2> QED
    BY <2>1 DEF CNext, Crash, Edit, Entitled, Touches, cvars, CTypeOK
<1>1. ASSUME NEW o \in Op, Step(o) PROVE CTypeOK'
  <2> USE <1>b DEF CTypeOK, Finish, Refuse, Applies, Entitled, Swap, Drop, given, name, bounded,
          States, PC, Booked
  <2>1. CASE Observe(o) BY <2>1 DEF Observe
  <2>2. CASE RefuseLink(o) BY <2>2 DEF RefuseLink
  <2>3. CASE Begin(o) BY <2>3 DEF Begin
  <2>4. CASE Overwrite(o) BY <2>4 DEF Overwrite, Put
  <2>5. CASE Place(o) BY <2>5 DEF Place, Put
  <2>6. CASE Exchange(o) BY <2>6 DEF Exchange, Take
  <2>7. CASE RefuseDelete(o) BY <2>7 DEF RefuseDelete
  <2>8. CASE Claim(o) BY <2>8 DEF Claim, Take
  <2>9. CASE Keep(o) BY <2>9 DEF Keep
  <2>10. CASE Raise(o) BY <2>10 DEF Raise
  <2>11. CASE Undo(o) BY <2>11 DEF Undo
  <2>12. CASE Discard(o) BY <2>12 DEF Discard
  <2>13. CASE Restore(o) BY <2>13 DEF Restore
  <2> QED
    BY <1>1, <2>1, <2>2, <2>3, <2>4, <2>5, <2>6, <2>7, <2>8, <2>9, <2>10, <2>11, <2>12, <2>13 DEF Step
<1>2. CASE Crash
  <2>1. stage' \in [Op -> PC]
    BY <1>2 DEF Crash, CTypeOK, PC
  <2>2. crashes' \in Nat
    BY <1>2 DEF Crash, CTypeOK
  <2>3. UNCHANGED <<leaf, tmp, want, seen, reply, applied, blind, truth, owner, edits>>
    BY <1>2 DEF Crash, given
  <2> QED
    BY <1>b, <2>1, <2>2, <2>3 DEF CTypeOK
<1>3. ASSUME NEW s \in States, Edit(s) PROVE CTypeOK'
  BY <1>b, <1>3 DEF Edit, CTypeOK, Entitled, given
<1>4. CASE UNCHANGED cvars
  BY <1>4 DEF cvars, CTypeOK
<1> QED
  BY <1>1, <1>2, <1>3, <1>4 DEF CNext

\* The books of an operation are kept by its own steps.
LEMMA BookStep ==
    ASSUME CTypeOK, \A o \in Op : Booked(o), [CNext]_cvars
    PROVE  \A o \in Op : Booked(o)'
<1> USE CasAssumption
<1>1. ASSUME NEW o \in Op, Step(o) PROVE Booked(o)'
  <2> USE DEF CTypeOK, Finish, Refuse, Applies, Swap, Drop, given, name, bounded, States, Opaque, PC,
          Booked, Displaced, Inspectable
  <2>1. CASE Observe(o) BY <2>1 DEF Observe
  <2>2. CASE RefuseLink(o) BY <2>2 DEF RefuseLink
  <2>3. CASE Begin(o) BY <2>3 DEF Begin
  <2>4. CASE Overwrite(o) BY <2>4 DEF Overwrite, Put
  <2>5. CASE Place(o) BY <2>5 DEF Place, Put
  <2>6. CASE Exchange(o) BY <2>6 DEF Exchange, Take
  <2>7. CASE RefuseDelete(o) BY <2>7 DEF RefuseDelete
  <2>8. CASE Claim(o) BY <2>8 DEF Claim, Take
  <2>9. CASE Keep(o) BY <2>9 DEF Keep
  <2>10. CASE Raise(o) BY <2>10 DEF Raise
  <2>11. CASE Undo(o) BY <2>11 DEF Undo, Undoing
  <2>12. CASE Discard(o) BY <2>12 DEF Discard
  <2>13. CASE Restore(o) BY <2>13 DEF Restore, Undoing
  <2> QED
    BY <1>1, <2>1, <2>2, <2>3, <2>4, <2>5, <2>6, <2>7, <2>8, <2>9, <2>10, <2>11, <2>12, <2>13 DEF Step
<1>2. ASSUME NEW o \in Op, Step(o), NEW q \in Op \ {o} PROVE Booked(q)'
  BY <1>2, OthersStay
<1>3. ASSUME NEW o \in Op, Crash PROVE Booked(o)'
  BY <1>3 DEF Crash, Booked, Displaced, Inspectable, CTypeOK, PC, given
<1>4. ASSUME NEW s \in States, Edit(s), NEW o \in Op PROVE Booked(o)'
  BY <1>4 DEF Edit, Booked, Displaced, Inspectable, given
<1>5. ASSUME NEW o \in Op, UNCHANGED cvars PROVE Booked(o)'
  BY <1>5 DEF cvars, Booked, Displaced, Inspectable
<1> QED
  BY <1>1, <1>2, <1>3, <1>4, <1>5 DEF CNext

\* A step either leaves the name alone, and then begins no undoing, or touches it.
LEMMA TouchStep ==
    ASSUME CTypeOK, \A o \in Op : Booked(o), NEW o \in Op, Step(o)
    PROVE  \/ UNCHANGED name /\ o \notin Undoing /\ o \notin Undoing'
           \/ Touches(o) /\ (o \in Undoing' => leaf' = want'[o] /\ o \notin Undoing)
<1> USE CasAssumption DEF CTypeOK, Finish, Refuse, Swap, Drop, given, bounded, Undoing, Booked
<1>1. CASE Observe(o) BY <1>1 DEF Observe
<1>2. CASE RefuseLink(o) BY <1>2 DEF RefuseLink
<1>3. CASE Begin(o) BY <1>3 DEF Begin
<1>4. CASE Overwrite(o) BY <1>4 DEF Overwrite, Put
<1>5. CASE Place(o) BY <1>5 DEF Place, Put
<1>6. CASE Exchange(o) BY <1>6 DEF Exchange, Take
<1>7. CASE RefuseDelete(o) BY <1>7 DEF RefuseDelete
<1>8. CASE Claim(o) BY <1>8 DEF Claim, Take
<1>9. CASE Keep(o) BY <1>9 DEF Keep
<1>10. CASE Raise(o) BY <1>10 DEF Raise
<1>11. CASE Undo(o) BY <1>11 DEF Undo
<1>12. CASE Discard(o) BY <1>12 DEF Discard
<1>13. CASE Restore(o) BY <1>13 DEF Restore
<1> QED
  BY <1>1, <1>2, <1>3, <1>4, <1>5, <1>6, <1>7, <1>8, <1>9, <1>10, <1>11, <1>12, <1>13 DEF Step

\* Undisturbed, the swap to be undone is the only one, and stands.
LEMMA UndoStep ==
    ASSUME CTypeOK, \A o \in Op : Booked(o), UndoIsAlone, [CNext]_cvars
    PROVE  UndoIsAlone'
<1> USE CasAssumption
<1> SUFFICES ASSUME ~disturbed', NEW p \in Undoing', NEW q \in Undoing'
             PROVE  leaf' = want'[p] /\ q = p
  BY DEF UndoIsAlone
<1>p. p \in Op /\ q \in Op
  BY DEF Undoing
<1>1. ASSUME NEW o \in Op, Step(o) PROVE leaf' = want'[p] /\ q = p
  <2>1. \A x \in Op \ {o} : (x \in Undoing <=> x \in Undoing') /\ want'[x] = want[x]
    BY <1>1, OthersStay, OwnStep
  <2>2. CASE UNCHANGED name /\ o \notin Undoing /\ o \notin Undoing'
    <3>1. p # o /\ q # o /\ p \in Undoing /\ q \in Undoing /\ leaf' = leaf /\ ~disturbed /\ want'[p] = want[p]
      BY <1>p, <2>1, <2>2 DEF name
    <3> QED
      BY <3>1 DEF UndoIsAlone
  <2>3. CASE Touches(o) /\ (o \in Undoing' => leaf' = want'[o] /\ o \notin Undoing)
    <3>1. Undoing \ {o} = {}
      BY <2>3 DEF Touches
    <3>2. p = o /\ q = o
      BY <1>p, <2>1, <3>1
    <3> QED
      BY <2>3, <3>2
  <2> QED
    BY <1>1, <2>2, <2>3, TouchStep
<1>2. CASE Crash
  BY <1>2 DEF Crash, Undoing, CTypeOK
<1>3. ASSUME NEW s \in States, Edit(s) PROVE FALSE
  <2>1. Undoing' = Undoing /\ Unset \notin Undoing
    BY <1>3 DEF Edit, Undoing, Displaced, Inspectable, given
  <2> QED
    BY <1>3, <2>1 DEF Edit, Touches
<1>4. CASE UNCHANGED cvars
  <2>1. Undoing' = Undoing
    BY <1>4 DEF cvars, Undoing, Displaced, Inspectable
  <2> QED
    BY <1>4, <2>1 DEF UndoIsAlone, cvars
<1> QED
  BY <1>1, <1>2, <1>3, <1>4 DEF CNext

\* A step that leaves alone what its operation holds, and the name, leaves everything kept.
LEMMA KeptStays ==
    ASSUME CTypeOK, Kept, NEW o \in Op, Step(o),
           truth' = truth, taken' = taken, owner' = owner, leaf' = leaf, o \notin Undoing',
           Holds(o) => Holds(o)' /\ tmp'[o] = tmp[o]
    PROVE  Kept'
<1>1. \A q \in Op : Holds(q) => Holds(q)' /\ tmp'[q] = tmp[q]
  BY OthersStay
<1>2. owner \notin Undoing => owner' \notin Undoing'
  BY OthersStay DEF Undoing
<1> QED
  BY <1>1, <1>2 DEF Kept

\* The operation that takes the present file holds it, or has taken effect.
LEMMA TakeKeeps ==
    ASSUME CTypeOK, \A o \in Op : Booked(o), Kept, NEW o \in Op, Step(o),
           NEW how \in {"exchanged", "claimed"}, NEW by \in {o, Unset}, NEW hidden, Take(o, how, by, hidden),
           stage[o] \in {"checked", "written"}
    PROVE  Kept'
<1> USE CasAssumption
<1>1. leaf' = want[o] /\ tmp'[o] = leaf /\ stage'[o] = how /\ seen'[o] = seen[o] /\ owner' = by
  BY DEF Take, Swap, CTypeOK, Booked, given
<1>2. CASE leaf = seen[o]
  <2>1. truth' = leaf'
    BY <1>1, <1>2 DEF Take, Applies, Entitled
  <2>2. owner' \notin Undoing'
    BY <1>1, <1>2 DEF Undoing, Displaced
  <2> QED
    BY <2>1, <2>2 DEF Kept
<1>3. CASE leaf # seen[o]
  <2>1. truth' = truth /\ taken' = taken
    BY <1>3 DEF Take
  <2>2. Holds(o)' /\ ~Holds(o)
    BY <1>1, <1>3 DEF Holds, Displaced
  <2>3. \A q \in Op \ {o} : Holds(q) => Holds(q)' /\ tmp'[q] = tmp[q]
    BY OthersStay
  <2> QED
    BY <1>1, <2>1, <2>2, <2>3 DEF Kept
<1> QED
  BY <1>2, <1>3

\* What the name should hold stays kept, but for an undo that takes it away.
LEMMA KeptStep ==
    ASSUME CTypeOK, \A o \in Op : Booked(o), Kept, [CNext]_cvars
    PROVE  Kept'
<1> USE CasAssumption
<1>1. ASSUME NEW o \in Op, Step(o) PROVE Kept'
  <2>1. CASE Observe(o) \/ RefuseLink(o) \/ Begin(o) \/ RefuseDelete(o)
    <3>1. truth' = truth /\ taken' = taken /\ owner' = owner /\ leaf' = leaf
      BY <2>1 DEF Observe, RefuseLink, Begin, RefuseDelete, Refuse, name
    <3>2. ~Holds(o) /\ o \notin Undoing'
      BY <2>1 DEF Observe, RefuseLink, Begin, RefuseDelete, Refuse, Finish, Holds, Undoing, CTypeOK
    <3> QED
      BY <1>1, <3>1, <3>2, KeptStays
  <2>2. ASSUME Put(o), stage[o] = "written" PROVE Kept'
    <3>1. truth' = leaf' /\ owner' = o
      BY <2>2 DEF Put, Applies, Entitled, Booked
    <3>2. o \notin Undoing'
      BY <2>2 DEF Put, Finish, Undoing, CTypeOK
    <3> QED
      BY <3>1, <3>2 DEF Kept
  <2>3. ASSUME Refuse(o), stage[o] \in {"written", "undone"} PROVE Kept'
    <3>1. ~Holds(o) /\ o \notin Undoing'
      BY <2>3 DEF Refuse, Finish, Holds, Undoing, CTypeOK
    <3> QED
      BY <1>1, <2>3, <3>1, KeptStays DEF Refuse, name
  <2>4. CASE Overwrite(o) \/ Place(o)
    BY <2>2, <2>3, <2>4 DEF Overwrite, Place
  <2>5. CASE Exchange(o)
    BY <1>1, <2>3, <2>5, TakeKeeps DEF Exchange
  <2>6. CASE Claim(o)
    BY <1>1, <2>6, TakeKeeps DEF Claim
  <2>7. CASE Keep(o)
    <3>1. ~Holds(o) /\ o \notin Undoing'
      BY <2>7 DEF Keep, Finish, Holds, Undoing, CTypeOK
    <3> QED
      BY <1>1, <2>7, <3>1, KeptStays DEF Keep, name
  <2>8. CASE Raise(o)
    <3>1. Holds(o)' /\ tmp'[o] = tmp[o] /\ o \notin Undoing'
      BY <2>8 DEF Raise, Finish, Holds, Undoing, CTypeOK
    <3> QED
      BY <1>1, <2>8, <3>1, KeptStays DEF Raise, name
  <2>9. CASE Discard(o)
    BY <2>3, <2>9 DEF Discard
  <2>10. \A q \in Op \ {o} : Holds(q) => Holds(q)' /\ tmp'[q] = tmp[q]
    BY <1>1, OthersStay
  \* the file is under its name again
  <2>11. ASSUME leaf' = tmp[o], owner' = Unset, truth' = truth, taken' => TRUE,
                truth # Absent /\ ~taken' => ~taken /\ ~(owner \notin Undoing /\ leaf = truth)
         PROVE  Kept'
    <3>1. Unset \notin Undoing'
      BY DEF Undoing
    <3> QED
      BY <2>10, <2>11, <3>1 DEF Kept
  <2>12. CASE Undo(o)
    <3>1. CASE leaf # Absent
      BY <2>11, <2>12, <3>1 DEF Undo, Swap
    <3>2. CASE leaf = Absent
      <4>1. Holds(o)' /\ tmp'[o] = tmp[o] /\ o \notin Undoing'
        BY <2>12, <3>2 DEF Undo, Finish, Holds, Undoing, CTypeOK
      <4> QED
        BY <1>1, <2>12, <3>2, <4>1, <2>10 DEF Undo, Kept
    <3> QED
      BY <3>1, <3>2
  <2>13. CASE Restore(o)
    <3>1. CASE leaf = Absent
      BY <2>11, <2>13, <3>1 DEF Restore
    <3>2. CASE leaf # Absent
      <4>1. Holds(o)' /\ tmp'[o] = tmp[o] /\ o \notin Undoing'
        BY <2>13, <3>2 DEF Restore, Finish, Holds, Undoing, CTypeOK
      <4> QED
        BY <1>1, <2>13, <3>2, <4>1, KeptStays DEF Restore
    <3> QED
      BY <3>1, <3>2
  <2> QED
    BY <1>1, <2>1, <2>4, <2>5, <2>6, <2>7, <2>8, <2>9, <2>12, <2>13 DEF Step
<1>2. CASE Crash
  <2>1. \A o \in Op : Holds(o) => Holds(o)' /\ tmp'[o] = tmp[o]
    BY <1>2 DEF Crash, Holds, Displaced, CTypeOK, given
  <2>2. Undoing' = {}
    BY <1>2 DEF Crash, Undoing, CTypeOK
  <2> QED
    BY <1>2, <2>1, <2>2 DEF Crash, Kept
<1>3. ASSUME NEW s \in States, Edit(s) PROVE Kept'
  <2>1. Unset \notin Undoing'
    BY DEF Undoing
  <2> QED
    BY <1>3, <2>1 DEF Edit, Entitled, Kept
<1>4. CASE UNCHANGED cvars
  BY <1>4 DEF cvars, Kept, Holds, Undoing, Displaced, Inspectable
<1> QED
  BY <1>1, <1>2, <1>3, <1>4 DEF CNext

\* Before the first request nothing is displaced.
LEMMA CasStart == CInit => CasInv
<1> SUFFICES ASSUME CInit PROVE CasInv
  OBVIOUS
<1> USE CasAssumption
<1>1. CTypeOK
  BY DEF CInit, CTypeOK, States, PC
<1>2. Undoing = {}
  BY DEF CInit, Undoing
<1>3. \A o \in Op : Booked(o)
  BY DEF CInit, Booked
<1>4. UndoIsAlone /\ Kept
  BY <1>2 DEF CInit, UndoIsAlone, Kept
<1> QED
  BY <1>1, <1>3, <1>4 DEF CasInv

\* The inductive invariant of the compare-and-swap holds in every reachable state, however
\* many operations and processes are at work on the file.
THEOREM CasInvariance == CSpec => []CasInv
<1>1. CasInv /\ [CNext]_cvars => CasInv'
  BY TypeStep, BookStep, UndoStep, KeptStep DEF CasInv
<1> QED
  BY <1>1, CasStart, PTL DEF CSpec

\* A content nobody was entitled to replace is under the name or under a private name in
\* every state, also after an inspection that raises and a death between two system calls
\* (_cas_replace, _cas_delete), unless an undo took it away from under a further actor.
THEOREM NothingIsLost == CSpec => []NothingLost
<1>1. CasInv => NothingLost
  BY DEF CasInv, Kept, NothingLost
<1> QED
  BY <1>1, CasInvariance, PTL

\* what an operation reported is what it did, and one that was not answered has not reported
RepliesAreTrue ==
    \A o \in Op :
        /\ reply[o] = "success" => o \in applied \ blind
        /\ reply[o] = "refused" => o \notin applied \cup blind
        /\ reply[o] = "failed" => o \in blind \ applied
        /\ stage[o] = "done" <=> reply[o] # "none"

\* However many actors are at work, an operation that reports success has displaced what it
\* observed, one that reports a refusal has not, and an inspection that raised is reported as
\* a failure (_cas_replace, _cas_delete): what a third actor breaks is the undoing, not the
\* answer.
THEOREM RepliesAreTrueForAll == CSpec => []RepliesAreTrue
<1> USE CasAssumption
<1> DEFINE Inv == CTypeOK /\ (\A o \in Op : Booked(o)) /\ RepliesAreTrue
<1>1. CInit => Inv
  <2>1. CInit => CTypeOK /\ \A o \in Op : Booked(o)
    BY CasStart DEF CasInv
  <2>2. CInit => RepliesAreTrue
    BY DEF CInit, RepliesAreTrue
  <2> QED
    BY <2>1, <2>2
<1>2. Inv /\ [CNext]_cvars => Inv'
  <2> SUFFICES ASSUME Inv, [CNext]_cvars PROVE RepliesAreTrue'
    BY TypeStep, BookStep
  <2>1. ASSUME NEW o \in Op, Step(o) PROVE RepliesAreTrue'
    <3>1. ASSUME NEW q \in Op \ {o}
          PROVE  /\ stage'[q] = stage[q] /\ reply'[q] = reply[q]
                 /\ (q \in applied' <=> q \in applied) /\ (q \in blind' <=> q \in blind)
      BY <2>1, OwnStep
    <3>2. /\ reply'[o] = "success" => o \in applied' \ blind'
          /\ reply'[o] = "refused" => o \notin applied' \cup blind'
          /\ reply'[o] = "failed" => o \in blind' \ applied'
          /\ stage'[o] = "done" <=> reply'[o] # "none"
      <4> USE DEF CTypeOK, Finish, Refuse, Applies, Booked, RepliesAreTrue, name, Displaced, Inspectable, Opaque
      <4>1. CASE Observe(o) \/ RefuseLink(o) \/ Begin(o)
        BY <4>1 DEF Observe, RefuseLink, Begin
      <4>2. CASE Overwrite(o) \/ Place(o)
        BY <4>2 DEF Overwrite, Place, Put
      <4>3. CASE Exchange(o) \/ Claim(o)
        BY <4>3 DEF Exchange, Claim, Take
      <4>4. CASE Keep(o) \/ Raise(o)
        BY <4>4 DEF Keep, Raise
      <4>5. CASE Undo(o) \/ Restore(o)
        BY <4>5 DEF Undo, Restore, Undoing
      <4>6. CASE Discard(o) \/ RefuseDelete(o)
        BY <4>6 DEF Discard, RefuseDelete
      <4> QED
        BY <2>1, <4>1, <4>2, <4>3, <4>4, <4>5, <4>6 DEF Step
    <3> QED
      BY <3>1, <3>2 DEF RepliesAreTrue
  <2>2. CASE Crash
    BY <2>2 DEF Crash, RepliesAreTrue, Booked, CTypeOK
  <2>3. ASSUME NEW s \in States, Edit(s) PROVE RepliesAreTrue'
    BY <2>3 DEF Edit, RepliesAreTrue
  <2>4. CASE UNCHANGED cvars
    BY <2>4 DEF cvars, RepliesAreTrue
  <2> QED
    BY <2>1, <2>2, <2>3, <2>4 DEF CNext
<1>3. Inv => RepliesAreTrue
  OBVIOUS
<1> QED
  BY <1>1, <1>2, <1>3, PTL DEF CSpec

-----------------------------------------------------------------------------

\* When one swap at most is to be undone, what is shown is what it displaced.
LEMMA ShownIs ==
    /\ Undoing = {} => Shown = leaf
    /\ \A o : Undoing = {o} => Shown = tmp[o]
<1>1. \A o : Undoing = {o} => (CHOOSE q \in Undoing : TRUE) = o
  OBVIOUS
<1> QED
  BY <1>1 DEF Shown

\* The same after a step.
LEMMA ShownIsNext ==
    /\ Undoing' = {} => Shown' = leaf'
    /\ \A o : Undoing' = {o} => Shown' = tmp'[o]
<1>1. \A o : Undoing' = {o} => (CHOOSE q \in Undoing' : TRUE) = o
  OBVIOUS
<1> QED
  BY <1>1 DEF Shown

\* The first state is one of the atomic compare-and-swap.
LEMMA CasRefinesInit == CInit => Cas!AInit
<1> SUFFICES ASSUME CInit PROVE Cas!AInit
  OBVIOUS
<1>1. Undoing = {}
  BY DEF CInit, Undoing
<1>2. Shown = leaf /\ edits + crashes = 0
  BY <1>1, ShownIs DEF CInit
<1> QED
  BY <1>2 DEF CInit, Cas!AInit, States, Cas!States

\* Undisturbed, every system call of an operation is a step of the atomic one, or none: an
\* exchange or a claim of what was recorded is where it takes effect, one of something else
\* and its undoing are not seen, one of what cannot be inspected stands, the last call reports.
LEMMA CasRefinesStep ==
    ASSUME CasInv, CasInv', NEW o \in Op, Step(o), ~disturbed, ~disturbed'
    PROVE  Cas!ANext \/ UNCHANGED Cas!avars
<1> USE CasAssumption
<1>0. /\ CTypeOK /\ (\A q \in Op : Booked(q)) /\ CTypeOK'
      /\ \A p \in Undoing : p \in Op /\ leaf = want[p] /\ \A q \in Undoing : q = p
      /\ edits' + crashes' = edits + crashes
  BY OwnStep DEF CasInv, UndoIsAlone, Undoing
<1>q. \A q \in Op \ {o} : (q \in Undoing <=> q \in Undoing') /\ tmp'[q] = tmp[q]
  BY <1>0, OthersStay, OwnStep
<1>u. Undoing \subseteq Op /\ Undoing' \subseteq Op
  BY DEF Undoing
\* who touches the name finds nothing to be undone, but perhaps what it displaced itself
<1>t. ASSUME Touches(o), o \notin Undoing
      PROVE  Undoing = {} /\ Undoing' \subseteq {o} /\ Shown = leaf
  <2>1. Undoing = {}
    BY <1>t, <1>q, <1>u DEF Touches
  <2> QED
    BY <1>q, <1>u, <2>1, ShownIs
\* who leaves it alone does not change what is shown
<1>n. ASSUME UNCHANGED leaf, o \notin Undoing, o \notin Undoing'
      PROVE  Shown' = Shown
  <2>1. Undoing' = Undoing
    BY <1>n, <1>q, <1>u
  <2>2. CASE Undoing = {}
    BY <1>n, <2>1, <2>2, ShownIs, ShownIsNext
  <2>3. ASSUME NEW q \in Undoing PROVE Shown' = Shown
    <3>1. Undoing = {q} /\ q \in Op \ {o}
      BY <1>0, <1>n, <1>u, <2>3
    <3> QED
      BY <1>q, <2>1, <3>1, ShownIs, ShownIsNext
  <2> QED
    BY <2>2, <2>3
<1>r. ASSUME NEW how \in {"success", "refused", "failed"}, Shown' = Shown, Finish(o, how),
             stage[o] \notin {"done", "lost", "idle"},
             how = "success" <=> o \in applied, how = "failed" <=> o \in blind,
             UNCHANGED <<want, seen, applied, blind>>
      PROVE  Cas!ANext
  <2>1. reply[o] = "none" /\ seen[o] # Unset
    BY <1>0, <1>r DEF Booked
  <2>2. Cas!AReport(o)
    BY <1>0, <1>r, <2>1 DEF Cas!AReport, Finish
  <2> QED
    BY <2>2 DEF Cas!ANext
<1>s1. CASE Observe(o)
  <2>1. o \notin Undoing /\ o \notin Undoing' /\ Touches(o)
    BY <1>0, <1>s1 DEF Observe, Undoing, CTypeOK
  <2>2. Shown' = Shown /\ Shown = leaf
    BY <1>n, <1>s1, <1>t, <2>1 DEF Observe
  <2>3. seen[o] = Unset
    BY <1>0, <1>s1 DEF Observe, Booked
  <2>4. Cas!AObserve(o)
    BY <1>0, <1>s1, <2>2, <2>3 DEF Observe, Cas!AObserve
  <2> QED
    BY <2>4 DEF Cas!ANext
<1>s2. CASE Begin(o)
  <2>1. o \notin Undoing /\ o \notin Undoing'
    BY <1>0, <1>s2 DEF Begin, Undoing, CTypeOK
  <2>2. Shown' = Shown
    BY <1>n, <1>s2, <2>1 DEF Begin, name
  <2> QED
    BY <1>0, <1>s2, <2>2 DEF Begin, name, given, Cas!avars
\* an error before anything is done
<1>s3. ASSUME Refuse(o), stage[o] \in {"observed", "checked", "written", "undone"} PROVE Cas!ANext
  <2>1. o \notin Undoing /\ o \notin Undoing' /\ o \notin applied \cup blind
    BY <1>0, <1>s3 DEF Refuse, Finish, Undoing, CTypeOK, Booked
  <2>2. Shown' = Shown
    BY <1>n, <1>s3, <2>1 DEF Refuse, name
  <2> QED
    BY <1>r, <1>s3, <2>1, <2>2 DEF Refuse, name, given
<1>s4. ASSUME Put(o), stage[o] = "written", seen[o] \in {leaf, AnyState} PROVE Cas!ANext
  <2>1. o \notin Undoing /\ o \notin Undoing' /\ Touches(o)
    BY <1>0, <1>s4 DEF Put, Finish, Undoing, CTypeOK
  <2>2. Shown = leaf /\ Shown' = leaf'
    BY <1>t, <2>1, ShownIsNext
  <2>3. Cas!AApplyAndReport(o)
    BY <1>0, <1>s4, <2>2 DEF Put, Applies, Finish, Booked, given, Cas!AApplyAndReport, Cas!Matches, Cas!Effect
  <2> QED
    BY <2>3 DEF Cas!ANext
<1>s5. CASE Overwrite(o) \/ Place(o)
  BY <1>s3, <1>s4, <1>s5 DEF Overwrite, Place
\* an exchange or a claim: it takes effect, is to be undone, or stands unseen
<1>s6. ASSUME NEW how \in {"exchanged", "claimed"}, NEW by,
              Take(o, how, by, IF how = "claimed" THEN {Sealed} ELSE Opaque),
              stage[o] \in {"checked", "written"}, seen[o] \in Content
       PROVE  Cas!ANext \/ UNCHANGED Cas!avars
  <2>1. /\ o \notin Undoing /\ Touches(o) /\ leaf' = want[o] /\ tmp'[o] = leaf
        /\ stage'[o] = how /\ o \notin applied \cup blind /\ reply[o] = "none"
        /\ UNCHANGED <<want, seen, reply>>
    BY <1>0, <1>s6 DEF Take, Swap, Undoing, CTypeOK, Booked, given
  <2>2. Shown = leaf /\ Undoing' \subseteq {o}
    BY <1>t, <2>1
  <2>3. o \in Undoing' <=> leaf # seen[o] /\ leaf \notin (IF how = "claimed" THEN {Sealed} ELSE Opaque)
    BY <1>s6, <2>1 DEF Undoing, Displaced, Inspectable
  <2>4. CASE leaf = seen[o]
    <3>1. Shown' = want[o]
      BY <2>1, <2>2, <2>3, <2>4, ShownIsNext
    <3>2. leaf \notin Opaque /\ blind' = blind /\ applied' = applied \cup {o}
      BY <1>s6, <2>4 DEF Take, Applies, Opaque
    <3>3. Cas!AApply(o)
      BY <1>0, <2>1, <2>2, <2>4, <3>1, <3>2 DEF Cas!AApply, Cas!Matches, Cas!Effect
    <3> QED
      BY <3>3 DEF Cas!ANext
  <2>5. CASE leaf # seen[o] /\ o \in Undoing'
    <3>1. Undoing' = {o}
      BY <2>2, <2>5
    <3>2. Shown' = leaf
      BY <2>1, <3>1, ShownIsNext
    <3>3. applied' = applied /\ blind' = blind
      BY <1>s6, <2>3, <2>5 DEF Take
    <3> QED
      BY <1>0, <2>1, <2>2, <3>2, <3>3 DEF Cas!avars
  <2>6. CASE leaf # seen[o] /\ o \notin Undoing'
    <3>1. Shown' = want[o]
      BY <2>1, <2>2, <2>6, ShownIsNext
    <3>2. leaf \in Opaque /\ blind' = blind \cup {o} /\ applied' = applied
      BY <1>s6, <2>3, <2>6 DEF Take, Opaque
    <3>3. Cas!ABlind(o)
      BY <1>0, <1>s6, <2>1, <2>2, <3>1, <3>2 DEF Cas!ABlind, Cas!Effect
    <3> QED
      BY <3>3 DEF Cas!ANext
  <2> QED
    BY <2>4, <2>5, <2>6
<1>s7. CASE Exchange(o)
  <2>1. CASE Take(o, "exchanged", o, Opaque)
    BY <1>s6, <1>s7, <2>1 DEF Exchange
  <2> QED
    BY <1>s3, <1>s7, <2>1 DEF Exchange
<1>s8. CASE Claim(o)
  BY <1>s6, <1>s8 DEF Claim
<1>s9. CASE Keep(o) \/ Raise(o)
  <2>1. o \notin Undoing /\ o \notin Undoing' /\ UNCHANGED leaf
    BY <1>0, <1>s9 DEF Keep, Raise, Finish, Undoing, CTypeOK, name
  <2>2. Shown' = Shown
    BY <1>n, <2>1
  <2>3. CASE Keep(o)
    <3>1. o \in applied /\ o \notin blind
      BY <1>0, <2>3 DEF Keep, Booked
    <3> QED
      BY <1>r, <2>2, <2>3, <3>1 DEF Keep, name, given
  <2>4. CASE Raise(o)
    <3>1. o \in blind /\ o \notin applied
      BY <1>0, <2>4 DEF Raise, Booked, Inspectable, Displaced, Opaque
    <3> QED
      BY <1>r, <2>2, <2>4, <3>1 DEF Raise, name, given
  <2> QED
    BY <1>s9, <2>3, <2>4
<1>s10. CASE RefuseLink(o) \/ Discard(o) \/ RefuseDelete(o)
  BY <1>s3, <1>s10 DEF RefuseLink, Discard, RefuseDelete
\* what was displaced is put back: what is shown has been there all the time
<1>b. ASSUME o \in Undoing, o \notin Undoing', leaf' = tmp[o]
      PROVE  Shown' = Shown
  <2>1. Undoing = {o} /\ Undoing' = {}
    BY <1>0, <1>b, <1>q, <1>u
  <2> QED
    BY <1>b, <2>1, ShownIs, ShownIsNext
<1>s11. CASE Undo(o)
  <2>1. o \in Undoing /\ leaf # Absent
    BY <1>0, <1>s11 DEF Undo, Booked
  <2>2. o \notin Undoing' /\ leaf' = tmp[o]
    BY <1>0, <1>s11, <2>1 DEF Undo, Swap, Undoing, CTypeOK
  <2> QED
    BY <1>0, <1>b, <1>s11, <2>1, <2>2 DEF Undo, given, Cas!avars
<1>s12. CASE Restore(o)
  <2>1. o \in Undoing /\ leaf = Absent
    BY <1>0, <1>s12 DEF Restore, Booked
  <2>2. o \notin Undoing' /\ leaf' = tmp[o]
    BY <1>0, <1>s12, <2>1 DEF Restore, Finish, Undoing, CTypeOK
  <2>3. o \notin applied \cup blind
    BY <1>0, <1>s12 DEF Restore, Booked, Undoing
  <2> QED
    BY <1>b, <1>r, <1>s12, <2>1, <2>2, <2>3 DEF Restore, given
<1> QED
  BY <1>s1, <1>s2, <1>s5, <1>s7, <1>s8, <1>s9, <1>s10, <1>s11, <1>s12 DEF Step

\* So is every other step: an edit, and a death that leaves an undo undone, are somebody else's.
LEMMA CasRefines ==
    ASSUME CasInv, CasInv', [CNext]_cvars
    PROVE  [disturbed \/ disturbed' \/ Cas!ANext]_(Cas!avars)
<1>0. CTypeOK /\ CTypeOK'
  BY DEF CasInv
<1>t. Shown' \in Cas!States
  <2>1. CASE Undoing' = {}
    BY <1>0, <2>1, ShownIsNext DEF CTypeOK, States, Cas!States
  <2>2. ASSUME NEW o \in Undoing' PROVE Shown' \in Cas!States
    <3>1. (CHOOSE q \in Undoing' : TRUE) \in Op
      BY <2>2 DEF Undoing
    <3> QED
      BY <1>0, <2>2, <3>1 DEF Shown, CTypeOK, States, Cas!States
  <2> QED
    BY <2>1, <2>2
<1>1. ASSUME NEW o \in Op, Step(o), ~disturbed, ~disturbed'
      PROVE  Cas!ANext \/ UNCHANGED Cas!avars
  BY <1>1, CasRefinesStep
<1>2. ASSUME Crash \/ (\E s \in States : Edit(s)) PROVE Cas!AForeign
  <2>1. edits' + crashes' = edits + crashes + 1
    <3>1. \/ edits' = edits /\ crashes' = crashes + 1
          \/ edits' = edits + 1 /\ crashes' = crashes
      BY <1>2 DEF Crash, Edit
    <3>2. edits \in Nat /\ crashes \in Nat
      BY <1>0 DEF CTypeOK
    <3> QED
      BY <3>1, <3>2
  <2> QED
    BY <1>2, <1>t, <2>1 DEF Crash, Edit, given, Cas!AForeign
<1>3. ASSUME UNCHANGED cvars PROVE UNCHANGED Cas!avars
  BY <1>3 DEF cvars, Cas!avars, Shown, Undoing, Displaced, Inspectable
<1> QED
  BY <1>1, <1>2, <1>3 DEF CNext, Cas!ANext

\* The system calls of _cas_replace and _cas_delete are together one compare-and-swap (B6,
\* cas_applies_iff), for any number of actors, until one comes between a swap by mistake and
\* its undoing, and again when that is over.
THEOREM CasIsAtomic == CSpec => ImplementsAtomicCas
<1>1. CasInv /\ CasInv' /\ [CNext]_cvars => [disturbed \/ disturbed' \/ Cas!ANext]_(Cas!avars)
  BY CasRefines
<1> QED
  BY <1>1, CasInvariance, CasRefinesInit, PTL DEF CSpec, ImplementsAtomicCas

=============================================================================
