------------------------------- MODULE Resolve -------------------------------
(***************************************************************************)
(* How the broker (darm_guard/broker.py) gets from a path string to a file *)
(* of the workspace: the prefixes it loads, the normal form it asks for,   *)
(* the provenance it assigns, the walk of _open_parent from one directory  *)
(* handle to the next, and what _observe makes of its end, while another   *)
(* process changes the tree at any moment.                                 *)
(*                                                                         *)
(* Abstracted: a path is the sequence of its components below /workspace/, *)
(* a prefix the directories it spells out and what follows the last slash; *)
(* Begins says which name is the start of which. A file's digest is the    *)
(* file. Paths outside /workspace/, refused outright, and exact values of  *)
(* policy and registry are left out. M_ operators are mutated forms of the *)
(* one that follows.                                                       *)
(***************************************************************************)
EXTENDS Integers, Sequences, SequencesExt, FiniteSets

CONSTANTS
    Name,           \* proper file names
    Empty, Up,      \* the components of paths like a//b, and of a/../b
    Begins,         \* pairs of names <<m, n>>: the string m is a proper start of n
    Dir, Root,      \* directories, and the workspace
    Outside,        \* those that are not in the workspace
    FileId,         \* files
    None,
    Tree,           \* the tree at first: what each directory calls each name
    Path,           \* the paths clients ask for
    Prefix,         \* the prefixes a principal may write
    MaxForeign      \* bound: changes of the tree by someone else

Missing == [kind |-> "missing", to |-> None]
Node == [kind : {"dir"}, to : Dir] \cup [kind : {"link"}, to : Dir \cup {None}]
        \cup [kind : {"file"}, to : FileId] \cup {Missing}

ASSUME ResolveAssumption ==
    /\ Empty \notin Name /\ Up \notin Name /\ Empty # Up
    /\ Begins \subseteq Name \X Name
    /\ Outside \subseteq Dir /\ Root \in Dir \ Outside
    /\ None \notin Dir \cup FileId
    /\ Tree \in [Dir -> [Name -> Node]]
    /\ Path \subseteq Seq(Name \cup {Empty, Up}) \ {<<>>}
    /\ Prefix \subseteq [dirs : Seq(Name \cup {Up}), part : Name \cup {Empty}]
    /\ FileId \cap {"none", "refused", "absent", "unavailable"} = {}
    /\ MaxForeign \in Nat

\* files and directories outside the workspace have no name in it but through links
OutsideFiles(t) == {f \in FileId : \E d \in Outside, n \in Name : t[d][n] = [kind |-> "file", to |-> f]}
Separate(t) ==
    \A d \in Dir \ Outside, n \in Name :
        /\ t[d][n].kind = "dir"  => t[d][n].to \notin Outside
        /\ t[d][n].kind = "file" => t[d][n].to \notin OutsideFiles(t)

ASSUME TreeAssumption == Separate(Tree)

VARIABLES
    policy,     \* the prefix of the tool's rule
    pattern,    \* the prefix of the registry
    tree,
    path,
    pc,
    at,         \* the directory handle the walk holds
    left,       \* components still to be opened, or to be examined by _path_problem
    result,     \* what _observe said: "none", "refused", "absent", "unavailable" or a file
    opened,     \* history: names and handles of the walk, in order
    vacant,     \* history: at some moment of the call the path named nothing
    refusedBy,  \* history: what _open_parent refused
    foreign

config == <<policy, pattern>>
vars   == <<config, tree, path, pc, at, left, result, opened, vacant, refusedBy, foreign>>

TypeOK ==
    /\ policy \in Prefix /\ pattern \in Prefix
    /\ tree \in [Dir -> [Name -> Node]] /\ path \in Path
    /\ pc \in {"new", "open", "explain", "leaf", "done"}
    /\ at \in Dir /\ left \in Seq(Name)
    /\ result \in {"none", "refused", "absent", "unavailable"} \cup FileId
    /\ pc = "done" <=> result # "none"
    /\ opened \in Seq(Name \X Dir) /\ vacant \in BOOLEAN
    /\ refusedBy \in {"nothing", "missing", "link", "file"}
    /\ foreign \in Nat

-----------------------------------------------------------------------------
(* Prefixes and provenance.                                                *)

\* _prefix_problem: a prefix ends at a component boundary
M_AnyBoundary(q) == TRUE
AtBoundary(q) == q.part = Empty

\* str.startswith, which the kernel and assign_prov use
StartsWith(p, q) ==
    /\ Len(p) > Len(q.dirs) /\ IsPrefix(q.dirs, p)
    /\ LET next == p[Len(q.dirs) + 1]
       IN  q.part \in {Empty, next} \/ <<q.part, next>> \in Begins

\* path_in_normal_form
M_AnyForm(p) == TRUE
InNormalForm(p) == \A i \in DOMAIN p : p[i] \in Name

\* assign_prov, with no value registered
Prov(p) == IF StartsWith(p, pattern) THEN "derived" ELSE "untrusted"

\* the kernel: the rule's prefix holds and the provenance is good enough
Admits(p) == StartsWith(p, policy) /\ Prov(p) # "untrusted"

-----------------------------------------------------------------------------
(* The file system.                                                        *)

\* one more name of a path, links followed
Enter(t, node, n) ==
    CASE node.kind = "dir"                       -> t[node.to][n]
      [] node.kind = "link" /\ node.to \in Dir   -> t[node.to][n]
      [] node.kind = "link" /\ node.to \notin Dir -> Missing
      [] node.kind = "file"                      -> [kind |-> "notdir", to |-> None]
      [] OTHER                                   -> node

\* what the names of a path come to, one after the other, from the workspace on
Nodes(t, p) ==
    LET node[i \in 0 .. Len(p)] ==
            IF i = 0 THEN [kind |-> "dir", to |-> Root] ELSE Enter(t, node[i - 1], p[i])
    IN  node

\* lstat of a path below the workspace: what its last name is, not followed
Lstat(t, p) == Nodes(t, p)[Len(p)]

NamesNothing(t, p) == InNormalForm(p) /\ Lstat(t, p) = Missing

-----------------------------------------------------------------------------

\* a broker that loaded its configuration (_check_prefixes), about to be asked
Init ==
    /\ policy \in {q \in Prefix : AtBoundary(q)} /\ pattern \in {q \in Prefix : AtBoundary(q)}
    /\ tree = Tree /\ path \in Path
    /\ pc = "new" /\ at = Root /\ left = <<>> /\ result = "none"
    /\ opened = <<>> /\ vacant = FALSE /\ refusedBy = "nothing" /\ foreign = 0

Answer(s) == pc' = "done" /\ result' = s
GoesOn(s) == pc' = s /\ result' = result

\* decide: the normal form, then the kernel; _observe starts at the workspace
Decide ==
    /\ pc = "new"
    /\ IF ~InNormalForm(path) \/ ~Admits(path) THEN Answer("refused") /\ UNCHANGED left
       ELSE GoesOn("open") /\ left' = path
    /\ vacant' = NamesNothing(tree, path)
    /\ UNCHANGED <<config, tree, path, at, opened, refusedBy, foreign>>

\* _open_parent: the next directory, relative to the last handle, links not followed
M_FollowLinks(n) == tree[at][n].to \in Dir
Opens(n) == tree[at][n].kind = "dir"

OpenNext ==
    /\ pc = "open" /\ Len(left) > 1 /\ Opens(Head(left))
    /\ at' = tree[at][Head(left)].to /\ left' = Tail(left)
    /\ opened' = Append(opened, <<Head(left), at'>>)
    /\ UNCHANGED <<config, tree, path, pc, result, vacant, refusedBy, foreign>>

OpenRefused ==
    /\ pc = "open" /\ Len(left) > 1 /\ ~Opens(Head(left))
    /\ GoesOn("explain") /\ left' = Front(path)
    /\ refusedBy' = tree[at][Head(left)].kind
    /\ UNCHANGED <<config, tree, path, at, opened, vacant, foreign>>

\* _path_problem: a second walk, by names from the workspace; _observe takes a missing
\* directory for an observation of absence
M_Explanation(examined) == "absent"
Explanation(examined) ==
    CASE Lstat(tree, examined).kind = "missing" -> "absent"
      [] Lstat(tree, examined).kind = "dir"     -> "next"
      [] OTHER                                  -> "unavailable"

\* the directories of the path up to the one that is next to be examined
Examined == SubSeq(path, 1, Len(path) - Len(left))

ExplainNext ==
    /\ pc = "explain" /\ left # <<>> /\ Explanation(Examined) = "next"
    /\ GoesOn("explain") /\ left' = Tail(left)
    /\ UNCHANGED <<config, tree, path, at, opened, vacant, refusedBy, foreign>>

ExplainEnds ==
    /\ pc = "explain"
    /\ \/ left = <<>> /\ Answer("unavailable")
       \/ left # <<>> /\ Explanation(Examined) # "next" /\ Answer(Explanation(Examined))
    /\ UNCHANGED <<config, tree, path, at, left, opened, vacant, refusedBy, foreign>>

\* _leaf_kind, then the leaf is opened through the parent's handle, links not followed
Leaf == tree[at][Head(left)]
LookAtLeaf ==
    /\ pc = "open" /\ Len(left) = 1
    /\ CASE Leaf = Missing      -> Answer("absent")
         [] Leaf.kind = "file"  -> GoesOn("leaf")
         [] OTHER               -> Answer("unavailable")
    /\ UNCHANGED <<config, tree, path, at, left, opened, vacant, refusedBy, foreign>>

OpenLeaf ==
    /\ pc = "leaf" /\ Answer(IF Leaf.kind = "file" THEN Leaf.to ELSE "unavailable")
    /\ UNCHANGED <<config, tree, path, at, left, opened, vacant, refusedBy, foreign>>

-----------------------------------------------------------------------------
(* Someone else, in the directories of the workspace.                      *)

Entries(t, S) == {e \in S \X Name : t[e[1]][e[2]].kind = "dir"}
Children(t, S) == {t[e[1]][e[2]].to : e \in Entries(t, S)}

\* d and every directory below it
Within(t, d) ==
    FoldLeft(LAMBDA S, i : S \cup Children(t, S), {d}, [i \in 1 .. Cardinality(Dir) |-> i])

Removable(node) == node.kind = "dir" => \A n \in Name : tree[node.to][n] = Missing
FreeDirs == Dir \ (Children(tree, Dir) \cup Outside \cup {Root})

\* creates, replaces or removes one name: a file, a link to anywhere, an empty directory
Replace(d, n) ==
    /\ Removable(tree[d][n])
    /\ \E node \in {Missing} \cup [kind : {"link"}, to : Dir \cup {None}]
                   \cup [kind : {"file"}, to : FileId \ OutsideFiles(tree)] \cup [kind : {"dir"}, to : FreeDirs] :
          tree' = [tree EXCEPT ![d][n] = node]

\* renames one name to another that is free
Rename(d, n, e, m) ==
    /\ tree[d][n] # Missing /\ tree[e][m] = Missing
    /\ tree[d][n].kind = "dir" => e \notin Within(tree, tree[d][n].to)
    /\ tree' = [tree EXCEPT ![d][n] = Missing, ![e][m] = tree[d][n]]

Foreign ==
    /\ pc \notin {"new", "done"} /\ foreign < MaxForeign /\ foreign' = foreign + 1
    /\ \E d \in Dir \ Outside, n \in Name :
          Replace(d, n) \/ \E e \in Dir \ Outside, m \in Name : Rename(d, n, e, m)
    /\ vacant' = (vacant \/ NamesNothing(tree', path))
    /\ UNCHANGED <<config, path, pc, at, left, result, opened, refusedBy>>

Walk == Decide \/ OpenNext \/ OpenRefused \/ ExplainNext \/ ExplainEnds \/ LookAtLeaf \/ OpenLeaf

Done == pc = "done" /\ UNCHANGED vars

Next == Walk \/ Foreign \/ Done
Spec == Init /\ [][Next]_vars

-----------------------------------------------------------------------------
(* Properties.                                                             *)

\* "Checking IS opening": the walk never holds a directory outside the workspace, and
\* no file outside it is observed, wherever links appear between two of its steps.
StaysInside == at \notin Outside /\ result \notin OutsideFiles(tree)

\* The prefixes the principal wrote are honoured by directory, not by letter: a file that
\* is looked at lies below the directory each of them names, as the walk went through it
\* (_check_prefixes, path_in_normal_form, _open_parent).
Named(q) == IF q.part = Empty THEN q.dirs ELSE Append(q.dirs, q.part)
EndsBelowGrant ==
    pc = "leaf" \/ result \in FileId =>
        \A q \in {policy, pattern} : IsPrefix(Named(q), [i \in DOMAIN opened |-> opened[i][1]])

\* An observation of absence, which settles intents and reconciles requests, is never
\* wrong: at some moment of the call the path did name nothing (_observe).
AbsentWasAbsent == result = "absent" => vacant

-----------------------------------------------------------------------------
(* What a comment says and the code does not do.                           *)

\* _path_problem: "for the record only. Never used for a decision": what is observed
\* would follow from what _open_parent refused.
RecordOnly == refusedBy = "link" => result # "absent"

=============================================================================
