---------------------------------- MODULE Paths ----------------------------------
(***************************************************************************)
(* Paths as the route trees of web/ see them, cut at their slashes.        *)
(*                                                                         *)
(* A registered path is [slash, segs]: whether it begins with a slash, and *)
(* its segments, none for the root.  A requested path is the sequence of   *)
(* strings that findRoute cuts it into, none for "/".  A node of a tree is *)
(* the sequence of segments that leads to it from the root: no node has    *)
(* two children of the same segment, so the set of its nodes is the tree.  *)
(***************************************************************************)
EXTENDS Naturals, FiniteSets, Sequences, SequencesExt

Static(s) == [kind |-> "static", name |-> s]
Param(s) == [kind |-> "param", name |-> s]
Reg(s) == [kind |-> "reg", name |-> s]
Star == [kind |-> "star", name |-> "*"]
NoSeg == Static("")                         \* between two slashes in a row
BadReg == [kind |-> "bad", name |-> ""]     \* an expression that does not compile

\* What a segment may be, without regular expressions and with them.
Segment == [kind : {"static", "param"}, name : STRING] \cup {Star}
RegSegment == [kind : {"static", "param", "reg"}, name : STRING] \cup {Star, BadReg}

\* The children of node n in a tree, and those of the given kinds.
KidsIn(tree, n, kinds) ==
  {m \in tree : m # <<>> /\ Front(m) = n /\ Last(m).kind \in kinds}

\* Function f with value v at x, which may be new to it.
Put(f, x, v) == [y \in DOMAIN f \cup {x} |-> IF y = x THEN v ELSE f[y]]

\* The empty string, no slash first, and a slash last are refused at once.
WellFormed(path) == path.slash /\ (path.segs = <<>> \/ Last(path.segs) # NoSeg)

\* What strings.Trim leaves of a request's path has no slash at either end.
Trimmed(request) ==
  request \in {<<>>, <<"">>} \/ (Head(request) # "" /\ Last(request) # "")
==================================================================================
