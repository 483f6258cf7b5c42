------------------------------ MODULE FileTree ------------------------------
(***************************************************************************)
(* How treediff compares two directories (scripts/treediff.py): the files  *)
(* of both sides, the verdict on each, and the tree whose directories sum  *)
(* up what is below them.                                                  *)
(*                                                                         *)
(* A path is a sequence of names, a side a function from the paths of its  *)
(* files to contents.  A content stands for a file of at most one line:    *)
(*   "empty"  "text"  "other"      nothing, and two ordinary lines         *)
(*   "crlf"                        the line of "text", ended by CR LF      *)
(*   "pluses"  "minuses"           a line that begins with ++ or with --   *)
(*   "binary"  "unreadable"        zero bytes; open() raises               *)
(***************************************************************************)
EXTENDS Integers, SequencesExt

Content == {"empty", "text", "other", "crlf", "pluses", "minuses",
            "binary", "unreadable"}

Entry(status, plus, minus) == [status |-> status, plus |-> plus, minus |-> minus]

FilesEqual(a, b) == a = b /\ a # "unreadable"

IsBinary(c) == c \in {"binary", "unreadable"}

LineCount(c) == IF IsBinary(c) \/ c = "empty" THEN 0 ELSE 1

\* Reading as text translates the ends of lines.
ReadTextLines(c) == IF c = "crlf" THEN "text" ELSE c

\* A line of the difference is its sign and the line itself, and one that
\* then begins like a header of the difference is not counted.
Signed(c, header) == IF c \in {"empty", header} THEN 0 ELSE 1

Compare(a, b) ==
  LET differ == ReadTextLines(a) # ReadTextLines(b)
      plus   == IF differ THEN Signed(b, "pluses") ELSE 0
      minus  == IF differ THEN Signed(a, "minuses") ELSE 0
  IN  IF FilesEqual(a, b) THEN Entry("same", 0, 0)
      ELSE IF IsBinary(a) \/ IsBinary(b) THEN Entry("bindiff", 0, 0)
      ELSE IF plus = 0 /\ minus = 0 THEN Entry("same", 0, 0)
      ELSE Entry("diff", plus, minus)

BuildEntries(A, B) ==
  [p \in DOMAIN A \cup DOMAIN B |->
     CASE p \notin DOMAIN B -> Entry("onlyA", 0, LineCount(A[p]))
       [] p \notin DOMAIN A -> Entry("onlyB", LineCount(B[p]), 0)
       [] OTHER             -> Compare(A[p], B[p])]

-----------------------------------------------------------------------------
(* The tree: its leaves with their verdicts; the rest follows from them *)

\* Entries come sorted, so a file is there before what the other side has
\* under the same name as a directory; below a file nothing is shown.
BuildTree(entries) ==
  [p \in {q \in DOMAIN entries :
            \A r \in DOMAIN entries : ~IsStrictPrefix(r, q)} |-> entries[p]]

Dirs(tree) == UNION {{SubSeq(p, 1, i) : i \in 1 .. Len(p) - 1} : p \in DOMAIN tree}

Nodes(tree) == DOMAIN tree \cup Dirs(tree)

\* A slip: everything below a directory is summed up, and what is deeper twice.
Below(tree, d) == {n \in Nodes(tree) : IsStrictPrefix(d, n)}

Children(tree, d) ==
  {n \in Nodes(tree) : Len(n) = Len(d) + 1 /\ IsPrefix(d, n)}

\* The verdict on a directory is made of those on its children.
SumUp(said) ==
  LET statuses == {said[k].status : k \in DOMAIN said}
  IN  Entry(IF statuses \in {{"onlyA"}, {"onlyB"}, {"same"}}
              THEN CHOOSE s \in statuses : TRUE ELSE "diff",
            SumFunction([k \in DOMAIN said |-> said[k].plus]),
            SumFunction([k \in DOMAIN said |-> said[k].minus]))

Finalize(tree) ==
  LET verdict[n \in Nodes(tree) \cup {<< >>}] ==
        IF n \in DOMAIN tree THEN tree[n]
        ELSE SumUp([k \in Children(tree, n) |-> verdict[k]])
  IN  verdict

\* Rows come in the order of a walk that takes directories before files.
Precedes(tree, rank, p, q) ==
  \/ IsStrictPrefix(p, q)
  \/ /\ ~IsPrefix(q, p)
     /\ LET i == CHOOSE k \in 1 .. Len(p) :
                   p[k] # q[k] /\ SubSeq(p, 1, k - 1) = SubSeq(q, 1, k - 1)
            file(n) == SubSeq(n, 1, i) \in DOMAIN tree
        IN  IF file(p) = file(q) THEN rank[p[i]] < rank[q[i]] ELSE file(q)

Walk(tree, rank, nodes) ==
  [i \in 1 .. Cardinality(nodes) |->
     CHOOSE n \in nodes :
       Cardinality({m \in nodes : Precedes(tree, rank, m, n)}) = i - 1]
=============================================================================
