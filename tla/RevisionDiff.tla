------------------------------ MODULE RevisionDiff ------------------------------
(***************************************************************************)
(* The patch that describeDiff of the artifact revisions shows: the two    *)
(* texts are read up to a limit, their longest common subsequence is       *)
(* tabulated, and one walk over the table marks every line.  A text is the *)
(* sequence of its lines.                                                  *)
(***************************************************************************)
EXTENDS Naturals, SequencesExt

CONSTANTS
    ReadLimit,          \* lines that a preview reads of an object (512 KiB)
    MaxComparableLines, \* lines of both texts up to which they are compared (1600)
    CutLines            \* lines shown of each text when they are not (400)

ASSUME DiffAssumption ==
    /\ ReadLimit \in Nat /\ MaxComparableLines \in Nat /\ CutLines \in Nat

Larger(m, n) == IF m >= n THEN m ELSE n
UpTo(n, text) == SubSeq(text, 1, IF Len(text) <= n THEN Len(text) ELSE n)

\* readRevisionText of the object of a revision.
Preview(text) == [content |-> UpTo(ReadLimit, text), truncated |-> Len(text) > ReadLimit]

\* An empty preview: the revision has no object, or there is no revision before it.
NoText == [content |-> << >>, truncated |-> FALSE]

\* The places between the lines of both texts, the ends included.
Cells(b, a) == (1..(Len(b) + 1)) \X (1..(Len(a) + 1))

\* The longest common subsequence of the lines of b from c[1] and those of a from c[2].
LcsAt(b, a, lcs, c) ==
    CASE c[1] > Len(b) \/ c[2] > Len(a) -> 0
      [] c[1] <= Len(b) /\ c[2] <= Len(a) /\ b[c[1]] = a[c[2]] -> lcs[<<c[1] + 1, c[2] + 1>>] + 1
      [] OTHER -> Larger(lcs[<<c[1] + 1, c[2]>>], lcs[<<c[1], c[2] + 1>>])

BuildLcsMatrix(b, a) ==
    LET lcs[c \in Cells(b, a)] == LcsAt(b, a, lcs, c)
    IN  lcs

\* The first character of a line of the patch.
Same == " "
Gone == "-"
Added == "+"

Marked(mark, text) == [k \in DOMAIN text |-> [mark |-> mark, line |-> text[k]]]

\* Mutant: what remains of the earlier text is not flushed after the walk.
PatchAt_ForgetsRest(b, a, lcs, patch, c) ==
    CASE c[1] > Len(b) -> Marked(Added, SubSeq(a, c[2], Len(a)))
      [] c[1] <= Len(b) /\ c[2] > Len(a) -> << >>
      [] c[1] <= Len(b) /\ c[2] <= Len(a) /\ b[c[1]] = a[c[2]] ->
             Marked(Same, <<b[c[1]]>>) \o patch[<<c[1] + 1, c[2] + 1>>]
      [] OTHER -> IF lcs[<<c[1] + 1, c[2]>>] >= lcs[<<c[1], c[2] + 1>>]
                  THEN Marked(Gone, <<b[c[1]]>>) \o patch[<<c[1] + 1, c[2]>>]
                  ELSE Marked(Added, <<a[c[2]]>>) \o patch[<<c[1], c[2] + 1>>]

\* The loop of buildUnifiedDiff and the two that flush what is left: what they put out
\* from c on.
PatchAt(b, a, lcs, patch, c) ==
    CASE c[1] > Len(b) -> Marked(Added, SubSeq(a, c[2], Len(a)))
      [] c[1] <= Len(b) /\ c[2] > Len(a) -> Marked(Gone, SubSeq(b, c[1], Len(b)))
      [] c[1] <= Len(b) /\ c[2] <= Len(a) /\ b[c[1]] = a[c[2]] ->
             Marked(Same, <<b[c[1]]>>) \o patch[<<c[1] + 1, c[2] + 1>>]
      [] OTHER -> IF lcs[<<c[1] + 1, c[2]>>] >= lcs[<<c[1], c[2] + 1>>]
                  THEN Marked(Gone, <<b[c[1]]>>) \o patch[<<c[1] + 1, c[2]>>]
                  ELSE Marked(Added, <<a[c[2]]>>) \o patch[<<c[1], c[2] + 1>>]

Patch(b, a) ==
    LET patch[c \in Cells(b, a)] == PatchAt(b, a, BuildLcsMatrix(b, a), patch, c)
    IN  patch

Walk(b, a) == Patch(b, a)[<<1, 1>>]

\* cut: the patch ends with the line that says the artifact is too large.  The
\* answer itself is only marked as truncated when one of the previews was.
BuildUnifiedDiff(before, after) ==
    LET b == before.content
        a == after.content
        cut == Len(b) + Len(a) > MaxComparableLines
    IN  [lines |-> IF cut
                   THEN Marked(Gone, UpTo(CutLines, b)) \o Marked(Added, UpTo(CutLines, a))
                   ELSE Walk(b, a),
         cut |-> cut,
         truncated |-> before.truncated \/ after.truncated]

-----------------------------------------------------------------------------
(***************************************************************************)
(* What a patch must say, without the table.                               *)
(***************************************************************************)
\* The lines with these marks, without them.
TextUpTo(lines, marks) ==
    LET text[k \in 0..Len(lines)] ==
            IF k = 0 THEN << >>
            ELSE IF lines[k].mark \in marks THEN Append(text[k - 1], lines[k].line)
            ELSE text[k - 1]
    IN  text
TextOf(lines, marks) == TextUpTo(lines, marks)[Len(lines)]

\* The ways to keep lines: which line of the one text becomes which equal line of the other.
Crossings(before, after) ==
    {c \in (1..Len(before)) \X (1..Len(after)) : before[c[1]] = after[c[2]]}
InOrder(kept) == \A c, d \in kept : c[1] < d[1] <=> c[2] < d[2]

\* The patch turns one text into the other, and no way to do that keeps more lines.
Explains(lines, before, after) ==
    /\ TextOf(lines, {Same, Gone}) = before
    /\ TextOf(lines, {Same, Added}) = after
    /\ \A kept \in SUBSET Crossings(before, after) :
          InOrder(kept) => Cardinality(kept) <= Len(TextOf(lines, {Same}))
=============================================================================
