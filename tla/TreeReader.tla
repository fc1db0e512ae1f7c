----------------------------- MODULE TreeReader -----------------------------
(***************************************************************************)
(* Reading what AccessibilityTree prints: a summary is undone by putting   *)
(* the tokens of its rows into its example.                                *)
(***************************************************************************)
EXTENDS AccessibilityTree

\* The lines of the example with the tokens of one row.
Sibling(example, row) ==
  LET words == Filled(AllWords(example), row)
      Before(k) == Len(AllWords(SubSeq(example, 1, k - 1))) IN
  [k \in DOMAIN example |->
     [example[k] EXCEPT !.words = SubSeq(words, Before(k) + 1, Before(k) + Len(@))]]

RECURSIVE Expanded(_)
Expanded(lines) ==
  LET notes == {k \in DOMAIN lines : lines[k].length > 0} IN
  IF notes = {} THEN lines
  ELSE LET k == Max(notes)
           rows == Head(lines[k].words).is[2]
           example == SubSeq(lines, k - lines[k].length, k - 1)
           Row(n) == Tail(lines[k + n].words) IN
       IF \E n \in 1..rows : Len(Row(n)) # Len(TokensOf(example)) THEN <<>>
       ELSE Expanded(SubSeq(lines, 1, k - 1)
                     \o FlattenSeq([n \in 1..rows |-> Sibling(example, Row(n))])
                     \o SubSeq(lines, k + rows + 1, Len(lines)))

(***************************************************************************)
(* Every line can be put together again from the summaries, from the last  *)
(* to the first, also those in the examples of summaries, unless siblings  *)
(* share a shape that are not alike.                                       *)
(***************************************************************************)
SummariesLoseNothing ==
  \/ Expanded(ToAccessibilityYaml(TRUE)) = ToAccessibilityYaml(FALSE)
  \/ ~SameShapeSameSubtree
=============================================================================
