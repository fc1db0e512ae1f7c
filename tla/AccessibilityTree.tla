------------------------- MODULE AccessibilityTree -------------------------
(***************************************************************************)
(* toAccessibilityYaml(): of the tree a page source was parsed into, the   *)
(* nodes an agent can target are printed as an indented list, and runs of  *)
(* like siblings are summarised.                                           *)
(***************************************************************************)
EXTENDS PageSource, FiniteSets

CONSTANTS Variants,    \* bound: those in which the rows of a list may differ
          Bounds,      \* --bounds
          MaxCopies    \* bound: subtrees written again as their next sibling

ASSUME VariantsAssumption == Variants \subseteq Kinds

VARIABLES
  copies,  \* the subtrees written again
  copy      \* the one being written: after which element its original ends, how
           \* many elements later its copy comes, and what it is to end in

treeVars == <<pageVars, copies, copy>>

NoCopy == [end |-> 0, by |-> 0]

TreeInit == PageInit /\ copies = 0 /\ copy = NoCopy

\* What a set of numbers has, pair by pair, in the order of the numbers.
InOrder(pairs) ==
  LET Place(p) == Cardinality({q \in pairs : q[1] <= p[1]}) IN
  [k \in 1..Cardinality(pairs) |-> (CHOOSE p \in pairs : Place(p) = k)[2]]

\* What a sequence has at the positions of a set.
At(seq, positions) == InOrder({<<i, seq[i]>> : i \in positions})

-----------------------------------------------------------------------------
(* What a node is printed with.  A tag is a sequence: its dotted parts, or *)
(* XCUIElementType and the rest.                                           *)

WrapperTags == {<<"AppiumAUT">>, <<"hierarchy">>}

\* An attribute that is missing is taken as an empty one.
Attr(a, key) == IF key \in DOMAIN a THEN a[key] ELSE ""

GetRole(kind) ==
  Last(IF Head(kind.tag) = "XCUIElementType" \/ "class" \notin DOMAIN kind.attrs
       THEN kind.tag ELSE kind.attrs.class)

FirstGiven(values) ==
  LET given == {i \in DOMAIN values : values[i] # ""} IN
  IF given = {} THEN "" ELSE values[Min(given)]

GetName(a) == FirstGiven(<<Attr(a, "name"), Attr(a, "content-desc"), Attr(a, "text")>>)

IsHidden(a) == Attr(a, "visible") = "false" \/ Attr(a, "displayed") = "false"

\* A line is made of words; a quoted text or coordinates are a token.
Word(w) == [token |-> FALSE, is |-> w]
Token(w) == [token |-> TRUE, is |-> w]

Flags == <<<<"enabled", "false">>, <<"checked", "true">>, <<"selected", "true">>,
           <<"focused", "true">>, <<"scrollable", "true">>, <<"clickable", "true">>,
           <<"password", "true">>>>
Texts == <<"label", "value", "hint">>

GetStates(a, name) ==
  LET set == At(Flags, {i \in DOMAIN Flags : Attr(a, Flags[i][1]) = Flags[i][2]})
      other == At(Texts, {i \in DOMAIN Texts : Attr(a, Texts[i]) \notin {"", name}}) IN
  [i \in DOMAIN set |-> Word(set[i])]
  \o FlattenSeq([i \in DOMAIN other |-> <<Word(<<other[i]>>), Token(<<Attr(a, other[i])>>)>>])
  \* The package a resource id starts with is cut off.
  \o IF "resource-id" \in DOMAIN a
     THEN <<Word(<<"id">>), Token(<<Last(a["resource-id"])>>)>> ELSE <<>>

\* Android's corners, or else the four numbers of iOS, if they are numbers.
NoRect == [x |-> 0, y |-> 0, width |-> 0, height |-> 0]
GetRect(a) ==
  IF "bounds" \in DOMAIN a
  THEN [x |-> a.bounds[1], y |-> a.bounds[2],
        width |-> a.bounds[3] - a.bounds[1], height |-> a.bounds[4] - a.bounds[2]]
  ELSE IF \A key \in DOMAIN NoRect : key \in DOMAIN a /\ a[key] \in Int
  THEN [key \in DOMAIN NoRect |-> a[key]]
  ELSE NoRect

\* Nothing of no area is tapped; a half is rounded up.
GetBoundsParts(a) ==
  LET r == GetRect(a) IN
  IF r.width <= 0 \/ r.height <= 0 THEN <<>>
  ELSE <<Token(<<(2 * r.x + r.width + 1) \div 2, (2 * r.y + r.height + 1) \div 2,
                 r.width, r.height>>)>>

IsTapTarget(a, leaf) == Attr(a, "clickable") = "true" \/ leaf

Targetable(kind) ==
  GetName(kind.attrs) # "" \/ GetStates(kind.attrs, GetName(kind.attrs)) # <<>>

Line(depth, words) == [depth |-> depth, words |-> words, length |-> 0]

\* What the line of a node says, which is a leaf if no child of it is printed.
NodeWords(kind, leaf) ==
  LET a == kind.attrs
      name == GetName(a)
      notes == GetStates(a, name)
               \o IF Bounds /\ IsTapTarget(a, leaf) THEN GetBoundsParts(a) ELSE <<>> IN
  <<Word(<<"role", GetRole(kind)>>)>>
  \o (IF name = "" THEN <<>> ELSE <<Token(<<name>>)>>)
  \o (IF notes = <<>> THEN <<>> ELSE <<Word(<<"[">>)>> \o notes)
  \o (IF leaf THEN <<>> ELSE <<Word(<<":">>)>>)
Words == [kind \in Kinds |-> [leaf \in BOOLEAN |-> NodeWords(kind, leaf)]]
NodeLine(kind, depth, leaf) == Line(depth, Words[kind][leaf])

-----------------------------------------------------------------------------
(* collapseRuns().                                                         *)

AllWords(lines) == FlattenSeq([i \in DOMAIN lines |-> lines[i].words])
Tokens(words) == {i \in DOMAIN words : words[i].token}
TokensOf(lines) == LET words == AllWords(lines) IN At(words, Tokens(words))

\* Indentation and fixed words.
ShapeOf(lines) ==
  [i \in DOMAIN lines |->
     <<lines[i].depth,
       [k \in DOMAIN lines[i].words |->
          IF lines[i].words[k].token THEN Token(<<>>) ELSE lines[i].words[k]]>>]

MinRun == 3
RunEnd(groups, i) ==
  LET shape == ShapeOf(groups[i]) IN
  Max({n \in i..Len(groups) : \A k \in i + 1..n : ShapeOf(groups[k]) = shape})

Same == Word(<<"=">>)
Detail_InAnyPlace(example, group) ==
  LET base == TokensOf(example)
      own == TokensOf(group) IN
  [i \in DOMAIN own |-> IF \E k \in DOMAIN base : own[i] = base[k] THEN Same ELSE own[i]]
Detail(example, group) ==
  LET base == TokensOf(example)
      own == TokensOf(group) IN
  [i \in DOMAIN own |-> IF own[i] = base[i] THEN Same ELSE own[i]]

\* The note tells the number of siblings, and its "=" is a token too; `length',
\* which is not printed, is the number of lines of the example above it.
Note(depth, siblings, length) ==
  [Line(depth, <<Word(<<"siblings", siblings>>), Token(<<"=">>)>>) EXCEPT !.length = length]

Summary_AgainstThePrevious(run) ==
  LET first == Head(run)
      depth == Head(first).depth IN
  first \o <<Note(depth, Len(run) - 1, Len(first))>>
        \o [k \in 1..Len(run) - 1 |->
              Line(depth, <<Word(<<"[n]", k>>)>> \o Detail(run[k], run[k + 1]))]
Summary(run) ==
  LET first == Head(run)
      depth == Head(first).depth IN
  first \o <<Note(depth, Len(run) - 1, Len(first))>>
        \o [k \in 1..Len(run) - 1 |->
              Line(depth, <<Word(<<"[n]", k>>)>> \o Detail(first, run[k + 1]))]

WorthASummary_AnyLength(run) == Len(run) >= MinRun
WorthASummary(run) == Len(run) >= MinRun /\ Len(Head(run)) >= 2

CollapseRuns(groups) ==
  LET from[i \in 1..Len(groups) + 1] ==
        IF i > Len(groups) THEN <<>>
        ELSE LET run == SubSeq(groups, i, RunEnd(groups, i)) IN
             (IF WorthASummary(run) THEN Summary(run) ELSE FlattenSeq(run))
             \o from[i + Len(run)] IN
  from[1]

-----------------------------------------------------------------------------
(* renderNode().                                                           *)

Children(i) == {j \in Nodes : parser.tree[j].parent = i}

Shifted_Not(lines) == lines
\* What is below a node that is not printed takes its place.
Shifted(lines) == [k \in DOMAIN lines |-> [lines[k] EXCEPT !.depth = @ - 1]]

\* The children of which anything is printed, one group of lines each: `rendered'
\* is what renderNode() returns for them, at any depth.
Groups(i, depth, rendered) ==
  LET below == {<<j, rendered[j][depth]>> : j \in Children(i)} IN
  InOrder({pair \in below : pair[2] # <<>>})

RenderNode(i, depth, collapse, rendered) ==
  LET kind == parser.tree[i].kind IN
  IF kind.tag \in WrapperTags THEN FlattenSeq(Groups(i, depth, rendered))
  ELSE IF IsHidden(kind.attrs) THEN <<>>
  ELSE LET groups == Groups(i, depth + 1, rendered)
           below == IF collapse THEN CollapseRuns(groups) ELSE FlattenSeq(groups) IN
       IF Targetable(kind)
       THEN <<NodeLine(kind, depth, groups = <<>>)>> \o below
       ELSE Shifted(below)

Rendered(collapse) ==
  LET rendered[i \in Nodes] ==
        [depth \in Nat |-> RenderNode(i, depth, collapse, rendered)] IN
  rendered

ToAccessibilityYaml(collapse) ==
  IF parser.root = 0 THEN <<>> ELSE Rendered(collapse)[parser.root][0]

-----------------------------------------------------------------------------
(* Documents with lists.                                                   *)

\* A list: the subtree just ended comes again, its last node perhaps different.
CopyBegins(last) ==
  LET here == {i \in Nodes : written.parents[i] = Top(written.open)}
      from == Max(here) IN
  /\ copy = NoCopy /\ copies < MaxCopies
  /\ written.open # <<>> /\ here # {}
  /\ from < Len(written.parents)
  /\ copies' = copies + 1
  /\ copy' = [end |-> Len(written.parents), by |-> NewNode - from, last |-> last]
  /\ UNCHANGED pageVars

\* Its next tag: the copy of element i is begun, or the innermost element ended.
CopyGoesOn ==
  LET i == NewNode - copy.by
      up == written.parents[i]
      parent == IF i + copy.by = copy.end + 1 THEN up ELSE up + copy.by
      kind == IF i = copy.end THEN copy.last ELSE parser.tree[i].kind IN
  /\ copy # NoCopy
  /\ UNCHANGED copies
  /\ \/ /\ Top(written.open) # parent
        /\ written.open # <<>>
        /\ WritesEnd(Len(written.open))
        /\ UNCHANGED copy
     \/ /\ Top(written.open) = parent
        /\ IF i < copy.end /\ written.parents[i + 1] = i
           THEN WritesStart(kind) ELSE WritesEmpty(kind)
        /\ copy' = IF i = copy.end THEN NoCopy ELSE copy

\* With the last copy the document ends, as one that is cut off.
TreeNext ==
  \/ copy = NoCopy /\ copies < MaxCopies /\ PageNext /\ UNCHANGED <<copies, copy>>
  \/ \E last \in Variants : CopyBegins(last)
  \/ CopyGoesOn

TreeSpec == TreeInit /\ [][TreeNext]_treeVars

-----------------------------------------------------------------------------
(* Properties.                                                             *)

Above(i) ==
  LET above[j \in Nodes] == LET up == parser.tree[j].parent IN
                            IF up = 0 THEN {} ELSE {up} \union above[up] IN
  above[i]

Wraps(i) == parser.tree[i].kind.tag \in WrapperTags
Printed(i) ==
  /\ Targetable(parser.tree[i].kind) /\ ~Wraps(i)
  /\ \A j \in Above(i) \union {i} : Wraps(j) \/ ~IsHidden(parser.tree[j].kind.attrs)

(***************************************************************************)
(* Without collapsing, the lines are exactly the nodes that are visible    *)
(* and can be targeted, in document order, each indented by the number of  *)
(* its ancestors that are printed, and with coordinates if it is clickable *)
(* or nothing below it is printed: no pruning loses or reparents a target. *)
(***************************************************************************)
PrintsEveryTarget ==
  LET shown == {i \in Nodes : Printed(i)}
      Alone(i) == \A j \in shown : i \notin Above(j)
      Depth(i) == Cardinality(Above(i) \intersect shown)
      LineOf(i) == NodeLine(parser.tree[i].kind, Depth(i), Alone(i)) IN
  ToAccessibilityYaml(FALSE) = InOrder({<<i, LineOf(i)>> : i \in shown})

\* The reader's part: the tokens of a row are put where the example has its own.
Filled(words, row) ==
  LET tokens == Tokens(words)
      Is(i) == row[Cardinality({j \in tokens : j <= i})] IN
  [i \in DOMAIN words |-> IF i \in tokens /\ Is(i) # Same THEN Is(i) ELSE words[i]]

(***************************************************************************)
(* "Every value still lines up with the example above it": from the        *)
(* example and the row that stands for a sibling, whatever is summarised   *)
(* in them already, all lines of the sibling are put together again, each  *)
(* value in the place where it was.                                        *)
(***************************************************************************)
RowsLineUp ==
  LET rendered == Rendered(TRUE)
      Layout(lines) == [k \in DOMAIN lines |-> <<lines[k].depth, Len(lines[k].words)>>] IN
  \A i \in Nodes :
    LET groups == Groups(i, 1, rendered) IN
    \A k \in DOMAIN groups : \A n \in k + 1..RunEnd(groups, k) :
      /\ Layout(groups[n]) = Layout(groups[k])
      /\ AllWords(groups[n]) = Filled(AllWords(groups[k]), Detail(groups[k], groups[n]))

(***************************************************************************)
(* "Two subtrees share a shape when they differ only in their variable     *)
(* tokens."  Printed in full, they are then alike as well.                 *)
(***************************************************************************)
SameShapeSameSubtree ==
  LET short == Rendered(TRUE)
      long == Rendered(FALSE) IN
  \A i \in Nodes : \A j, k \in Children(i) :
    ShapeOf(short[j][1]) = ShapeOf(short[k][1]) => ShapeOf(long[j][1]) = ShapeOf(long[k][1])

(***************************************************************************)
(* A summary is never longer than what it stands for.                      *)
(***************************************************************************)
SummariesAreShorter ==
  Len(ToAccessibilityYaml(TRUE)) <= Len(ToAccessibilityYaml(FALSE))
=============================================================================
