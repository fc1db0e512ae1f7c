----------------------- MODULE AccessibilityTreeProofs -----------------------
(***************************************************************************)
(* Proofs about PageSource and AccessibilityTree, for documents of any     *)
(* size and elements of any kinds: no end tag, missing or stray, moves an  *)
(* element, what is printed of the tree are its targets, and summaries are *)
(* shorter and stay in line with their examples.                           *)
(***************************************************************************)
EXTENDS AccessibilityTree, SequenceTheorems, FunctionTheorems, FiniteSetTheorems,
        WellFoundedInduction, TLAPS

Node == [kind : Kinds, parent : Nat]

ParserIsRecord ==
  /\ parser \in [tree : Seq(Node), stack : Seq(Nat), root : {0, 1}]
  /\ written \in [parents : Seq(Nat), open : Seq(Nat)]

\* The root is the first element.
RootIsFirst == parser.root = IF parser.tree = <<>> THEN 0 ELSE 1

\* Of n elements with the parents p, those in s still open: there is one root, an
\* element comes after its parent, all that comes after an open element is inside
\* it, and so is all that comes between a parent and one of its children.
Laminar(n, p, s) ==
  /\ \A i \in 1..n : p[i] \in 0..i - 1 /\ (p[i] = 0 <=> i = 1)
  /\ \A d, e \in 1..Len(s) : d < e => s[d] < s[e]
  /\ \A d \in 1..Len(s) : s[d] \in 1..n /\ \A i \in 1..n : i > s[d] => p[i] >= s[d]
  /\ \A i, j \in 1..n : p[j] < i /\ i < j => p[i] >= p[j]

DocumentOrder == Laminar(Len(written.parents), written.parents, written.open)

PInv == /\ ParserIsRecord
        /\ RootIsFirst
        /\ TreeTypeOK
        /\ ParsesWhatIsMeant
        /\ DocumentOrder

\* A piece of a document is written, whatever limits its length.
PageStep ==
  \/ \E kind \in Kinds : WritesStart(kind) \/ WritesEmpty(kind) \/ WritesStrayEnd(kind)
  \/ \E d \in DOMAIN written.open : WritesEnd(d)

-----------------------------------------------------------------------------
LEMMA PageInitPInv == PageInit => PInv
  <1> SUFFICES ASSUME PageInit PROVE PInv
    OBVIOUS
  <1>1. ParserIsRecord /\ RootIsFirst
    BY DEF PageInit, ParserIsRecord, RootIsFirst
  <1>2. Nodes = {} /\ DOMAIN parser.stack = {}
    BY DEF PageInit, Nodes
  <1>3. TreeTypeOK /\ ParsesWhatIsMeant
    BY <1>1, <1>2 DEF PageInit, TreeTypeOK, ParsesWhatIsMeant, ParserIsRecord
  <1>4. DocumentOrder
    BY DEF PageInit, DocumentOrder, Laminar
  <1> QED
    BY <1>1, <1>3, <1>4 DEF PInv

LEMMA RecordsFormed ==
  \A tree \in Seq(Node), stack, parents \in Seq(Nat) :
    /\ [tree |-> tree, stack |-> stack, root |-> 1]
         \in [tree : Seq(Node), stack : Seq(Nat), root : {0, 1}]
    /\ [parents |-> parents, open |-> stack] \in [parents : Seq(Nat), open : Seq(Nat)]
  OBVIOUS

\* What the innermost open element is: an element, or none.
LEMMA TopIsOlder ==
  ASSUME PInv
  PROVE  /\ Top(parser.stack) \in 0..Len(parser.tree)
         /\ Top(parser.stack) = Top(written.open)
         /\ parser.stack = <<>> <=> Len(parser.stack) = 0
         /\ Top(parser.stack) = IF Len(parser.stack) = 0 THEN 0
                                ELSE parser.stack[Len(parser.stack)]
  <1>1. parser.tree \in Seq(Node) /\ parser.stack \in Seq(Nat)
    BY DEF PInv, ParserIsRecord
  <1>2. parser.stack = <<>> <=> Len(parser.stack) = 0
    BY <1>1, EmptySeq
  <1>3. Len(parser.stack) # 0 => parser.stack[Len(parser.stack)] \in Nodes
    <2>1. Len(parser.stack) # 0 => Len(parser.stack) \in DOMAIN parser.stack
      BY <1>1
    <2> QED
      BY <2>1 DEF PInv, TreeTypeOK
  <1> QED
    BY <1>1, <1>2, <1>3 DEF Top, Last, Nodes, PInv, ParsesWhatIsMeant

LEMMA ElementKeepsOrder ==
  ASSUME NEW p \in Seq(Nat), NEW s \in Seq(Nat), Laminar(Len(p), p, s),
         Len(s) = 0 => Len(p) = 0,
         NEW top, top = IF Len(s) = 0 THEN 0 ELSE s[Len(s)],
         NEW t, t = s \/ t = Append(s, Len(p) + 1)
  PROVE  Laminar(Len(p) + 1, Append(p, top), t)
  <1> DEFINE n == Len(p)
             q == Append(p, top)
  <1>1. n \in Nat /\ Len(s) \in Nat
    OBVIOUS
  <1>2. /\ \A i \in 1..n : p[i] \in 0..i - 1 /\ (p[i] = 0 <=> i = 1)
        /\ \A d, e \in 1..Len(s) : d < e => s[d] < s[e]
        /\ \A d \in 1..Len(s) : s[d] \in 1..n
        /\ \A d \in 1..Len(s), i \in 1..n : i > s[d] => p[i] >= s[d]
        /\ \A i, j \in 1..n : p[j] < i /\ i < j => p[i] >= p[j]
    BY DEF Laminar
  <1>3. top \in 0..n /\ (top = 0 <=> n = 0) /\ \A d \in 1..Len(s) : s[d] <= top
    <2>1. CASE Len(s) = 0
      BY <1>1, <2>1
    <2>2. CASE Len(s) # 0
      <3>1. Len(s) \in 1..Len(s) /\ top = s[Len(s)]
        BY <1>1, <2>2
      <3>2. top \in 1..n
        BY <1>2, <3>1
      <3>3. ASSUME NEW d \in 1..Len(s) PROVE s[d] <= top
        <4>1. s[d] \in Nat /\ top \in Nat
          BY <1>2, <3>2
        <4>2. d = Len(s) \/ d < Len(s)
          BY <1>1
        <4>3. d < Len(s) => s[d] < s[Len(s)]
          BY <1>2, <3>1
        <4> QED
          BY <3>1, <4>1, <4>2, <4>3
      <3> QED
        BY <1>1, <3>2, <3>3
    <2> QED
      BY <2>1, <2>2
  <1>4. \A i \in 1..n : q[i] = p[i] /\ p[i] \in Nat
    BY <1>3
  <1>5. q[n + 1] = top
    BY <1>3
  <1>6. Len(t) \in Nat /\ \A d \in 1..Len(t) :
          (d \in 1..Len(s) /\ t[d] = s[d]) \/ (d = Len(s) + 1 /\ t[d] = n + 1)
    <2>1. CASE t = s
      BY <1>1, <2>1
    <2>2. CASE t = Append(s, n + 1)
      BY <1>1, <2>2
    <2> QED
      BY <2>1, <2>2
  <1>7. \A i \in 1..n + 1 : i \in 1..n \/ i = n + 1
    BY <1>1
  <1> HIDE DEF q, n
  <1>8. ASSUME NEW i \in 1..n + 1
        PROVE  q[i] \in 0..i - 1 /\ (q[i] = 0 <=> i = 1)
    <2>1. CASE i \in 1..n
      BY <1>2, <1>4, <2>1
    <2>2. CASE i = n + 1
      BY <1>1, <1>3, <1>5, <2>2
    <2> QED
      BY <1>7, <2>1, <2>2
  <1>9. ASSUME NEW d \in 1..Len(t), NEW e \in 1..Len(t), d < e
        PROVE  t[d] < t[e]
    <2>1. d \in 1..Len(s) /\ t[d] = s[d] /\ s[d] \in 1..n
      BY <1>1, <1>2, <1>6, <1>9
    <2>2. CASE e \in 1..Len(s) /\ t[e] = s[e]
      BY <1>2, <1>9, <2>1, <2>2
    <2>3. CASE t[e] = n + 1
      BY <1>1, <2>1, <2>3
    <2> QED
      BY <1>6, <2>2, <2>3
  <1>10. ASSUME NEW d \in 1..Len(t)
         PROVE  t[d] \in 1..n + 1 /\ \A i \in 1..n + 1 : i > t[d] => q[i] >= t[d]
    <2>1. CASE d \in 1..Len(s) /\ t[d] = s[d]
      <3>1. t[d] \in 1..n /\ t[d] <= top
        BY <1>2, <1>3, <2>1
      <3>2. ASSUME NEW i \in 1..n + 1, i > t[d] PROVE q[i] >= t[d]
        <4>1. CASE i \in 1..n
          BY <1>2, <1>4, <2>1, <3>2, <4>1
        <4>2. CASE i = n + 1
          BY <1>5, <3>1, <4>2
        <4> QED
          BY <1>7, <4>1, <4>2
      <3> QED
        BY <1>1, <3>1, <3>2
    <2>2. CASE t[d] = n + 1
      BY <1>1, <2>2
    <2> QED
      BY <1>6, <2>1, <2>2
  <1>11. ASSUME NEW i \in 1..n + 1, NEW j \in 1..n + 1, q[j] < i, i < j
         PROVE  q[i] >= q[j]
    <2>1. i \in 1..n /\ q[i] = p[i]
      BY <1>1, <1>4, <1>7, <1>11
    <2>2. CASE j = n + 1
      <3>1. q[j] = top /\ top \in Nat /\ p[i] \in Nat
        BY <1>3, <1>4, <1>5, <2>1, <2>2
      <3>2. CASE top = 0
        BY <2>1, <3>1, <3>2
      <3>3. CASE top # 0
        <4>1. Len(s) \in 1..Len(s) /\ s[Len(s)] = top
          BY <1>1, <3>3
        <4> QED
          BY <1>2, <1>11, <2>1, <3>1, <4>1
      <3> QED
        BY <3>2, <3>3
    <2>3. CASE j \in 1..n
      BY <1>2, <1>4, <1>11, <2>1, <2>3
    <2> QED
      BY <1>7, <2>2, <2>3
  <1>12. Laminar(n + 1, q, t)
    BY <1>8, <1>9, <1>10, <1>11 DEF Laminar
  <1> QED
    BY <1>12 DEF n, q

(***************************************************************************)
(* An element is hung under the innermost open one, and may become that    *)
(* itself.                                                                 *)
(***************************************************************************)
LEMMA ElementStep ==
  ASSUME PInv, MayWrite, NEW kind \in Kinds, NEW stack,
         stack = parser.stack \/ stack = Append(parser.stack, Len(parser.tree) + 1),
         parser' = [tree |-> Append(parser.tree,
                                    [kind |-> kind, parent |-> Top(parser.stack)]),
                    stack |-> stack, root |-> 1],
         written' = [parents |-> Append(written.parents, Top(written.open)),
                     open |-> stack]
  PROVE  PInv'
  <1> DEFINE new == Len(parser.tree) + 1
             top == Top(parser.stack)
             tree == Append(parser.tree, [kind |-> kind, parent |-> top])
             parents == Append(written.parents, Top(written.open))
  <1>1. /\ parser.tree \in Seq(Node) /\ parser.stack \in Seq(Nat)
        /\ written.parents \in Seq(Nat) /\ Len(written.parents) = Len(parser.tree)
    BY DEF PInv, ParserIsRecord, ParsesWhatIsMeant
  <1>2. top \in 0..new - 1 /\ Top(written.open) = top /\ new \in Nat
    BY <1>1, TopIsOlder
  <1> HIDE DEF top
  <1>3. [kind |-> kind, parent |-> top] \in Node /\ top \in Nat
    BY <1>2 DEF Node
  <1>4. /\ tree \in Seq(Node) /\ Len(tree) = new
        /\ tree[new] = [kind |-> kind, parent |-> top]
        /\ \A i \in 1..Len(parser.tree) : tree[i] = parser.tree[i]
    BY <1>1, <1>3
  <1>5. /\ parents \in Seq(Nat) /\ Len(parents) = new /\ parents[new] = top
        /\ \A i \in 1..Len(parser.tree) : parents[i] = written.parents[i]
    BY <1>1, <1>2, <1>3
  <1>6. /\ stack \in Seq(Nat)
        /\ \A d \in DOMAIN stack :
             \/ /\ d \in DOMAIN parser.stack /\ stack[d] = parser.stack[d]
                /\ d # 1 => stack[d - 1] = parser.stack[d - 1]
             \/ /\ d = Len(parser.stack) + 1 /\ stack[d] = new
                /\ d # 1 => stack[d - 1] = parser.stack[Len(parser.stack)]
    <2>1. CASE stack = parser.stack
      BY <1>1, <2>1
    <2>2. CASE stack = Append(parser.stack, new)
      <3>1. DOMAIN stack = 1..Len(parser.stack) + 1 /\ Len(parser.stack) \in Nat
        BY <1>1, <1>2, <2>2
      <3>2. /\ stack[Len(parser.stack) + 1] = new /\ stack \in Seq(Nat)
            /\ \A d \in 1..Len(parser.stack) :
                 d \in DOMAIN parser.stack /\ stack[d] = parser.stack[d]
        BY <1>1, <1>2, <2>2
      <3>3. ASSUME NEW d \in 1..Len(parser.stack) + 1, d # 1
            PROVE  d - 1 \in 1..Len(parser.stack)
        BY <3>1, <3>3
      <3>4. ASSUME NEW d \in 1..Len(parser.stack) + 1
            PROVE  d \in 1..Len(parser.stack) \/ d = Len(parser.stack) + 1
        BY <3>1
      <3>5. Len(parser.stack) + 1 - 1 = Len(parser.stack)
        BY <3>1
      <3> QED
        BY <3>1, <3>2, <3>3, <3>4, <3>5, SMTT(30)
    <2> QED
      BY <2>1, <2>2
  <1> HIDE DEF tree, parents
  <1>7. /\ parser' = [tree |-> tree, stack |-> stack, root |-> 1]
        /\ written' = [parents |-> parents, open |-> stack]
    BY DEF tree, parents, top
  <1>8. Nodes = 1..Len(parser.tree) /\ Nodes' = 1..Len(tree)
    BY <1>7 DEF Nodes
  <1>9. Nodes' = Nodes \union {new} /\ new \notin Nodes
    BY <1>1, <1>4, <1>8
  <1> HIDE DEF new
  <1>10. ParserIsRecord' /\ RootIsFirst'
    <2>1. tree \in Seq(Node) /\ parents \in Seq(Nat) /\ stack \in Seq(Nat)
      BY <1>4, <1>5, <1>6
    <2>2. /\ parser' \in [tree : Seq(Node), stack : Seq(Nat), root : {0, 1}]
          /\ written' \in [parents : Seq(Nat), open : Seq(Nat)]
      BY <1>7, <2>1, RecordsFormed, Zenon
    <2>3. tree # <<>>
      BY <1>1, <1>4, EmptySeq DEF new
    <2>4. parser'.tree = tree /\ parser'.root = 1
      BY <1>7
    <2>5. RootIsFirst'
      BY <2>3, <2>4 DEF RootIsFirst
    <2> QED
      BY <2>2, <2>5 DEF ParserIsRecord
  <1>11. ParsesWhatIsMeant'
    BY <1>4, <1>5, <1>7, <1>8, <1>9 DEF PInv, ParsesWhatIsMeant
  <1>12. ASSUME NEW i \in Nodes'
         PROVE  tree[i].kind \in Kinds /\ tree[i].parent \in 0..i - 1
    <2>1. CASE i = new
      BY <1>2, <1>4, <2>1
    <2>2. CASE i \in Nodes
      <3>1. tree[i] = parser.tree[i]
        BY <1>4, <1>8, <2>2
      <3> QED
        BY <2>2, <3>1 DEF PInv, TreeTypeOK
    <2> QED
      BY <1>9, <2>1, <2>2
  <1>13. ASSUME NEW d \in DOMAIN stack
         PROVE  /\ stack[d] \in Nodes'
                /\ tree[stack[d]].parent = IF d = 1 THEN 0 ELSE stack[d - 1]
    <2>1. CASE /\ d \in DOMAIN parser.stack /\ stack[d] = parser.stack[d]
               /\ d # 1 => stack[d - 1] = parser.stack[d - 1]
      <3>1. /\ parser.stack[d] \in Nodes
            /\ parser.tree[parser.stack[d]].parent
                 = IF d = 1 THEN 0 ELSE parser.stack[d - 1]
        BY <2>1 DEF PInv, TreeTypeOK
      <3> QED
        BY <1>4, <1>8, <1>9, <2>1, <3>1
    <2>2. CASE /\ d = Len(parser.stack) + 1 /\ stack[d] = new
               /\ d # 1 => stack[d - 1] = parser.stack[Len(parser.stack)]
      <3>1. top = IF d = 1 THEN 0 ELSE stack[d - 1]
        BY <1>1, <2>2, TopIsOlder DEF top
      <3> QED
        BY <1>4, <1>9, <2>2, <3>1
    <2> QED
      BY <1>6, <2>1, <2>2
  <1>14. TreeTypeOK'
    <2>1. parser'.tree = tree /\ parser'.stack = stack /\ parser'.root \in {0, 1}
      BY <1>7
    <2> QED
      BY <1>12, <1>13, <2>1 DEF TreeTypeOK
  <1>15. DocumentOrder'
    <2>1. top = IF Len(parser.stack) = 0 THEN 0 ELSE parser.stack[Len(parser.stack)]
      BY TopIsOlder DEF top
    <2>2. Len(parser.stack) = 0 => Len(written.parents) = 0
      BY <1>1, TopIsOlder DEF PInv, ParsesWhatIsMeant, MayWrite
    <2>3. Laminar(Len(written.parents), written.parents, parser.stack)
      BY DEF PInv, DocumentOrder, ParsesWhatIsMeant
    <2>4. parents = Append(written.parents, top) /\ new = Len(written.parents) + 1
      BY <1>1, <1>2 DEF parents, new
    <2>5. Laminar(new, parents, stack)
      BY <1>1, <2>1, <2>2, <2>3, <2>4, ElementKeepsOrder DEF new
    <2>6. Len(parents) = new
      BY <1>5 DEF new
    <2>7. written'.parents = parents /\ written'.open = stack
      BY <1>7
    <2> QED
      BY <2>5, <2>6, <2>7 DEF DocumentOrder
  <1> QED
    BY <1>10, <1>11, <1>14, <1>15 DEF PInv

(***************************************************************************)
(* An end tag closes an open element and those inside it.                  *)
(***************************************************************************)
LEMMA EndStep ==
  ASSUME PInv, NEW d \in DOMAIN parser.stack,
         parser' = [parser EXCEPT !.stack = SubSeq(@, 1, d - 1)],
         written' = [written EXCEPT !.open = SubSeq(@, 1, d - 1)]
  PROVE  PInv'
  <1>1. /\ parser \in [tree : Seq(Node), stack : Seq(Nat), root : {0, 1}]
        /\ written \in [parents : Seq(Nat), open : Seq(Nat)]
        /\ written.open = parser.stack
    BY DEF PInv, ParserIsRecord, ParsesWhatIsMeant
  <1>2. d \in 1..Len(parser.stack)
    BY <1>1
  <1> DEFINE stack == SubSeq(parser.stack, 1, d - 1)
  <1>3. /\ stack \in Seq(Nat) /\ DOMAIN stack = 1..d - 1
        /\ \A e \in 1..d - 1 : stack[e] = parser.stack[e]
    BY <1>1, <1>2
  <1> HIDE DEF stack
  <1>4. /\ parser'.tree = parser.tree /\ parser'.root = parser.root
        /\ parser'.stack = stack /\ written'.open = stack
        /\ written'.parents = written.parents
    BY <1>1 DEF stack
  <1>5. ParserIsRecord' /\ RootIsFirst'
    BY <1>1, <1>3, <1>4 DEF PInv, ParserIsRecord, RootIsFirst
  <1>6. ParsesWhatIsMeant'
    BY <1>4 DEF PInv, ParsesWhatIsMeant, Nodes
  <1>7. TreeTypeOK'
    <2>1. ASSUME NEW e \in DOMAIN stack
          PROVE  /\ stack[e] \in Nodes
                 /\ parser.tree[stack[e]].parent = IF e = 1 THEN 0 ELSE stack[e - 1]
      <3>1. e \in 1..d - 1 /\ d \in Nat
        BY <1>2, <1>3
      <3>2. e # 1 => e - 1 \in 1..d - 1
        BY <3>1
      <3>3. e \in DOMAIN parser.stack
        <4>1. parser.stack \in Seq(Nat)
          BY <1>1
        <4>2. DOMAIN parser.stack = 1..Len(parser.stack) /\ Len(parser.stack) \in Nat
          BY <4>1, LenProperties
        <4> QED
          BY <1>2, <3>1, <4>2
      <3> QED
        BY <1>3, <3>1, <3>2, <3>3 DEF PInv, TreeTypeOK
    <2> QED
      BY <1>4, <2>1 DEF PInv, TreeTypeOK, Nodes
  <1>8. DocumentOrder'
    <2>1. Len(stack) \in Nat /\ Len(stack) <= Len(parser.stack) /\ Len(parser.stack) \in Nat
      BY <1>1, <1>2, <1>3
    <2>2. \A e \in 1..Len(stack) : stack[e] = parser.stack[e] /\ e \in 1..Len(parser.stack)
      BY <1>1, <1>2, <1>3, <2>1
    <2> QED
      BY <1>4, <2>2 DEF PInv, DocumentOrder, Laminar, ParsesWhatIsMeant
  <1> QED
    BY <1>5, <1>6, <1>7, <1>8 DEF PInv

(***************************************************************************)
(* The innermost element that has the tag is the one that is meant.        *)
(***************************************************************************)
LEMMA ClosesTheRightOne ==
  ASSUME PInv, NEW d \in DOMAIN parser.stack, NEW tag,
         Tag(parser, parser.stack[d]) = tag,
         \A e \in d + 1..Len(parser.stack) : Tag(parser, parser.stack[e]) # tag
  PROVE  Closed(parser, tag) = [parser EXCEPT !.stack = SubSeq(@, 1, d - 1)]
  <1> DEFINE fit == {e \in DOMAIN parser.stack : Tag(parser, parser.stack[e]) = tag}
  <1>1. DOMAIN parser.stack = 1..Len(parser.stack) /\ Len(parser.stack) \in Nat
    BY DEF PInv, ParserIsRecord
  <1>2. d \in fit /\ fit \subseteq Nat /\ \A e \in fit : d >= e
    BY <1>1
  <1> HIDE DEF fit
  <1>3. Max(fit) = d
    BY <1>2 DEF Max
  <1> QED
    BY <1>2, <1>3 DEF Closed, fit

LEMMA PInvStep == PInv /\ [PageStep]_pageVars => PInv'
  <1> SUFFICES ASSUME PInv, [PageStep]_pageVars PROVE PInv'
    OBVIOUS
  <1>1. /\ parser \in [tree : Seq(Node), stack : Seq(Nat), root : {0, 1}]
        /\ written \in [parents : Seq(Nat), open : Seq(Nat)]
        /\ written.open = parser.stack
        /\ NewNode = Len(parser.tree) + 1
    BY DEF PInv, ParserIsRecord, ParsesWhatIsMeant, NewNode
  \* A first element becomes the root, and any other has one.
  <1>2. (IF parser.stack = <<>> /\ parser.root = 0 THEN Len(parser.tree) + 1
                                                   ELSE parser.root) = 1
    <2>1. CASE parser.tree = <<>>
      <3>1. Nodes = {}
        BY <2>1 DEF Nodes
      <3>2. parser.stack = <<>>
        <4>1. parser.stack \in Seq(Nat)
          BY <1>1
        <4>2. DOMAIN parser.stack = 1..Len(parser.stack) /\ Len(parser.stack) \in Nat
          BY <4>1, LenProperties
        <4>3. 1 \notin DOMAIN parser.stack
          BY <3>1 DEF PInv, TreeTypeOK
        <4>4. Len(parser.stack) \notin Nat \ {0}
          BY <4>2, <4>3
        <4> QED
          BY <4>1, <4>4, EmptySeq
      <3> QED
        BY <1>1, <2>1, <3>2
    <2>2. CASE parser.tree # <<>>
      BY <2>2 DEF PInv, RootIsFirst
    <2> QED
      BY <2>1, <2>2
  <1>3. ASSUME NEW kind \in Kinds, WritesStart(kind) PROVE PInv'
    <2>1. parser' = [tree |-> Append(parser.tree,
                                     [kind |-> kind, parent |-> Top(parser.stack)]),
                     stack |-> Append(parser.stack, Len(parser.tree) + 1), root |-> 1]
      BY <1>2, <1>3 DEF WritesStart, Reads, Piece, Parsed, Opened
    <2>2. written' = [parents |-> Append(written.parents, Top(written.open)),
                      open |-> Append(parser.stack, Len(parser.tree) + 1)]
      BY <1>1, <1>3 DEF WritesStart
    <2> QED
      BY <1>3, <2>1, <2>2, ElementStep DEF WritesStart
  <1>4. ASSUME NEW kind \in Kinds, WritesEmpty(kind) PROVE PInv'
    <2>1. parser' = [tree |-> Append(parser.tree,
                                     [kind |-> kind, parent |-> Top(parser.stack)]),
                     stack |-> parser.stack, root |-> 1]
      BY <1>2, <1>4 DEF WritesEmpty, Reads, Piece, Parsed, Opened
    <2>2. written' = [parents |-> Append(written.parents, Top(written.open)),
                      open |-> parser.stack]
      BY <1>1, <1>4 DEF WritesEmpty
    <2> QED
      BY <1>4, <2>1, <2>2, ElementStep DEF WritesEmpty
  <1>5. ASSUME NEW d \in DOMAIN written.open, WritesEnd(d) PROVE PInv'
    <2> DEFINE tag == parser.tree[parser.stack[d]].kind.tag
    <2>1. /\ parser' = Closed(parser, tag)
          /\ written' = [written EXCEPT !.open = SubSeq(@, 1, d - 1)]
          /\ \A e \in d + 1..Len(parser.stack) : Tag(parser, parser.stack[e]) # tag
      BY <1>1, <1>5 DEF WritesEnd, Reads, Piece, Parsed, Tag
    <2>2. d \in DOMAIN parser.stack /\ Tag(parser, parser.stack[d]) = tag
      BY <1>1 DEF Tag
    <2> HIDE DEF tag
    <2>3. Closed(parser, tag) = [parser EXCEPT !.stack = SubSeq(@, 1, d - 1)]
      BY <2>1, <2>2, ClosesTheRightOne
    <2> QED
      BY <2>1, <2>2, <2>3, EndStep
  <1>6. ASSUME NEW kind \in Kinds, WritesStrayEnd(kind) PROVE PInv'
    <2>1. parser' = Closed(parser, kind.tag) /\ written' = written
      BY <1>6 DEF WritesStrayEnd, Reads, Piece, Parsed
    <2>2. Closed(parser, kind.tag) = parser
      BY <1>1, <1>6 DEF WritesStrayEnd, Closed, Tag
    <2> QED
      BY <2>1, <2>2
      DEF PInv, ParserIsRecord, RootIsFirst, TreeTypeOK, ParsesWhatIsMeant, Nodes, DocumentOrder
  <1>7. ASSUME UNCHANGED pageVars PROVE PInv'
    BY <1>7
    DEF pageVars, PInv, ParserIsRecord, RootIsFirst, TreeTypeOK, ParsesWhatIsMeant, Nodes, DocumentOrder
  <1> QED
    BY <1>3, <1>4, <1>5, <1>6, <1>7 DEF PageStep

-----------------------------------------------------------------------------
LEMMA Least ==
  ASSUME NEW S \in SUBSET Nat, S # {}
  PROVE  \E n \in S : \A m \in S : n <= m
  <1> DEFINE R == OpToRel(<, Nat)
  <1>1. IsWellFoundedOn(R, Nat)
    BY NatLessThanWellFounded
  <1>2. PICK n \in S : \A m \in S : <<m, n>> \notin R
    <2> HIDE DEF R
    <2> QED
      BY <1>1, WFMin
  <1>3. \A m \in S : ~(m < n)
    BY <1>2 DEF OpToRel
  <1> HIDE DEF R
  <1> QED
    BY <1>2, <1>3

\* Induction up to n, from all that is below, and from all that is above.
LEMMA Induction ==
  ASSUME NEW n \in Nat, NEW T, 0 \in T, \A m \in 1..n : m - 1 \in T => m \in T
  PROVE  \A m \in 0..n : m \in T
  <1> DEFINE S == (0..n) \ T
  <1> SUFFICES ASSUME S # {} PROVE FALSE
    OBVIOUS
  <1>1. S \in SUBSET Nat
    OBVIOUS
  <1> HIDE DEF S
  <1>2. PICK m \in S : \A k \in S : m <= k
    BY <1>1, Least
  <1>3. m \in 1..n /\ m - 1 \in 0..n /\ ~(m <= m - 1)
    BY DEF S
  <1> QED
    BY <1>2, <1>3 DEF S

LEMMA FromBelow ==
  ASSUME NEW n \in Nat, NEW T,
         \A m \in 1..n : (\A k \in 1..m - 1 : k \in T) => m \in T
  PROVE  \A m \in 1..n : m \in T
  <1> DEFINE S == (1..n) \ T
  <1> SUFFICES ASSUME S # {} PROVE FALSE
    OBVIOUS
  <1>1. S \in SUBSET Nat
    OBVIOUS
  <1> HIDE DEF S
  <1>2. PICK m \in S : \A k \in S : m <= k
    BY <1>1, Least
  <1>3. m \in 1..n /\ \A k \in 1..m - 1 : k \in 1..n /\ ~(m <= k)
    BY DEF S
  <1> QED
    BY <1>2, <1>3 DEF S

LEMMA FromAbove ==
  ASSUME NEW n \in Nat, NEW T,
         \A m \in 1..n : (\A k \in m + 1..n : k \in T) => m \in T
  PROVE  \A m \in 1..n : m \in T
  <1> DEFINE U == {k \in 1..n : (n + 1) - k \in T}
  <1>1. ASSUME NEW m \in 1..n, \A k \in 1..m - 1 : k \in U PROVE m \in U
    <2>1. (n + 1) - m \in 1..n
      OBVIOUS
    <2>2. ASSUME NEW j \in ((n + 1) - m) + 1..n PROVE j \in T
      <3>1. (n + 1) - j \in 1..m - 1 /\ (n + 1) - ((n + 1) - j) = j
        OBVIOUS
      <3> QED
        BY <1>1, <3>1
    <2> QED
      BY <2>1, <2>2
  <1> HIDE DEF U
  <1>2. \A m \in 1..n : m \in U
    BY <1>1, FromBelow
  <1>3. ASSUME NEW m \in 1..n PROVE m \in T
    <2>1. (n + 1) - m \in 1..n /\ (n + 1) - ((n + 1) - m) = m
      OBVIOUS
    <2> QED
      BY <1>2, <2>1 DEF U
  <1> QED
    BY <1>3

LEMMA MaxIsThere ==
  ASSUME NEW n \in Nat, NEW S \in SUBSET (1..n), S # {}
  PROVE  Max(S) \in S /\ \A i \in S : i <= Max(S)
  <1> DEFINE B == {b \in Nat : \A i \in S : i <= b}
  <1>1. n \in B
    OBVIOUS
  <1>2. PICK b \in B : \A c \in B : b <= c
    <2>1. B \in SUBSET Nat /\ B # {}
      BY <1>1
    <2> HIDE DEF B
    <2> QED
      BY <2>1, Least
  <1>3. b \in Nat /\ \A i \in S : i <= b
    BY <1>2
  <1>4. b \in S
    <2>1. ASSUME b \notin S PROVE FALSE
      <3>1. \A i \in S : i <= b - 1
        BY <1>3, <2>1
      <3>2. b - 1 \in Nat
        <4>1. PICK k \in S : TRUE
          OBVIOUS
        <4>2. k \in 1..n /\ k <= b - 1
          BY <3>1
        <4> QED
          BY <1>3, <4>2
      <3>3. b - 1 \in B
        BY <3>1, <3>2
      <3> QED
        BY <1>2, <1>3, <3>3
    <2> QED
      BY <2>1
  <1>5. \A x \in S : (\A y \in S : x >= y) => x = b
    BY <1>3, <1>4
  <1> QED
    BY <1>3, <1>4, <1>5 DEF Max

\* Of the original of a copy under way only elements that are there are read.
CopyTypeOK ==
  copy # NoCopy =>
    /\ copy.end \in Nodes /\ copy.last \in Kinds
    /\ copy.by \in Nat /\ NewNode - copy.by \in 1..copy.end

LEMMA CopyStep ==
  ASSUME PInv, CopyTypeOK, [TreeNext]_treeVars
  PROVE  [PageStep]_pageVars /\ CopyTypeOK'
  <1>1. /\ Len(parser.tree) \in Nat /\ NewNode = Len(parser.tree) + 1
        /\ \A i \in Nodes : parser.tree[i].kind \in Kinds
        /\ DOMAIN written.open = 1..Len(written.open) /\ Len(written.open) \in Nat
        /\ written.open = <<>> <=> Len(written.open) = 0
    BY EmptySeq DEF PInv, ParserIsRecord, ParsesWhatIsMeant, NewNode, TreeTypeOK
  <1>2. ASSUME copy = NoCopy, PageNext, UNCHANGED <<copies, copy>>
        PROVE  [PageStep]_pageVars /\ CopyTypeOK'
    BY <1>2 DEF PageNext, PageStep, CopyTypeOK
  <1>3. ASSUME NEW last \in Variants, CopyBegins(last)
        PROVE  [PageStep]_pageVars /\ CopyTypeOK'
    <2> DEFINE here == {i \in Nodes : written.parents[i] = Top(written.open)}
               from == Max(here)
    <2>1. here \in SUBSET Nodes /\ here # {}
      BY <1>3 DEF CopyBegins
    <2> HIDE DEF here
    <2>2. from \in Nodes
      BY <1>1, <2>1, MaxIsThere DEF Nodes
    <2> HIDE DEF from
    <2>3. /\ copy' = [end |-> Len(written.parents), by |-> NewNode - from, last |-> last]
          /\ UNCHANGED pageVars /\ from < Len(written.parents)
      BY <1>3 DEF CopyBegins, from, here
    <2>4. Len(written.parents) = Len(parser.tree) /\ last \in Kinds
      BY VariantsAssumption DEF PInv, ParsesWhatIsMeant
    <2> QED
      BY <1>1, <2>2, <2>3, <2>4 DEF CopyTypeOK, pageVars, Nodes, NewNode
  <1>4. ASSUME CopyGoesOn
        PROVE  [PageStep]_pageVars /\ CopyTypeOK'
    <2> DEFINE i == NewNode - copy.by
               kind == IF i = copy.end THEN copy.last ELSE parser.tree[i].kind
    <2>1. /\ copy # NoCopy /\ copy.end \in Nodes /\ copy.last \in Kinds
          /\ copy.by \in Nat /\ i \in 1..copy.end
      BY <1>4 DEF CopyGoesOn, CopyTypeOK
    <2>2. CASE written.open # <<>> /\ WritesEnd(Len(written.open)) /\ UNCHANGED copy
      <3>1. Len(written.open) \in DOMAIN written.open
        BY <1>1, <2>2
      <3>2. PageStep /\ Nodes' = Nodes /\ NewNode' = NewNode
        BY <1>1, <2>2, <3>1 DEF PageStep, WritesEnd, Reads, Parsed, Piece, Closed, Nodes,
                           NewNode, PInv, ParserIsRecord
      <3> QED
        BY <2>1, <2>2, <3>2 DEF CopyTypeOK
    <2>3. CASE /\ WritesStart(kind) \/ WritesEmpty(kind)
               /\ copy' = IF i = copy.end THEN NoCopy ELSE copy
      <3>1. kind \in Kinds
        BY <1>1, <2>1 DEF Nodes
      <3> HIDE DEF kind
      <3>2. PageStep
        BY <2>3, <3>1 DEF PageStep
      <3>3. Nodes \subseteq Nodes' /\ NewNode' = NewNode + 1
        <4>1. /\ written \in [parents : Seq(Nat), open : Seq(Nat)] /\ Top(written.open) \in Nat
              /\ Len(parser'.tree) = Len(written'.parents)
          BY <3>2, PInvStep, TopIsOlder, <1>1 DEF PInv, ParserIsRecord, ParsesWhatIsMeant
        <4>2. written'.parents = Append(written.parents, Top(written.open))
          BY <2>3, <4>1 DEF WritesStart, WritesEmpty
        <4> QED
          BY <1>1, <4>1, <4>2 DEF Nodes, NewNode
      <3> QED
        BY <1>1, <2>1, <2>3, <3>2, <3>3 DEF CopyTypeOK, NoCopy, Nodes
    <2> QED
      BY <1>4, <2>2, <2>3 DEF CopyGoesOn
  <1>5. ASSUME UNCHANGED treeVars
        PROVE  [PageStep]_pageVars /\ CopyTypeOK'
    BY <1>5 DEF treeVars, pageVars, CopyTypeOK, Nodes, NewNode
  <1> QED
    BY <1>2, <1>3, <1>4, <1>5 DEF TreeNext

THEOREM TreeInvariance == TreeSpec => [](PInv /\ CopyTypeOK)
  <1>1. TreeInit => PInv /\ CopyTypeOK
    BY PageInitPInv DEF TreeInit, CopyTypeOK
  <1>2. PInv /\ CopyTypeOK /\ [TreeNext]_treeVars => (PInv /\ CopyTypeOK)'
    BY CopyStep, PInvStep
  <1> QED
    BY <1>1, <1>2, PTL DEF TreeSpec

(***************************************************************************)
(* In a document of any length every element is parsed under an earlier    *)
(* one, the first has no parent, and the stack is a path in the tree.      *)
(***************************************************************************)
THEOREM TreeTypes == TreeSpec => []TreeTypeOK
  <1>1. PInv => TreeTypeOK
    BY DEF PInv
  <1> QED
    BY <1>1, TreeInvariance, PTL

(***************************************************************************)
(* Whatever end tags are missing or stray, and however deep, the tree that *)
(* parseXml() builds is the one the document means.                        *)
(***************************************************************************)
THEOREM ParsesRight == TreeSpec => []ParsesWhatIsMeant
  <1>1. PInv => ParsesWhatIsMeant
    BY DEF PInv
  <1> QED
    BY <1>1, TreeInvariance, PTL

-----------------------------------------------------------------------------
(* Sequences that list what the numbers of a set have, in the order of the *)
(* numbers.                                                                *)

Enumerates(e, K) ==
  /\ e \in Seq(K)
  /\ \A j, k \in 1..Len(e) : j < k => e[j] < e[k]
  /\ \A x \in K : \E k \in 1..Len(e) : e[k] = x

Lists(s, K, F, V) ==
  /\ s \in Seq(V)
  /\ \E e : /\ Enumerates(e, K) /\ Len(e) = Len(s)
            /\ \A k \in 1..Len(s) : s[k] = F[e[k]]

LEMMA EnumerationIsInjective ==
  ASSUME NEW K \in SUBSET Nat, NEW e, Enumerates(e, K)
  PROVE  /\ Len(e) \in Nat /\ \A k \in 1..Len(e) : e[k] \in K /\ e[k] \in Nat
         /\ \A j, k \in 1..Len(e) : e[j] <= e[k] <=> j <= k
  <1>1. e \in Seq(K) /\ \A j, k \in 1..Len(e) : j < k => e[j] < e[k]
    BY DEF Enumerates
  <1>2. Len(e) \in Nat /\ \A k \in 1..Len(e) : e[k] \in K
    BY <1>1, ElementOfSeq, LenProperties
  <1>3. \A k \in 1..Len(e) : e[k] \in Nat
    BY <1>2
  <1>4. ASSUME NEW j \in 1..Len(e), NEW k \in 1..Len(e) PROVE e[j] <= e[k] <=> j <= k
    <2>1. e[j] \in Nat /\ e[k] \in Nat /\ j \in Nat /\ k \in Nat
      BY <1>2, <1>3
    <2>2. (j < k => e[j] < e[k]) /\ (k < j => e[k] < e[j])
      BY <1>1
    <2> QED
      BY <2>1, <2>2
  <1> QED
    BY <1>2, <1>3, <1>4

LEMMA UpTo ==
  ASSUME NEW n \in Nat
  PROVE  IsFiniteSet(1..n) /\ Cardinality(1..n) = n
  <1>1. 1 \in Int /\ n \in Int /\ (IF 1 > n THEN 0 ELSE n - 1 + 1) = n
    OBVIOUS
  <1> QED
    BY <1>1, FS_Interval

LEMMA InOrderIs ==
  ASSUME NEW K \in SUBSET Nat, NEW e, Enumerates(e, K), NEW F
  PROVE  InOrder({<<x, F[x]>> : x \in K}) = [k \in 1..Len(e) |-> F[e[k]]]
  <1> DEFINE n == Len(e)
             P == {<<x, F[x]>> : x \in K}
             Upto(k) == {q \in P : q[1] <= e[k]}
             b == [k \in 1..n |-> <<e[k], F[e[k]]>>]
  <1>1. /\ n \in Nat /\ \A k \in 1..n : e[k] \in K /\ e[k] \in Nat
        /\ \A j, k \in 1..n : e[j] <= e[k] <=> j <= k
    BY EnumerationIsInjective
  <1>2. ASSUME NEW j \in 1..n, NEW k \in 1..n, e[j] = e[k] PROVE j = k
    <2>1. e[j] <= e[k] /\ e[k] <= e[j]
      BY <1>1, <1>2
    <2> QED
      BY <1>1, <2>1
  <1>3. \A p \in P : \E k \in 1..n : p = b[k]
    BY DEF Enumerates
  <1>4. \A k \in 1..n : b[k] \in P /\ b[k][1] = e[k] /\ b[k][2] = F[e[k]]
    BY <1>1
  <1> HIDE DEF b, P
  <1>5. Cardinality(P) = n
    <2>1. b \in [1..n -> P]
      BY <1>4 DEF b
    <2>2. \A j, k \in 1..n : b[j] = b[k] => j = k
      BY <1>2, <1>4
    <2>3. b \in Bijection(1..n, P)
      BY <1>3, <2>1, <2>2, Fun_IsBij
    <2>4. IsFiniteSet(1..n) /\ Cardinality(1..n) = n
      BY <1>1, UpTo
    <2> QED
      BY <2>3, <2>4, FS_Bijection DEF ExistsBijection
  <1>6. ASSUME NEW k \in 1..n PROVE Cardinality(Upto(k)) = k
    <2> DEFINE c == [j \in 1..k |-> b[j]]
    <2>1. k \in 1..n /\ \A j \in 1..k : j \in 1..n
      BY <1>1
    <2>2. \A j \in 1..k : c[j] = b[j] /\ c[j] \in Upto(k)
      BY <1>1, <1>4, <2>1
    <2>3. \A j, m \in 1..k : c[j] = c[m] => j = m
      BY <1>2, <1>4, <2>1
    <2>4. ASSUME NEW q \in Upto(k) PROVE \E j \in 1..k : c[j] = q
      <3>1. PICK j \in 1..n : q = b[j]
        BY <1>3
      <3>2. e[j] <= e[k]
        BY <1>4, <3>1
      <3>3. j \in 1..k
        BY <1>1, <3>2
      <3> QED
        BY <3>1, <3>3
    <2>5. c \in [1..k -> Upto(k)]
      BY <2>2
    <2> HIDE DEF c, Upto
    <2>6. c \in Bijection(1..k, Upto(k))
      BY <2>3, <2>4, <2>5, Fun_IsBij
    <2>7. IsFiniteSet(1..k) /\ Cardinality(1..k) = k
      BY <2>1, UpTo
    <2> QED
      BY <2>6, <2>7, FS_Bijection DEF ExistsBijection
  <1>7. ASSUME NEW k \in 1..n
        PROVE  (CHOOSE p \in P : Cardinality({q \in P : q[1] <= p[1]}) = k) = b[k]
    <2>1. b[k] \in P /\ Cardinality({q \in P : q[1] <= b[k][1]}) = k
      BY <1>4, <1>6
    <2>2. ASSUME NEW p \in P, Cardinality({q \in P : q[1] <= p[1]}) = k
          PROVE  p = b[k]
      <3>1. PICK j \in 1..n : p = b[j]
        BY <1>3
      <3>2. Cardinality({q \in P : q[1] <= p[1]}) = j
        BY <1>4, <1>6, <3>1
      <3> QED
        BY <2>2, <3>1, <3>2
    <2> QED
      BY <2>1, <2>2
  <1>8. \A k \in 1..n :
          (CHOOSE p \in P : Cardinality({q \in P : q[1] <= p[1]}) = k)[2] = F[e[k]]
    BY <1>4, <1>7
  <1> HIDE DEF n
  <1>9. InOrder(P) = [k \in 1..n |-> F[e[k]]]
    BY <1>5, <1>8 DEF InOrder
  <1> QED
    BY <1>9 DEF P, n

LEMMA ListsInOrder ==
  ASSUME NEW K \in SUBSET Nat, NEW F, NEW V, NEW s, Lists(s, K, F, V)
  PROVE  InOrder({<<x, F[x]>> : x \in K}) = s
  <1>1. PICK e : /\ Enumerates(e, K) /\ Len(e) = Len(s)
                 /\ \A k \in 1..Len(s) : s[k] = F[e[k]]
    BY DEF Lists
  <1>2. InOrder({<<x, F[x]>> : x \in K}) = [k \in 1..Len(e) |-> F[e[k]]]
    BY <1>1, InOrderIs
  <1>3. s = [k \in 1..Len(s) |-> s[k]]
    BY DEF Lists
  <1> QED
    BY <1>1, <1>2, <1>3

LEMMA ListsNone ==
  ASSUME NEW F, NEW V
  PROVE  Lists(<<>>, {}, F, V)
  <1>1. Enumerates(<<>>, {})
    BY DEF Enumerates
  <1> QED
    BY <1>1 DEF Lists

LEMMA ListsOne ==
  ASSUME NEW x \in Nat, NEW F, NEW V, F[x] \in V
  PROVE  Lists(<<F[x]>>, {x}, F, V)
  <1>1. <<x>> \in Seq({x}) /\ Len(<<x>>) = 1 /\ <<x>>[1] = x
    OBVIOUS
  <1>2. Enumerates(<<x>>, {x})
    BY <1>1 DEF Enumerates
  <1>3. <<F[x]>> \in Seq(V) /\ Len(<<F[x]>>) = 1 /\ <<F[x]>>[1] = F[x]
    OBVIOUS
  <1> QED
    BY <1>1, <1>2, <1>3 DEF Lists

LEMMA ListsEmpty ==
  ASSUME NEW K, NEW F, NEW V, NEW s, Lists(s, K, F, V)
  PROVE  s = <<>> <=> K = {}
  <1>1. PICK e : Enumerates(e, K) /\ Len(e) = Len(s) /\ s \in Seq(V)
    BY DEF Lists
  <1>2. /\ e \in Seq(K) /\ \A x \in K : \E k \in 1..Len(e) : e[k] = x
        /\ Len(e) \in Nat /\ \A k \in 1..Len(e) : e[k] \in K
    BY <1>1, ElementOfSeq, LenProperties DEF Enumerates
  <1>3. CASE Len(e) = 0
    <2>1. s = <<>>
      BY <1>1, <1>3, EmptySeq
    <2>2. 1..Len(e) = {}
      BY <1>3
    <2> QED
      BY <1>2, <2>1, <2>2
  <1>4. CASE Len(e) # 0
    <2>1. 1 \in 1..Len(e)
      BY <1>2, <1>4
    <2> QED
      BY <1>1, <1>2, <1>4, <2>1, EmptySeq
  <1> QED
    BY <1>3, <1>4

LEMMA ListsSame ==
  ASSUME NEW K, NEW F, NEW G, NEW V, NEW s, Lists(s, K, F, V), \A x \in K : F[x] = G[x]
  PROVE  Lists(s, K, G, V)
  <1>1. PICK e : /\ Enumerates(e, K) /\ Len(e) = Len(s)
                 /\ \A k \in 1..Len(s) : s[k] = F[e[k]]
    BY DEF Lists
  <1>2. \A k \in 1..Len(s) : e[k] \in K
    BY <1>1, ElementOfSeq DEF Enumerates
  <1> QED
    BY <1>1, <1>2 DEF Lists

\* Two lists, all of the first before the second.
LEMMA ListsBoth ==
  ASSUME NEW A \in SUBSET Nat, NEW B \in SUBSET Nat, NEW F, NEW V, NEW s, NEW t,
         Lists(s, A, F, V), Lists(t, B, F, V), \A x \in A, y \in B : x < y
  PROVE  Lists(s \o t, A \union B, F, V)
  <1>1. PICK e : /\ Enumerates(e, A) /\ Len(e) = Len(s)
                 /\ \A k \in 1..Len(s) : s[k] = F[e[k]]
    BY DEF Lists
  <1>2. PICK d : /\ Enumerates(d, B) /\ Len(d) = Len(t)
                 /\ \A k \in 1..Len(t) : t[k] = F[d[k]]
    BY DEF Lists
  <1> DEFINE u == s \o t
             c == e \o d
             m == Len(s)
             n == Len(t)
  <1>3. /\ s \in Seq(V) /\ t \in Seq(V) /\ m \in Nat /\ n \in Nat
        /\ u \in Seq(V) /\ Len(u) = m + n
        /\ \A i \in 1..m + n : u[i] = IF i <= m THEN s[i] ELSE t[i - m]
    BY ConcatProperties, LenProperties DEF Lists
  <1>4. e \in Seq(A \union B) /\ d \in Seq(A \union B)
    BY <1>1, <1>2, SeqMonotonic DEF Enumerates
  <1>5. /\ c \in Seq(A \union B) /\ Len(c) = m + n
        /\ \A i \in 1..m + n : c[i] = IF i <= m THEN e[i] ELSE d[i - m]
    <2>1. /\ c \in Seq(A \union B) /\ Len(c) = Len(e) + Len(d)
          /\ \A i \in 1..Len(e) + Len(d) : c[i] = IF i <= Len(e) THEN e[i] ELSE d[i - Len(e)]
      BY <1>4, ConcatProperties
    <2> QED
      BY <1>1, <1>2, <2>1
  <1>6. /\ \A k \in 1..m : e[k] \in A /\ \A j \in 1..m : j < k => e[j] < e[k]
        /\ \A k \in 1..n : d[k] \in B /\ \A j \in 1..n : j < k => d[j] < d[k]
        /\ \A x \in A : \E k \in 1..m : e[k] = x
        /\ \A x \in B : \E k \in 1..n : d[k] = x
    BY <1>1, <1>2, ElementOfSeq DEF Enumerates
  <1>7. /\ \A k \in 1..m : s[k] = F[e[k]]
        /\ \A k \in 1..n : t[k] = F[d[k]]
    BY <1>1, <1>2
  <1> HIDE DEF u, c, m, n
  <1>8. \A i \in 1..m + n : (i \in 1..m /\ i <= m) \/ (i - m \in 1..n /\ ~(i <= m))
    BY <1>3
  <1>9. ASSUME NEW j \in 1..m + n, NEW k \in 1..m + n, j < k PROVE c[j] < c[k]
    <2>1. CASE k <= m
      BY <1>3, <1>5, <1>6, <1>9, <2>1
    <2>2. CASE j <= m /\ ~(k <= m)
      BY <1>3, <1>5, <1>6, <1>8, <2>2
    <2>3. CASE ~(j <= m)
      <3>1. j - m \in 1..n /\ k - m \in 1..n /\ j - m < k - m /\ ~(k <= m)
        BY <1>3, <1>8, <1>9, <2>3
      <3> QED
        BY <1>5, <1>6, <2>3, <3>1
    <2> QED
      BY <2>1, <2>2, <2>3
  <1>10. ASSUME NEW x \in A \union B PROVE \E k \in 1..m + n : c[k] = x
    <2>1. CASE x \in A
      <3>1. PICK k \in 1..m : e[k] = x
        BY <1>6, <2>1
      <3>2. k \in 1..m + n /\ k <= m
        BY <1>3
      <3> QED
        BY <1>5, <3>1, <3>2
    <2>2. CASE x \in B
      <3>1. PICK k \in 1..n : d[k] = x
        BY <1>6, <2>2
      <3>2. PICK i \in 1..m + n : ~(i <= m) /\ i - m = k
        <4>1. k + m \in 1..m + n /\ ~(k + m <= m) /\ (k + m) - m = k
          BY <1>3
        <4> QED
          BY <4>1
      <3> QED
        BY <1>5, <3>1, <3>2
    <2> QED
      BY <2>1, <2>2
  <1>11. Enumerates(c, A \union B)
    BY <1>5, <1>9, <1>10 DEF Enumerates
  <1>12. ASSUME NEW i \in 1..m + n PROVE u[i] = F[c[i]]
    BY <1>3, <1>5, <1>7, <1>8
  <1> QED
    BY <1>3, <1>5, <1>11, <1>12 DEF Lists, u

LEMMA ListExists ==
  ASSUME NEW n \in Nat, NEW K \in SUBSET (1..n), NEW F, NEW V, \A x \in K : F[x] \in V
  PROVE  \E s : Lists(s, K, F, V)
  <1> DEFINE Upto(m) == K \intersect 1..m
             T == {m \in 0..n : \E s : Lists(s, Upto(m), F, V)}
  <1>1. 0 \in T
    <2>1. Upto(0) = {} /\ 0 \in 0..n
      OBVIOUS
    <2> QED
      BY <2>1, ListsNone
  <1>2. ASSUME NEW m \in 1..n, m - 1 \in T PROVE m \in T
    <2>1. PICK s : Lists(s, Upto(m - 1), F, V)
      BY <1>2
    <2>2. m \in 0..n
      OBVIOUS
    <2>3. CASE m \in K
      <3>1. Lists(<<F[m]>>, {m}, F, V)
        BY <2>3, ListsOne
      <3>2. Upto(m) = Upto(m - 1) \union {m} /\ \A x \in Upto(m - 1), y \in {m} : x < y
        BY <2>3
      <3>3. Upto(m - 1) \in SUBSET Nat /\ {m} \in SUBSET Nat
        OBVIOUS
      <3> HIDE DEF Upto
      <3>4. Lists(s \o <<F[m]>>, Upto(m - 1) \union {m}, F, V)
        BY <2>1, <3>1, <3>2, <3>3, ListsBoth
      <3> QED
        BY <2>2, <3>2, <3>4
    <2>4. CASE m \notin K
      <3>1. Upto(m) = Upto(m - 1)
        BY <2>4
      <3> QED
        BY <2>1, <2>2, <3>1
    <2> QED
      BY <2>3, <2>4
  <1> HIDE DEF T
  <1>3. n \in T
    BY <1>1, <1>2, Induction
  <1>4. Upto(n) = K
    OBVIOUS
  <1> QED
    BY <1>3, <1>4 DEF T

\* FlattenSeq() adds one sequence after the other.
LEMMA FlattenIs ==
  ASSUME NEW V, NEW g \in Seq(Seq(V))
  PROVE  \E f \in [0..Len(g) -> Seq(V)] :
           /\ f[0] = <<>> /\ FlattenSeq(g) = f[Len(g)]
           /\ \A k \in 1..Len(g) : f[k] = f[k - 1] \o g[k]
  <1> DEFINE n == Len(g)
             Is(h, m) == h = [i \in 1..m |-> IF i = 1 THEN g[i] ELSE h[i - 1] \o g[i]]
             T == {m \in 0..n : \E h : Is(h, m)}
             H == CHOOSE h : Is(h, n)
             f == [k \in 0..n |-> IF k = 0 THEN <<>> ELSE H[k]]
  <1>1. n \in Nat /\ \A k \in 1..n : g[k] \in Seq(V)
    BY ElementOfSeq, LenProperties
  <1> HIDE DEF n
  <1>2. 0 \in T
    <2> DEFINE h == [i \in 1..0 |-> <<>>]
    <2>1. Is(h, 0)
      OBVIOUS
    <2>2. 0 \in 0..n
      BY <1>1
    <2> HIDE DEF h, Is
    <2> QED
      BY <2>1, <2>2
  <1>3. ASSUME NEW m \in 1..n, m - 1 \in T PROVE m \in T
    <2>1. PICK h : Is(h, m - 1)
      BY <1>3
    <2> DEFINE h2 == [i \in 1..m |-> IF i = 1 THEN g[i] ELSE h[i - 1] \o g[i]]
    <2>2. ASSUME NEW i \in 1..m - 1 PROVE h2[i] = h[i]
      <3>1. h[i] = IF i = 1 THEN g[i] ELSE h[i - 1] \o g[i]
        BY <2>1, Zenon
      <3>2. i \in 1..m
        OBVIOUS
      <3> QED
        BY <3>1, <3>2
    <2>3. Is(h2, m)
      <3>1. \A i \in 1..m : i # 1 => i - 1 \in 1..m - 1
        BY <1>1
      <3>2. \A i \in 1..m : i # 1 => h2[i - 1] = h[i - 1]
        BY <2>2, <3>1
      <3> QED
        BY <3>2
    <2>4. m \in 0..n
      BY <1>1
    <2> QED
      BY <2>3, <2>4
  <1> HIDE DEF T
  <1>4. n \in T
    <2>1. n \in 0..n
      BY <1>1
    <2> QED
      BY <1>1, <1>2, <1>3, <2>1, Induction
  <1>5. Is(H, n)
    BY <1>4 DEF T
  <1>6. FlattenSeq(g) = f[n]
    <2>1. n = 0 => g = <<>>
      BY <1>1, EmptySeq DEF n
    <2> QED
      BY <1>1, <2>1 DEF FlattenSeq, n
  <1> HIDE DEF H
  <1>7. ASSUME NEW k \in 1..n PROVE f[k] = f[k - 1] \o g[k]
    <2>1. f[k] = H[k] /\ f[k - 1] = (IF k = 1 THEN <<>> ELSE H[k - 1])
      BY <1>1
    <2>2. H[k] = IF k = 1 THEN g[k] ELSE H[k - 1] \o g[k]
      BY <1>5, Zenon
    <2>3. <<>> \o g[k] = g[k]
      BY <1>1, ConcatEmptySeq
    <2> QED
      BY <2>1, <2>2, <2>3, Zenon
  <1>8. f[0] = <<>>
    BY <1>1
  <1>9. f = [k \in 0..n |-> f[k]]
    OBVIOUS
  <1> HIDE DEF f, Is
  <1>10. \A k \in 0..n : f[k] \in Seq(V)
    <2> DEFINE U == {k \in 0..n : f[k] \in Seq(V)}
    <2>1. 0 \in U
      <3>1. 0 \in 0..n /\ f[0] \in Seq(V)
        BY <1>1, <1>8, EmptySeq
      <3> QED
        BY <3>1
    <2>2. ASSUME NEW k \in 1..n, k - 1 \in U PROVE k \in U
      <3>1. f[k - 1] \o g[k] \in Seq(V)
        BY <1>1, <2>2, ConcatProperties
      <3>2. k \in 0..n
        BY <1>1
      <3>3. f[k] \in Seq(V)
        BY <1>7, <3>1, Zenon
      <3> QED
        BY <3>2, <3>3
    <2> HIDE DEF U
    <2>3. \A k \in 0..n : k \in U
      BY <1>1, <2>1, <2>2, Induction
    <2> QED
      BY <2>3 DEF U
  <1>11. f \in [0..n -> Seq(V)]
    BY <1>9, <1>10
  <1> QED
    BY <1>6, <1>7, <1>8, <1>11 DEF n

\* One list for each number of C, and all together.
LEMMA ListsGroups ==
  ASSUME NEW C \in SUBSET Nat, NEW e, Enumerates(e, C),
         NEW V, NEW g \in Seq(Seq(V)), Len(g) = Len(e),
         NEW B, \A c \in C : B[c] \in SUBSET Nat, NEW F,
         \A k \in 1..Len(g) : Lists(g[k], B[e[k]], F, V),
         \A c, d \in C : c < d => \A x \in B[c], y \in B[d] : x < y,
         NEW U, \A x : x \in U <=> \E c \in C : x \in B[c]
  PROVE  Lists(FlattenSeq(g), U, F, V)
  <1> DEFINE n == Len(g)
             Upto(k) == UNION {B[e[j]] : j \in 1..k}
  <1>1. /\ n \in Nat /\ \A k \in 1..n : e[k] \in C
        /\ \A j, k \in 1..n : j < k => e[j] < e[k]
        /\ \A c \in C : \E k \in 1..n : e[k] = c
    BY EnumerationIsInjective DEF Enumerates
  <1>2. PICK f \in [0..n -> Seq(V)] : /\ f[0] = <<>> /\ FlattenSeq(g) = f[n]
                                      /\ \A k \in 1..n : f[k] = f[k - 1] \o g[k]
    BY FlattenIs
  <1> HIDE DEF n
  <1> DEFINE T == {k \in 0..n : Lists(f[k], Upto(k), F, V)}
  <1>3. 0 \in T
    <2>1. Upto(0) = {} /\ 0 \in 0..n
      BY <1>1
    <2> HIDE DEF Upto
    <2> QED
      BY <1>2, <2>1, ListsNone
  <1>4. ASSUME NEW k \in 1..n, k - 1 \in T PROVE k \in T
    <2>1. k \in 0..n /\ Lists(f[k - 1], Upto(k - 1), F, V)
      BY <1>1, <1>4
    <2>2. Lists(g[k], B[e[k]], F, V)
      BY DEF n
    <2>3. Upto(k) = Upto(k - 1) \union B[e[k]]
      <3>1. 1..k = (1..k - 1) \union {k}
        BY <1>1
      <3> QED
        BY <3>1
    <2>4. Upto(k - 1) \in SUBSET Nat /\ B[e[k]] \in SUBSET Nat
      <3>1. \A j \in 1..k - 1 : j \in 1..n
        BY <1>1
      <3>2. \A j \in 1..n : B[e[j]] \in SUBSET Nat
        BY <1>1
      <3> QED
        BY <3>1, <3>2
    <2>5. ASSUME NEW x \in Upto(k - 1), NEW y \in B[e[k]] PROVE x < y
      <3>1. PICK j \in 1..k - 1 : x \in B[e[j]]
        OBVIOUS
      <3>2. j \in 1..n /\ j < k
        BY <1>1
      <3>3. e[j] < e[k] /\ e[j] \in C /\ e[k] \in C
        BY <1>1, <3>2
      <3> QED
        BY <3>1, <3>3
    <2> HIDE DEF Upto
    <2>6. Lists(f[k - 1] \o g[k], Upto(k - 1) \union B[e[k]], F, V)
      BY <2>1, <2>2, <2>4, <2>5, ListsBoth
    <2>7. f[k] = f[k - 1] \o g[k]
      BY <1>2
    <2>8. Lists(f[k], Upto(k), F, V)
      BY <2>3, <2>6, <2>7
    <2> QED
      BY <2>1, <2>8
  <1> HIDE DEF T
  <1>5. n \in T
    <2>1. n \in 0..n
      BY <1>1
    <2> QED
      BY <1>1, <1>3, <1>4, <2>1, Induction
  <1>6. Upto(n) = U
    <2>1. \A x \in U : \E k \in 1..n : x \in B[e[k]]
      BY <1>1
    <2>2. \A k \in 1..n : B[e[k]] \subseteq U
      BY <1>1
    <2> QED
      BY <2>1, <2>2
  <1> QED
    BY <1>2, <1>5, <1>6 DEF T

-----------------------------------------------------------------------------
(* What is above a node, and what is below it.                             *)

Up(i) == parser.tree[i].parent

\* The nodes of a subtree.
Sub(i) == {m \in Nodes : m = i \/ i \in Above(m)}

LEMMA ParentsOrdered ==
  ASSUME PInv
  PROVE  /\ Len(parser.tree) \in Nat
         /\ \A i \in Nodes : Up(i) \in 0..i - 1 /\ (Up(i) = 0 <=> i = 1)
         /\ \A i, j \in Nodes : Up(j) < i /\ i < j => Up(i) >= Up(j)
  <1>1. Len(parser.tree) \in Nat /\ Len(written.parents) = Len(parser.tree)
    BY DEF PInv, ParserIsRecord, ParsesWhatIsMeant
  <1>2. \A i \in Nodes : Up(i) = written.parents[i]
    BY DEF PInv, ParsesWhatIsMeant, Up
  <1>3. Nodes = 1..Len(written.parents)
    BY <1>1 DEF Nodes
  <1>4. /\ \A i \in Nodes : written.parents[i] \in 0..i - 1
                            /\ (written.parents[i] = 0 <=> i = 1)
        /\ \A i, j \in Nodes : written.parents[j] < i /\ i < j
                               => written.parents[i] >= written.parents[j]
    BY <1>3 DEF PInv, DocumentOrder, Laminar
  <1> QED
    BY <1>1, <1>2, <1>4

LEMMA AboveIs ==
  ASSUME PInv
  PROVE  \A i \in Nodes : Above(i) = IF Up(i) = 0 THEN {} ELSE {Up(i)} \union Above(Up(i))
  <1> DEFINE N == Len(parser.tree)
             Is(h, m) == h = [j \in 1..m |-> IF Up(j) = 0 THEN {} ELSE {Up(j)} \union h[Up(j)]]
             T == {m \in 0..N : \E h : Is(h, m)}
             H == CHOOSE h : Is(h, N)
  <1>1. N \in Nat /\ Nodes = 1..N /\ \A i \in 1..N : Up(i) \in 0..i - 1
    BY ParentsOrdered DEF Nodes
  <1> HIDE DEF N
  <1>2. 0 \in T
    <2> DEFINE h == [i \in 1..0 |-> {}]
    <2>1. Is(h, 0)
      OBVIOUS
    <2>2. 0 \in 0..N
      BY <1>1
    <2> HIDE DEF h, Is
    <2> QED
      BY <2>1, <2>2
  <1>3. ASSUME NEW m \in 1..N, m - 1 \in T PROVE m \in T
    <2>1. PICK h : Is(h, m - 1)
      BY <1>3
    <2> DEFINE h2 == [j \in 1..m |-> IF Up(j) = 0 THEN {} ELSE {Up(j)} \union h[Up(j)]]
    <2>2. ASSUME NEW i \in 1..m - 1 PROVE h2[i] = h[i]
      <3>1. h[i] = IF Up(i) = 0 THEN {} ELSE {Up(i)} \union h[Up(i)]
        BY <2>1, Zenon
      <3>2. i \in 1..m
        BY <1>1
      <3> QED
        BY <3>1, <3>2
    <2>3. Is(h2, m)
      <3>1. \A i \in 1..m : Up(i) # 0 => Up(i) \in 1..m - 1
        BY <1>1
      <3>2. \A i \in 1..m : Up(i) # 0 => h2[Up(i)] = h[Up(i)]
        BY <2>2, <3>1
      <3> QED
        BY <3>2
    <2>4. m \in 0..N
      BY <1>1
    <2> QED
      BY <2>3, <2>4
  <1> HIDE DEF T
  <1>4. N \in T
    <2>1. N \in 0..N
      BY <1>1
    <2> QED
      BY <1>1, <1>2, <1>3, <2>1, Induction
  <1>5. Is(H, N)
    BY <1>4 DEF T
  <1>6. \A i : Above(i) = H[i]
    BY <1>1 DEF Above, Up
  <1> HIDE DEF H
  <1>7. \A i \in Nodes : H[i] = IF Up(i) = 0 THEN {} ELSE {Up(i)} \union H[Up(i)]
    BY <1>1, <1>5, Zenon
  <1> QED
    BY <1>6, <1>7

\* What is above a node is older, and all that is above that is above the node too.
LEMMA AboveIsTransitive ==
  ASSUME PInv
  PROVE  \A m \in Nodes : /\ Above(m) \subseteq Nodes /\ \A j \in Above(m) : j < m
                          /\ \A j \in Above(m) : Above(j) \subseteq Above(m)
  <1> DEFINE N == Len(parser.tree)
             T == {m \in Nodes : /\ Above(m) \subseteq Nodes /\ \A j \in Above(m) : j < m
                                 /\ \A j \in Above(m) : Above(j) \subseteq Above(m)}
  <1>1. N \in Nat /\ Nodes = 1..N /\ \A i \in 1..N : Up(i) \in 0..i - 1
    BY ParentsOrdered DEF Nodes
  <1> HIDE DEF N
  <1>2. ASSUME NEW m \in 1..N, \A k \in 1..m - 1 : k \in T PROVE m \in T
    <2>1. Above(m) = IF Up(m) = 0 THEN {} ELSE {Up(m)} \union Above(Up(m))
      BY <1>1, AboveIs
    <2>2. CASE Up(m) = 0
      BY <1>1, <2>1, <2>2
    <2>3. CASE Up(m) # 0
      <3>1. Up(m) \in 1..m - 1 /\ Up(m) \in Nodes /\ Up(m) \in Nat /\ m \in Nat
        BY <1>1, <2>3
      <3>2. /\ Above(Up(m)) \subseteq Nodes /\ \A j \in Above(Up(m)) : j < Up(m)
            /\ \A j \in Above(Up(m)) : Above(j) \subseteq Above(Up(m))
        BY <1>2, <3>1
      <3>3. Above(m) = {Up(m)} \union Above(Up(m))
        BY <2>1, <2>3
      <3>4. ASSUME NEW j \in Above(m)
            PROVE  j < m /\ Above(j) \subseteq Above(m)
        <4>1. CASE j = Up(m)
          BY <3>1, <3>3, <4>1
        <4>2. CASE j \in Above(Up(m))
          <5>1. j \in Nat /\ j < Up(m)
            BY <1>1, <3>2, <4>2
          <5> QED
            BY <3>1, <3>2, <3>3, <4>2, <5>1
        <4> QED
          BY <3>3, <4>1, <4>2
      <3>5. Above(m) \subseteq Nodes
        BY <3>1, <3>2, <3>3
      <3> QED
        BY <1>1, <3>4, <3>5
    <2> QED
      BY <2>2, <2>3
  <1> HIDE DEF T
  <1>3. \A m \in 1..N : m \in T
    BY <1>1, <1>2, FromBelow
  <1> QED
    BY <1>1, <1>3 DEF T

LEMMA ChildIsBelow ==
  ASSUME PInv, NEW i \in Nodes, NEW c \in Children(i)
  PROVE  /\ c \in Nodes /\ Up(c) = i /\ i < c /\ i \in Nat /\ c \in Nat
         /\ Above(c) = {i} \union Above(i)
         /\ Sub(c) \subseteq Sub(i) \ {i} /\ \A m \in Sub(c) : i \in Above(m) /\ c <= m
  <1>1. c \in Nodes /\ Up(c) = i
    BY DEF Children, Up
  <1>2. i \in Nat \ {0} /\ c \in Nat /\ i < c
    BY <1>1, ParentsOrdered DEF Nodes
  <1>3. Above(c) = {i} \union Above(i)
    BY <1>1, <1>2, AboveIs
  <1>4. ASSUME NEW m \in Sub(c) PROVE m \in Nodes /\ i \in Above(m) /\ i < m /\ c <= m
    <2>1. m \in Nodes /\ m \in Nat
      BY ParentsOrdered DEF Sub, Nodes
    <2>2. CASE m = c
      BY <1>2, <1>3, <2>1, <2>2
    <2>3. CASE c \in Above(m)
      BY <1>2, <1>3, <2>1, <2>3, AboveIsTransitive
    <2> QED
      BY <2>2, <2>3 DEF Sub
  <1>5. ASSUME NEW m \in Sub(c) PROVE m \in Sub(i) \ {i}
    <2>1. m \in Nodes /\ i \in Above(m) /\ i < m
      BY <1>4
    <2> QED
      BY <1>2, <2>1 DEF Sub
  <1> QED
    BY <1>1, <1>2, <1>3, <1>4, <1>5

LEMMA BelowIsInChild ==
  ASSUME PInv, NEW i \in Nodes
  PROVE  \A m \in Sub(i) : m # i => \E c \in Children(i) : m \in Sub(c)
  <1> DEFINE N == Len(parser.tree)
             T == {m \in Nodes : i \in Above(m) => \E c \in Children(i) : m \in Sub(c)}
  <1>1. N \in Nat /\ Nodes = 1..N /\ \A j \in 1..N : Up(j) \in 0..j - 1
    BY ParentsOrdered DEF Nodes
  <1> HIDE DEF N
  <1>2. ASSUME NEW m \in 1..N, \A k \in 1..m - 1 : k \in T PROVE m \in T
    <2> SUFFICES ASSUME i \in Above(m) PROVE \E c \in Children(i) : m \in Sub(c)
      BY <1>1
    <2>1. Up(m) # 0 /\ Above(m) = {Up(m)} \union Above(Up(m))
      BY <1>1, AboveIs
    <2>2. CASE Up(m) = i
      <3>1. m \in Children(i) /\ m \in Sub(m)
        BY <1>1, <2>2 DEF Children, Sub, Up
      <3> QED
        BY <3>1
    <2>3. CASE i \in Above(Up(m))
      <3>1. Up(m) \in 1..m - 1
        BY <1>1, <2>1
      <3>2. PICK c \in Children(i) : Up(m) \in Sub(c)
        BY <1>2, <2>3, <3>1
      <3>3. c \in Above(m)
        BY <2>1, <3>2 DEF Sub
      <3> QED
        BY <1>1, <3>3 DEF Sub
    <2> QED
      BY <2>1, <2>2, <2>3
  <1> HIDE DEF T
  <1>3. \A m \in 1..N : m \in T
    BY <1>1, <1>2, FromBelow
  <1> QED
    BY <1>1, <1>3 DEF T, Sub

\* The subtrees of two siblings follow one another.
LEMMA SiblingsApart ==
  ASSUME PInv, NEW i \in Nodes, NEW c \in Children(i), NEW d \in Children(i), c < d
  PROVE  \A x \in Sub(c), y \in Sub(d) : x < y
  <1> DEFINE N == Len(parser.tree)
             T == {m \in Nodes : m >= d => c \notin Above(m)}
  <1>1. /\ N \in Nat /\ Nodes = 1..N /\ \A j \in 1..N : Up(j) \in 0..j - 1
        /\ \A j, k \in 1..N : Up(k) < j /\ j < k => Up(j) >= Up(k)
    BY ParentsOrdered DEF Nodes
  <1> HIDE DEF N
  <1>2. /\ c \in 1..N /\ d \in 1..N /\ i \in Nat /\ i < c /\ Up(d) = i
        /\ Above(d) = {i} \union Above(i)
    BY <1>1, ChildIsBelow
  <1>3. ASSUME NEW m \in 1..N, \A k \in 1..m - 1 : k \in T PROVE m \in T
    <2> SUFFICES ASSUME m >= d, c \in Above(m) PROVE FALSE
      BY <1>1
    <2>1. Above(m) = {Up(m)} \union Above(Up(m)) /\ Up(m) \in 1..m - 1 /\ Up(m) \in Nodes
      <3>1. Above(m) = IF Up(m) = 0 THEN {} ELSE {Up(m)} \union Above(Up(m))
        BY <1>1, AboveIs
      <3>2. Up(m) \in 1..m - 1
        BY <1>1, <3>1
      <3> QED
        BY <1>1, <3>1, <3>2
    <2>2. c <= Up(m)
      <3>1. c \in Above(Up(m)) => c < Up(m)
        BY <2>1, AboveIsTransitive
      <3>2. c \in Nat /\ Up(m) \in Nat
        BY <1>2, <2>1
      <3>3. c = Up(m) \/ c \in Above(Up(m))
        BY <2>1
      <3> QED
        BY <3>1, <3>2, <3>3
    <2>3. CASE Up(m) >= d
      <3>1. c \notin Above(Up(m))
        BY <1>3, <2>1, <2>3
      <3> QED
        BY <1>2, <2>1, <2>3, <3>1
    <2>4. CASE Up(m) < d /\ d < m
      <3>1. Up(d) >= Up(m)
        BY <1>1, <1>2, <2>4
      <3> QED
        BY <1>2, <2>1, <2>2, <3>1
    <2>5. CASE d = m
      BY <1>2, <2>1, <2>2, <2>5
    <2> QED
      BY <1>2, <2>1, <2>3, <2>4, <2>5
  <1> HIDE DEF T
  <1>4. \A m \in 1..N : m \in T
    BY <1>1, <1>3, FromBelow
  <1>5. ASSUME NEW x \in Sub(c), NEW y \in Sub(d) PROVE x < y
    <2>1. x \in 1..N /\ y \in 1..N /\ d <= y
      BY <1>1, ChildIsBelow DEF Sub
    <2>2. x < d
      <3>1. x >= d => c \notin Above(x)
        BY <1>4, <2>1 DEF T
      <3>2. x = c \/ c \in Above(x)
        BY DEF Sub
      <3> QED
        BY <1>2, <2>1, <3>1, <3>2
    <2> QED
      BY <1>2, <2>1, <2>2
  <1> QED
    BY <1>5

LEMMA AllBelowRoot ==
  ASSUME PInv
  PROVE  \A m \in Nodes : m \in Sub(1)
  <1> DEFINE N == Len(parser.tree)
             T == {m \in Nodes : m = 1 \/ 1 \in Above(m)}
  <1>1. /\ N \in Nat /\ Nodes = 1..N
        /\ \A j \in 1..N : Up(j) \in 0..j - 1 /\ (Up(j) = 0 <=> j = 1)
    BY ParentsOrdered DEF Nodes
  <1> HIDE DEF N
  <1>2. ASSUME NEW m \in 1..N, \A k \in 1..m - 1 : k \in T PROVE m \in T
    <2>1. CASE m = 1
      BY <1>1, <2>1
    <2>2. CASE m # 1
      <3>1. Up(m) \in 1..m - 1 /\ Above(m) = {Up(m)} \union Above(Up(m))
        BY <1>1, <2>2, AboveIs
      <3>2. Up(m) = 1 \/ 1 \in Above(Up(m))
        BY <1>2, <3>1
      <3> QED
        BY <1>1, <3>1, <3>2
    <2> QED
      BY <2>1, <2>2
  <1> HIDE DEF T
  <1>3. \A m \in 1..N : m \in T
    BY <1>1, <1>2, FromBelow
  <1> QED
    BY <1>1, <1>3 DEF T, Sub

-----------------------------------------------------------------------------
(* What renderNode() returns.                                              *)

LEMMA ReadsChildrenOnly ==
  ASSUME NEW i, NEW depth, NEW collapse, NEW h, NEW r,
         \A j \in Children(i) : h[j] = r[j]
  PROVE  RenderNode(i, depth, collapse, h) = RenderNode(i, depth, collapse, r)
  <1>1. ASSUME NEW d PROVE Groups(i, d, h) = Groups(i, d, r)
    <2>1. {<<j, h[j][d]>> : j \in Children(i)} = {<<j, r[j][d]>> : j \in Children(i)}
      OBVIOUS
    <2> QED
      BY <2>1 DEF Groups
  <1> QED
    BY <1>1 DEF RenderNode

LEMMA RenderedIs ==
  ASSUME PInv, NEW collapse
  PROVE  \A i \in Nodes, d \in Nat :
           Rendered(collapse)[i][d] = RenderNode(i, d, collapse, Rendered(collapse))
  <1> DEFINE N == Len(parser.tree)
             Is(h, m) == h = [i \in (N + 1) - m..N |->
                                [depth \in Nat |-> RenderNode(i, depth, collapse, h)]]
             T == {m \in 0..N : \E h : Is(h, m)}
             H == CHOOSE h : h = [i \in Nodes |->
                                    [depth \in Nat |-> RenderNode(i, depth, collapse, h)]]
  <1>1. N \in Nat /\ Nodes = 1..N /\ \A i \in 1..N : \A j \in Children(i) : j \in i + 1..N
    <2>1. N \in Nat /\ Nodes = 1..N
      BY ParentsOrdered DEF Nodes
    <2>2. ASSUME NEW i \in Nodes, NEW j \in Children(i) PROVE j \in i + 1..N
      <3>1. j \in Nodes /\ i < j /\ i \in Nat /\ j \in Nat
        BY ChildIsBelow
      <3> QED
        BY <2>1, <3>1
    <2> QED
      BY <2>1, <2>2
  <1> HIDE DEF N
  <1>2. 0 \in T
    <2> DEFINE h == [i \in N + 1..N |-> {}]
    <2>1. (N + 1) - 0 = N + 1 /\ N + 1..N = {} /\ 0 \in 0..N
      BY <1>1
    <2>2. Is(h, 0)
      BY <2>1
    <2> HIDE DEF h, Is
    <2> QED
      BY <2>1, <2>2
  <1>3. ASSUME NEW m \in 1..N, m - 1 \in T PROVE m \in T
    <2>1. PICK h : Is(h, m - 1)
      BY <1>3
    <2> DEFINE n == (N + 1) - m
               h2 == [i \in n..N |-> [depth \in Nat |-> RenderNode(i, depth, collapse, h)]]
    <2>2. n \in Nat /\ n \in 1..N /\ (N + 1) - (m - 1) = n + 1 /\ m \in 0..N
      BY <1>1
    <2> HIDE DEF n
    <2>3. h = [i \in n + 1..N |-> [depth \in Nat |-> RenderNode(i, depth, collapse, h)]]
      BY <2>1, <2>2
    <2>4. ASSUME NEW i \in n + 1..N PROVE h2[i] = h[i]
      <3>1. h[i] = [depth \in Nat |-> RenderNode(i, depth, collapse, h)]
        BY <2>3, Zenon
      <3>2. i \in n..N
        BY <1>1, <2>2
      <3> QED
        BY <3>1, <3>2
    <2> HIDE DEF h2
    <2>5. ASSUME NEW i \in n..N, NEW depth \in Nat
          PROVE  RenderNode(i, depth, collapse, h) = RenderNode(i, depth, collapse, h2)
      <3>1. \A j \in Children(i) : j \in n + 1..N
        BY <1>1, <2>2
      <3>2. \A j \in Children(i) : h[j] = h2[j]
        BY <2>4, <3>1
      <3> QED
        BY <3>2, ReadsChildrenOnly
    <2>6. h2 = [i \in n..N |-> [depth \in Nat |-> RenderNode(i, depth, collapse, h2)]]
      BY <2>5 DEF h2
    <2>7. Is(h2, m)
      BY <2>6 DEF n
    <2> HIDE DEF Is
    <2> QED
      BY <2>2, <2>7
  <1> HIDE DEF T
  <1>4. N \in T
    <2>1. N \in 0..N
      BY <1>1
    <2> QED
      BY <1>1, <1>2, <1>3, <2>1, Induction
  <1>5. H = [i \in Nodes |-> [depth \in Nat |-> RenderNode(i, depth, collapse, H)]]
    <2>1. (N + 1) - N = 1
      BY <1>1
    <2>2. \E h : h = [i \in Nodes |-> [depth \in Nat |-> RenderNode(i, depth, collapse, h)]]
      BY <1>1, <1>4, <2>1 DEF T
    <2> QED
      BY <2>2
  <1>6. Rendered(collapse) = H
    BY DEF Rendered
  <1> HIDE DEF H
  <1>7. ASSUME NEW i \in Nodes, NEW d \in Nat PROVE H[i][d] = RenderNode(i, d, collapse, H)
    <2>1. H[i] = [depth \in Nat |-> RenderNode(i, depth, collapse, H)]
      BY <1>5, Zenon
    <2> QED
      BY <2>1
  <1> QED
    BY <1>6, <1>7

Rows(e, h, d) == [k \in 1..Len(e) |-> h[e[k]][d]]

LEMMA GroupsAre ==
  ASSUME PInv, NEW i \in Nodes, NEW d, NEW h, NEW K,
         \A c : c \in K <=> c \in Children(i) /\ h[c][d] # <<>>
  PROVE  \E e : Enumerates(e, K) /\ Groups(i, d, h) = Rows(e, h, d)
  <1> DEFINE F == [c \in K |-> h[c][d]]
             V == {h[c][d] : c \in K}
  <1>1. /\ Len(parser.tree) \in Nat /\ K \in SUBSET (1..Len(parser.tree))
        /\ K \in SUBSET Nat
    BY ParentsOrdered DEF Children, Nodes
  <1>2. \A x \in K : F[x] = h[x][d] /\ F[x] \in V
    OBVIOUS
  <1>3. {pair \in {<<c, h[c][d]>> : c \in Children(i)} : pair[2] # <<>>} = {<<x, F[x]>> : x \in K}
    <2>1. {pair \in {<<c, h[c][d]>> : c \in Children(i)} : pair[2] # <<>>}
            = {<<x, h[x][d]>> : x \in K}
      OBVIOUS
    <2> QED
      BY <1>2, <2>1
  <1> HIDE DEF F, V
  <1>4. PICK s : Lists(s, K, F, V)
    BY <1>1, <1>2, ListExists
  <1>5. Groups(i, d, h) = s
    <2>1. InOrder({<<x, F[x]>> : x \in K}) = s
      BY <1>1, <1>4, ListsInOrder
    <2> QED
      BY <1>3, <2>1 DEF Groups
  <1>6. PICK e : /\ Enumerates(e, K) /\ Len(e) = Len(s)
                 /\ \A k \in 1..Len(s) : s[k] = F[e[k]]
    BY <1>4 DEF Lists
  <1>7. \A k \in 1..Len(e) : e[k] \in K
    BY <1>1, <1>6, EnumerationIsInjective
  <1>8. s = [k \in 1..Len(s) |-> s[k]]
    BY <1>4, LenProperties DEF Lists
  <1>9. s = [k \in 1..Len(e) |-> h[e[k]][d]]
    BY <1>2, <1>6, <1>7, <1>8
  <1> QED
    BY <1>5, <1>6, <1>9 DEF Rows

-----------------------------------------------------------------------------
(* What of a subtree is printed.                                           *)

Sees(j) == Wraps(j) \/ ~IsHidden(parser.tree[j].kind.attrs)
Shown(i) ==
  {m \in Sub(i) : /\ Targetable(parser.tree[m].kind) /\ ~Wraps(m)
                  /\ \A j \in Sub(i) : m \in Sub(j) => Sees(j)}
DepthIn(i, m) == Cardinality(Above(m) \intersect Shown(i))
LeafIn(i, m) == \A j \in Shown(i) : m \notin Above(j)
LinesOf(i, d) ==
  [m \in Nodes |-> NodeLine(parser.tree[m].kind, d + DepthIn(i, m), LeafIn(i, m))]

AllLines == {NodeLine(kind, d, leaf) : kind \in Kinds, d \in Nat, leaf \in BOOLEAN}

LEMMA SubIsTransitive ==
  ASSUME PInv, NEW i \in Nodes, NEW j \in Sub(i), NEW m \in Sub(j)
  PROVE  j \in Nodes /\ m \in Sub(i) /\ i <= j /\ j <= m
  <1>1. i \in Nat /\ j \in Nat /\ m \in Nat /\ j \in Nodes /\ m \in Nodes
    BY ParentsOrdered DEF Nodes, Sub
  <1>2. i = j \/ i \in Above(j)
    BY DEF Sub
  <1>3. j = m \/ j \in Above(m)
    BY DEF Sub
  <1>4. i <= j /\ j <= m
    BY <1>1, <1>2, <1>3, AboveIsTransitive
  <1>5. i = m \/ i \in Above(m)
    BY <1>1, <1>2, <1>3, AboveIsTransitive
  <1> QED
    BY <1>1, <1>4, <1>5 DEF Sub

\* The way from a node down to another goes through one child.
LEMMA OneWayDown ==
  ASSUME PInv, NEW i \in Nodes, NEW c \in Children(i), NEW m \in Sub(c),
         NEW j \in Sub(i), j # i, m \in Sub(j)
  PROVE  j \in Sub(c)
  <1>1. PICK b \in Children(i) : j \in Sub(b)
    BY BelowIsInChild
  <1>2. b \in Nodes /\ c \in Nodes /\ b \in Nat /\ c \in Nat /\ m \in Nat
    BY ChildIsBelow, ParentsOrdered DEF Sub, Nodes
  <1>3. m \in Sub(b)
    BY <1>1, <1>2, SubIsTransitive
  <1>4. ~(b < c) /\ ~(c < b)
    <2>1. ~(m < m)
      BY <1>2
    <2> QED
      BY <1>3, <2>1, SiblingsApart
  <1>5. b = c
    BY <1>2, <1>4
  <1> QED
    BY <1>1, <1>5

LEMMA ShownOfChild ==
  ASSUME PInv, NEW i \in Nodes, Sees(i), NEW c \in Children(i)
  PROVE  /\ Shown(c) \subseteq Shown(i) \ {i}
         /\ \A m \in Sub(c) : m \in Shown(i) => m \in Shown(c)
  <1>1. /\ c \in Nodes /\ i \in Sub(i) /\ Sub(c) \subseteq Sub(i) \ {i}
    BY ChildIsBelow DEF Sub
  <1>2. ASSUME NEW m \in Sub(c)
        PROVE  (\A j \in Sub(i) : m \in Sub(j) => Sees(j))
                 <=> (\A j \in Sub(c) : m \in Sub(j) => Sees(j))
    <2>1. \A j \in Sub(i) : m \in Sub(j) => j = i \/ j \in Sub(c)
      BY OneWayDown
    <2> QED
      BY <1>1, <2>1
  <1>3. ASSUME NEW m \in Sub(c) PROVE m \in Shown(c) <=> m \in Shown(i)
    BY <1>1, <1>2, <1>3 DEF Shown
  <1>4. Shown(c) \subseteq Sub(c)
    BY DEF Shown
  <1> QED
    BY <1>1, <1>3, <1>4

LEMMA ShownOfAll ==
  ASSUME PInv, NEW i \in Nodes
  PROVE  /\ Shown(i) \subseteq Nodes /\ i \in Sub(i)
         /\ ~Sees(i) => Shown(i) = {}
         /\ Sees(i) => Shown(i) \ {i} = UNION {Shown(c) : c \in Children(i)}
         /\ i \in Shown(i) <=> Targetable(parser.tree[i].kind) /\ ~Wraps(i) /\ Sees(i)
  <1>1. Shown(i) \subseteq Nodes /\ i \in Sub(i)
    BY DEF Shown, Sub
  <1>2. ~Sees(i) => Shown(i) = {}
    BY <1>1 DEF Shown
  <1>3. ASSUME Sees(i) PROVE Shown(i) \ {i} = UNION {Shown(c) : c \in Children(i)}
    <2>1. ASSUME NEW m \in Shown(i), m # i PROVE \E c \in Children(i) : m \in Shown(c)
      <3>1. PICK c \in Children(i) : m \in Sub(c)
        BY <2>1, BelowIsInChild DEF Shown
      <3> QED
        BY <1>3, <3>1, ShownOfChild
    <2>2. ASSUME NEW c \in Children(i) PROVE Shown(c) \subseteq Shown(i) \ {i}
      BY <1>3, ShownOfChild
    <2> QED
      BY <2>1, <2>2
  <1>4. ASSUME NEW j \in Sub(i), i \in Sub(j) PROVE j = i
    <2>1. i <= j /\ j <= i /\ i \in Nat /\ j \in Nat
      BY <1>4, SubIsTransitive, ParentsOrdered DEF Nodes, Sub
    <2> QED
      BY <2>1
  <1>5. i \in Shown(i) <=> Targetable(parser.tree[i].kind) /\ ~Wraps(i) /\ Sees(i)
    BY <1>1, <1>4 DEF Shown
  <1> QED
    BY <1>1, <1>2, <1>3, <1>5

LEMMA DepthAndLeaf ==
  ASSUME PInv, NEW i \in Nodes
  PROVE  /\ \A m \in Nodes : DepthIn(i, m) \in Nat
         /\ DepthIn(i, i) = 0
         /\ Sees(i) => LeafIn(i, i) = (UNION {Shown(c) : c \in Children(i)} = {})
         /\ Sees(i) => \A c \in Children(i) : \A m \in Shown(c) :
              /\ DepthIn(i, m) = (IF i \in Shown(i) THEN 1 ELSE 0) + DepthIn(c, m)
              /\ LeafIn(i, m) = LeafIn(c, m)
  <1>1. Shown(i) \subseteq Nodes /\ IsFiniteSet(Nodes) /\ Nodes \subseteq Nat
    BY ShownOfAll, ParentsOrdered, UpTo DEF Nodes
  <1>2. ASSUME NEW m \in Nodes, NEW j \in Nodes
        PROVE  IsFiniteSet(Above(m) \intersect Shown(j)) /\ DepthIn(j, m) \in Nat
    <2>1. Above(m) \intersect Shown(j) \in SUBSET Nodes
      BY ShownOfAll
    <2> QED
      BY <1>1, <2>1, FS_Subset, FS_CardinalityType DEF DepthIn
  <1>3. DepthIn(i, i) = 0
    <2>1. ASSUME NEW j \in Above(i), j \in Shown(i) PROVE FALSE
      <3>1. j < i /\ j \in Nat /\ i \in Nat /\ j \in Sub(i) /\ j \in Sub(j)
        BY <1>1, <2>1, AboveIsTransitive DEF Shown, Sub
      <3>2. i <= j
        BY <3>1, SubIsTransitive
      <3> QED
        BY <3>1, <3>2
    <2>2. Above(i) \intersect Shown(i) = {}
      BY <2>1
    <2> QED
      BY <2>2, FS_EmptySet DEF DepthIn
  <1>4. ASSUME Sees(i)
        PROVE  LeafIn(i, i) = (UNION {Shown(c) : c \in Children(i)} = {})
    <2>1. \A j \in Shown(i) : i \in Above(j) <=> j # i
      <3>1. \A j \in Shown(i) : j = i \/ i \in Above(j)
        BY DEF Shown, Sub
      <3>2. i \notin Above(i)
        BY <1>1, AboveIsTransitive
      <3> QED
        BY <3>1, <3>2
    <2>2. LeafIn(i, i) <=> Shown(i) \ {i} = {}
      BY <2>1 DEF LeafIn
    <2> QED
      BY <1>4, <2>2, ShownOfAll DEF LeafIn
  <1>5. ASSUME Sees(i), NEW c \in Children(i), NEW m \in Shown(c)
        PROVE  /\ DepthIn(i, m) = (IF i \in Shown(i) THEN 1 ELSE 0) + DepthIn(c, m)
               /\ LeafIn(i, m) = LeafIn(c, m)
    <2>1. /\ c \in Nodes /\ m \in Sub(c) /\ m \in Nodes /\ i \in Above(m)
          /\ Shown(c) \subseteq Shown(i) /\ i \notin Shown(c)
      BY <1>5, ChildIsBelow, ShownOfChild DEF Shown, Sub
    <2>2. ASSUME NEW j \in Above(m), j \in Shown(i), j # i PROVE j \in Shown(c)
      <3>1. j \in Nodes /\ m \in Sub(j) /\ j \in Sub(i)
        BY <2>1, <2>2, ShownOfAll DEF Sub, Shown
      <3>2. j \in Sub(c)
        BY <2>1, <2>2, <3>1, OneWayDown
      <3> QED
        BY <1>5, <2>2, <3>2, ShownOfChild
    <2> DEFINE A == Above(m) \intersect Shown(c)
    <2>3. Above(m) \intersect Shown(i) = IF i \in Shown(i) THEN A \union {i} ELSE A
      BY <2>1, <2>2
    <2>4. IsFiniteSet(A) /\ Cardinality(A) \in Nat /\ i \notin A
      BY <1>2, <2>1 DEF DepthIn
    <2> HIDE DEF A
    <2>5. Cardinality(A \union {i}) = Cardinality(A) + 1
      BY <2>4, FS_AddElement
    <2>6. DepthIn(i, m) = (IF i \in Shown(i) THEN 1 ELSE 0) + Cardinality(A)
      <3>1. CASE i \in Shown(i)
        <4>1. Above(m) \intersect Shown(i) = A \union {i}
          BY <2>3, <3>1
        <4>2. DepthIn(i, m) = Cardinality(A) + 1
          BY <2>5, <4>1 DEF DepthIn
        <4> QED
          BY <2>4, <3>1, <4>2
      <3>2. CASE i \notin Shown(i)
        BY <2>3, <2>4, <3>2 DEF DepthIn
      <3> QED
        BY <3>1, <3>2
    <2>7. ASSUME NEW j \in Shown(i), m \in Above(j) PROVE j \in Shown(c)
      <3>1. j \in Sub(m)
        BY <2>7, ShownOfAll DEF Sub
      <3>2. j \in Sub(c)
        BY <2>1, <3>1, SubIsTransitive
      <3> QED
        BY <1>5, <3>2, ShownOfChild
    <2>8. LeafIn(i, m) <=> LeafIn(c, m)
      BY <2>1, <2>7 DEF LeafIn
    <2> QED
      BY <2>6, <2>8 DEF A, DepthIn, LeafIn
  <1> QED
    BY <1>2, <1>3, <1>4, <1>5

LEMMA LinesAreLines ==
  ASSUME PInv, NEW i \in Nodes, NEW d \in Nat
  PROVE  \A m \in Nodes :
           /\ LinesOf(i, d)[m] = NodeLine(parser.tree[m].kind, d + DepthIn(i, m), LeafIn(i, m))
           /\ LinesOf(i, d)[m] \in AllLines
  <1>1. ASSUME NEW m \in Nodes
        PROVE  /\ parser.tree[m].kind \in Kinds /\ d + DepthIn(i, m) \in Nat
               /\ LeafIn(i, m) \in BOOLEAN
    <2>1. parser.tree[m].kind \in Kinds
      BY DEF PInv, TreeTypeOK
    <2>2. d + DepthIn(i, m) \in Nat
      BY DepthAndLeaf
    <2>3. LeafIn(i, m) \in BOOLEAN
      BY DEF LeafIn
    <2> QED
      BY <2>1, <2>2, <2>3
  <1>2. ASSUME NEW m \in Nodes
        PROVE  LinesOf(i, d)[m] = NodeLine(parser.tree[m].kind, d + DepthIn(i, m), LeafIn(i, m))
    BY DEF LinesOf
  <1>3. ASSUME NEW m \in Nodes
        PROVE  NodeLine(parser.tree[m].kind, d + DepthIn(i, m), LeafIn(i, m)) \in AllLines
    BY <1>1 DEF AllLines
  <1> QED
    BY <1>2, <1>3

\* The groups of a node list what is below it, if its children list what they show.
LEMMA GroupsList ==
  ASSUME PInv, NEW i \in Nodes, NEW d \in Nat, NEW h, NEW F,
         NEW U, U = UNION {Shown(c) : c \in Children(i)},
         \A c \in Children(i) : Lists(h[c][d], Shown(c), LinesOf(c, d), AllLines),
         \A c \in Children(i) : \A m \in Shown(c) : LinesOf(c, d)[m] = F[m]
  PROVE  /\ Lists(FlattenSeq(Groups(i, d, h)), U, F, AllLines)
         /\ Groups(i, d, h) = <<>> <=> U = {}
  <1> DEFINE g == Groups(i, d, h)
             K == {c \in Children(i) : h[c][d] # <<>>}
             B == [c \in K |-> Shown(c)]
  <1>1. \A c \in Children(i) : h[c][d] \in Seq(AllLines) /\ (h[c][d] = <<>> <=> Shown(c) = {})
    BY ListsEmpty DEF Lists
  <1>2. PICK e : Enumerates(e, K) /\ g = Rows(e, h, d)
    <2>1. \A c : c \in K <=> c \in Children(i) /\ h[c][d] # <<>>
      OBVIOUS
    <2> HIDE DEF K
    <2> QED
      BY <2>1, GroupsAre
  <1>3. K \subseteq Children(i) /\ K \in SUBSET Nat
    BY ChildIsBelow
  <1>4. Len(e) \in Nat /\ \A k \in 1..Len(e) : e[k] \in K
    BY <1>2, <1>3, EnumerationIsInjective
  <1>5. \A c \in K : B[c] = Shown(c) /\ B[c] \in SUBSET Nat
    <2>1. \A c \in K : B[c] = Shown(c) /\ c \in Nodes
      BY ChildIsBelow
    <2>2. Nodes \subseteq Nat
      BY ParentsOrdered DEF Nodes
    <2> QED
      BY <2>1, <2>2, ShownOfAll
  <1>6. \A x : x \in U <=> \E c \in K : x \in B[c]
    BY <1>1, <1>5
  <1>7. K = {} <=> U = {}
    BY <1>1, <1>6
  <1> HIDE DEF K, B
  <1>8. /\ g \in Seq(Seq(AllLines)) /\ Len(g) = Len(e)
        /\ \A k \in 1..Len(e) : g[k] = h[e[k]][d]
    <2>1. \A k \in 1..Len(e) : h[e[k]][d] \in Seq(AllLines)
      BY <1>1, <1>3, <1>4
    <2> QED
      BY <1>2, <1>4, <2>1 DEF Rows
  <1> HIDE DEF g
  <1>9. \A k \in 1..Len(g) : Lists(g[k], B[e[k]], F, AllLines)
    <2>1. ASSUME NEW k \in 1..Len(g) PROVE Lists(g[k], B[e[k]], F, AllLines)
      <3> DEFINE c == e[k]
      <3>1. c \in Children(i) /\ g[k] = h[c][d] /\ B[c] = Shown(c)
        BY <1>2, <1>3, <1>4, <1>5, <1>8
      <3> HIDE DEF c
      <3>2. Lists(g[k], Shown(c), LinesOf(c, d), AllLines)
        BY <3>1
      <3>3. Lists(g[k], Shown(c), F, AllLines)
        BY <3>1, <3>2, ListsSame
      <3> QED
        BY <3>1, <3>3 DEF c
    <2> QED
      BY <2>1
  <1>10. \A c, b \in K : c < b => \A x \in B[c], y \in B[b] : x < y
    <2>1. ASSUME NEW c \in K, NEW b \in K, c < b, NEW x \in B[c], NEW y \in B[b]
          PROVE  x < y
      <3>1. x \in Sub(c) /\ y \in Sub(b) /\ c \in Children(i) /\ b \in Children(i)
        BY <1>3, <1>5 DEF Shown
      <3> QED
        BY <2>1, <3>1, SiblingsApart
    <2> QED
      BY <2>1
  <1>11. Lists(FlattenSeq(g), U, F, AllLines)
    BY <1>2, <1>3, <1>5, <1>6, <1>8, <1>9, <1>10, ListsGroups
  <1>12. g = <<>> <=> K = {}
    <2>1. \A x \in K : \E k \in 1..Len(e) : e[k] = x
      BY <1>2 DEF Enumerates
    <2>2. g = <<>> <=> Len(e) = 0
      BY <1>8, EmptySeq
    <2>3. Len(e) # 0 => 1 \in 1..Len(e)
      BY <1>4
    <2>4. Len(e) = 0 => 1..Len(e) = {}
      OBVIOUS
    <2> QED
      BY <1>4, <2>1, <2>2, <2>3, <2>4
  <1> QED
    BY <1>7, <1>11, <1>12 DEF g

LEMMA ShiftedLists ==
  ASSUME PInv, NEW i \in Nodes, NEW d \in Nat, NEW K \in SUBSET Nodes, NEW s,
         Lists(s, K, LinesOf(i, d + 1), AllLines)
  PROVE  Lists(Shifted(s), K, LinesOf(i, d), AllLines)
  <1>1. PICK e : /\ Enumerates(e, K) /\ Len(e) = Len(s)
                 /\ \A k \in 1..Len(s) : s[k] = LinesOf(i, d + 1)[e[k]]
    BY DEF Lists
  <1>2. Len(s) \in Nat /\ DOMAIN s = 1..Len(s)
    BY LenProperties DEF Lists
  <1>3. ASSUME NEW m \in Nodes
        PROVE  [LinesOf(i, d + 1)[m] EXCEPT !.depth = @ - 1] = LinesOf(i, d)[m]
    <2>1. d + 1 \in Nat /\ DepthIn(i, m) \in Nat /\ ((d + 1) + DepthIn(i, m)) - 1 = d + DepthIn(i, m)
      BY DepthAndLeaf
    <2>2. LinesOf(i, d + 1)[m]
            = NodeLine(parser.tree[m].kind, (d + 1) + DepthIn(i, m), LeafIn(i, m))
      BY <2>1, LinesAreLines
    <2>3. LinesOf(i, d)[m] = NodeLine(parser.tree[m].kind, d + DepthIn(i, m), LeafIn(i, m))
      BY LinesAreLines
    <2>4. \A kind, depth, leaf :
            [NodeLine(kind, depth, leaf) EXCEPT !.depth = @ - 1] = NodeLine(kind, depth - 1, leaf)
      BY DEF NodeLine, Line
    <2> QED
      BY <2>1, <2>2, <2>3, <2>4
  <1>4. \A k \in 1..Len(s) : e[k] \in Nodes
    BY <1>1, ElementOfSeq DEF Enumerates
  <1>5. Shifted(s) = [k \in 1..Len(s) |-> LinesOf(i, d)[e[k]]]
    BY <1>1, <1>2, <1>3, <1>4 DEF Shifted
  <1>6. \A k \in 1..Len(s) : LinesOf(i, d)[e[k]] \in AllLines
    BY <1>4, LinesAreLines
  <1>7. Shifted(s) \in Seq(AllLines) /\ Len(Shifted(s)) = Len(s)
    BY <1>2, <1>5, <1>6
  <1> QED
    BY <1>1, <1>5, <1>7 DEF Lists

\* A node prints what is shown of its subtree, whatever it is itself.
LEMMA NodeLists ==
  ASSUME PInv, NEW i \in Nodes, NEW h,
         \A c \in Children(i), d \in Nat : Lists(h[c][d], Shown(c), LinesOf(c, d), AllLines)
  PROVE  \A d \in Nat : Lists(RenderNode(i, d, FALSE, h), Shown(i), LinesOf(i, d), AllLines)
  <1> SUFFICES ASSUME NEW d \in Nat
               PROVE  Lists(RenderNode(i, d, FALSE, h), Shown(i), LinesOf(i, d), AllLines)
    OBVIOUS
  <1> DEFINE kind == parser.tree[i].kind
             U == UNION {Shown(c) : c \in Children(i)}
             g == Groups(i, d, h)
             g1 == Groups(i, d + 1, h)
  <1>1. /\ Shown(i) \subseteq Nodes /\ i \in Sub(i)
        /\ ~Sees(i) => Shown(i) = {}
        /\ Sees(i) => Shown(i) \ {i} = U
        /\ i \in Shown(i) <=> Targetable(kind) /\ ~Wraps(i) /\ Sees(i)
    BY ShownOfAll
  <1>2. /\ RenderNode(i, d, FALSE, h)
             = IF Wraps(i) THEN FlattenSeq(g)
               ELSE IF ~Sees(i) THEN <<>>
               ELSE IF Targetable(kind)
                    THEN <<NodeLine(kind, d, g1 = <<>>)>> \o FlattenSeq(g1)
                    ELSE Shifted(FlattenSeq(g1))
        /\ Wraps(i) => Sees(i)
    BY DEF RenderNode, Wraps, Sees
  <1>3. ASSUME NEW c \in Children(i), NEW m \in Shown(c)
        PROVE  c \in Nodes /\ m \in Nodes
    BY ChildIsBelow, ShownOfAll
  <1>4. ASSUME Sees(i), NEW c \in Children(i), NEW m \in Shown(c), NEW b \in Nat,
               i \notin Shown(i)
        PROVE  LinesOf(c, b)[m] = LinesOf(i, b)[m]
    <2>1. DepthIn(i, m) = 0 + DepthIn(c, m) /\ DepthIn(c, m) \in Nat /\ LeafIn(i, m) = LeafIn(c, m)
      BY <1>3, <1>4, DepthAndLeaf
    <2> QED
      BY <1>3, <2>1, LinesAreLines
  <1>5. ASSUME Sees(i), NEW c \in Children(i), NEW m \in Shown(c), i \in Shown(i)
        PROVE  LinesOf(c, d + 1)[m] = LinesOf(i, d)[m]
    <2>1. DepthIn(i, m) = 1 + DepthIn(c, m) /\ DepthIn(c, m) \in Nat /\ LeafIn(i, m) = LeafIn(c, m)
      BY <1>3, <1>5, DepthAndLeaf
    <2>2. (d + 1) + DepthIn(c, m) = d + DepthIn(i, m) /\ d + 1 \in Nat
      BY <2>1
    <2> QED
      BY <1>3, <2>1, <2>2, LinesAreLines
  <1> HIDE DEF U, g, g1
  <1>6. CASE Wraps(i)
    <2>1. Shown(i) = U /\ Sees(i) /\ i \notin Shown(i)
      BY <1>1, <1>2, <1>6
    <2>2. \A c \in Children(i) : \A m \in Shown(c) : LinesOf(c, d)[m] = LinesOf(i, d)[m]
      BY <1>4, <2>1
    <2>3. Lists(FlattenSeq(g), U, LinesOf(i, d), AllLines)
      BY <2>2, GroupsList DEF U, g
    <2> QED
      BY <1>2, <1>6, <2>1, <2>3
  <1>7. CASE ~Sees(i)
    <2>1. Shown(i) = {} /\ RenderNode(i, d, FALSE, h) = <<>>
      BY <1>1, <1>2, <1>7
    <2> QED
      BY <2>1, ListsNone
  <1>8. CASE ~Wraps(i) /\ Sees(i) /\ Targetable(kind)
    <2>1. /\ RenderNode(i, d, FALSE, h) = <<NodeLine(kind, d, g1 = <<>>)>> \o FlattenSeq(g1)
          /\ i \in Shown(i) /\ Shown(i) = {i} \union U /\ d + 1 \in Nat
      <3>1. i \in Shown(i) /\ Shown(i) \ {i} = U
        BY <1>1, <1>8, Zenon
      <3>2. RenderNode(i, d, FALSE, h) = <<NodeLine(kind, d, g1 = <<>>)>> \o FlattenSeq(g1)
        BY <1>2, <1>8, Zenon
      <3>3. Shown(i) = {i} \union U
        BY <3>1
      <3>4. d + 1 \in Nat
        OBVIOUS
      <3> QED
        BY <3>1, <3>2, <3>3, <3>4, Zenon
    <2>2. \A c \in Children(i) : \A m \in Shown(c) : LinesOf(c, d + 1)[m] = LinesOf(i, d)[m]
      BY <1>5, <1>8, <2>1
    <2>3. Lists(FlattenSeq(g1), U, LinesOf(i, d), AllLines) /\ (g1 = <<>> <=> U = {})
      BY <2>1, <2>2, GroupsList DEF U, g1
    <2>4. LinesOf(i, d)[i] = NodeLine(kind, d, g1 = <<>>)
      <3>1. DepthIn(i, i) = 0 /\ d + 0 = d
        BY DepthAndLeaf
      <3>2. LeafIn(i, i) = (U = {})
        BY <1>8, DepthAndLeaf DEF U
      <3>3. (U = {}) = (g1 = <<>>)
        BY <2>3
      <3>4. LinesOf(i, d)[i] = NodeLine(kind, d + DepthIn(i, i), LeafIn(i, i))
        BY LinesAreLines
      <3> QED
        BY <3>1, <3>2, <3>3, <3>4
    <2>5. Lists(<<LinesOf(i, d)[i]>>, {i}, LinesOf(i, d), AllLines)
      BY ListsOne, LinesAreLines, ParentsOrdered DEF Nodes
    <2>6. {i} \in SUBSET Nat /\ U \in SUBSET Nat /\ \A x \in {i}, y \in U : x < y
      <3>1. \A c \in Children(i) : \A y \in Shown(c) : i < y /\ y \in Nat
        <4>1. ASSUME NEW c \in Children(i), NEW y \in Shown(c) PROVE i < y /\ y \in Nat
          <5>1. y \in Sub(c) /\ i < c /\ c <= y /\ i \in Nat /\ c \in Nat /\ y \in Nat
            BY ChildIsBelow, ParentsOrdered DEF Shown, Sub, Nodes
          <5> QED
            BY <5>1
        <4> QED
          BY <4>1
      <3> QED
        BY <3>1, ParentsOrdered DEF U, Nodes
    <2>7. Lists(<<LinesOf(i, d)[i]>> \o FlattenSeq(g1), {i} \union U, LinesOf(i, d), AllLines)
      BY <2>3, <2>5, <2>6, ListsBoth
    <2> QED
      BY <2>1, <2>4, <2>7
  <1>9. CASE ~Wraps(i) /\ Sees(i) /\ ~Targetable(kind)
    <2>1. /\ RenderNode(i, d, FALSE, h) = Shifted(FlattenSeq(g1))
          /\ i \notin Shown(i) /\ Shown(i) = U /\ d + 1 \in Nat
      <3>1. i \notin Shown(i) /\ Shown(i) \ {i} = U
        BY <1>1, <1>9, Zenon
      <3>2. RenderNode(i, d, FALSE, h) = Shifted(FlattenSeq(g1))
        BY <1>2, <1>9, Zenon
      <3>3. Shown(i) = U
        BY <3>1
      <3>4. d + 1 \in Nat
        OBVIOUS
      <3> QED
        BY <3>1, <3>2, <3>3, <3>4, Zenon
    <2>2. \A c \in Children(i) : \A m \in Shown(c) : LinesOf(c, d + 1)[m] = LinesOf(i, d + 1)[m]
      BY <1>4, <1>9, <2>1
    <2>3. Lists(FlattenSeq(g1), U, LinesOf(i, d + 1), AllLines)
      BY <2>1, <2>2, GroupsList DEF U, g1
    <2>4. Lists(Shifted(FlattenSeq(g1)), U, LinesOf(i, d), AllLines)
      <3>1. U \in SUBSET Nodes
        BY <1>1, <2>1
      <3> QED
        BY <2>3, <3>1, ShiftedLists
    <2> QED
      BY <2>1, <2>4
  <1> QED
    BY <1>6, <1>7, <1>8, <1>9

LEMMA PrintsWhatIsShown ==
  ASSUME PInv
  PROVE  PrintsEveryTarget
  <1> DEFINE N == Len(parser.tree)
  <1> DEFINE h == Rendered(FALSE)
  <1>1. /\ \A i \in Nodes, d \in Nat : h[i][d] = RenderNode(i, d, FALSE, h)
        /\ ToAccessibilityYaml(FALSE) = IF parser.root = 0 THEN <<>> ELSE h[parser.root][0]
    BY RenderedIs DEF ToAccessibilityYaml
  <1> HIDE DEF h
  <1> DEFINE T == {i \in Nodes : \A d \in Nat :
                                   Lists(h[i][d], Shown(i), LinesOf(i, d), AllLines)}
  <1>2. N \in Nat /\ Nodes = 1..N
    BY ParentsOrdered DEF Nodes
  <1> HIDE DEF N
  <1>3. ASSUME NEW i \in 1..N, \A c \in i + 1..N : c \in T PROVE i \in T
    <2>1. ASSUME NEW c \in Children(i) PROVE c \in T
      <3>1. c \in Nodes /\ i < c /\ i \in Nat /\ c \in Nat
        BY <1>2, ChildIsBelow
      <3> QED
        BY <1>2, <1>3, <3>1
    <2>2. \A d \in Nat : Lists(RenderNode(i, d, FALSE, h), Shown(i), LinesOf(i, d), AllLines)
      BY <1>2, <2>1, NodeLists
    <2> QED
      BY <1>1, <1>2, <2>2
  <1> HIDE DEF T
  <1>4. \A i \in 1..N : i \in T
    BY <1>2, <1>3, FromAbove
  <1> DEFINE shown == {i \in Nodes : Printed(i)}
             Alone(i) == \A j \in shown : i \notin Above(j)
             Depth(i) == Cardinality(Above(i) \intersect shown)
             LineOf(i) == NodeLine(parser.tree[i].kind, Depth(i), Alone(i))
             F == [i \in Nodes |-> LineOf(i)]
  <1>5. Lists(ToAccessibilityYaml(FALSE), shown, F, AllLines)
    <2>1. CASE N = 0
      <3>1. parser.tree = <<>>
        BY <2>1, EmptySeq DEF PInv, ParserIsRecord, N
      <3>2. parser.root = 0 /\ shown = {}
        BY <1>2, <2>1, <3>1 DEF PInv, RootIsFirst
      <3> QED
        BY <1>1, <3>2, ListsNone
    <2>2. CASE N # 0
      <3>1. 1 \in Nodes /\ parser.root = 1
        <4>1. parser.tree # <<>>
          BY <2>2, EmptySeq DEF N
        <4> QED
          BY <1>2, <2>2, <4>1 DEF PInv, RootIsFirst
      <3>2. Lists(ToAccessibilityYaml(FALSE), Shown(1), LinesOf(1, 0), AllLines)
        <4>1. \A d \in Nat : Lists(h[1][d], Shown(1), LinesOf(1, d), AllLines)
          BY <1>2, <1>4, <3>1 DEF T
        <4>2. Lists(h[1][0], Shown(1), LinesOf(1, 0), AllLines)
          BY <4>1
        <4>3. ToAccessibilityYaml(FALSE) = h[1][0]
          <5>1. parser.root = 1 /\ parser.root # 0
            BY <3>1
          <5>2. ToAccessibilityYaml(FALSE) = h[parser.root][0]
            BY <1>1, <5>1, Zenon
          <5> QED
            BY <5>1, <5>2, Zenon
        <4> QED
          BY <4>2, <4>3, Zenon
      <3>3. Shown(1) = shown
        <4>1. \A m \in Nodes, j \in Nodes : m \in Sub(j) <=> j \in Above(m) \union {m}
          BY DEF Sub
        <4>2. Sub(1) = Nodes /\ \A m \in Nodes : Above(m) \subseteq Nodes
          BY AllBelowRoot, AboveIsTransitive DEF Sub
        <4> QED
          BY <4>1, <4>2 DEF Shown, Printed, Sees
      <3> HIDE DEF shown
      <3>4. ASSUME NEW m \in Nodes PROVE LinesOf(1, 0)[m] = F[m]
        <4>1. LinesOf(1, 0)[m] = NodeLine(parser.tree[m].kind, 0 + DepthIn(1, m), LeafIn(1, m))
          BY <3>1, LinesAreLines
        <4>2. DepthIn(1, m) = Depth(m) /\ DepthIn(1, m) \in Nat
          BY <3>1, <3>3, DepthAndLeaf DEF DepthIn
        <4>3. LeafIn(1, m) = Alone(m)
          BY <3>3 DEF LeafIn
        <4>4. F[m] = NodeLine(parser.tree[m].kind, Depth(m), Alone(m))
          BY Zenon
        <4>5. 0 + DepthIn(1, m) = Depth(m)
          BY <4>2
        <4> HIDE DEF F, Depth, Alone
        <4> QED
          BY <4>1, <4>3, <4>4, <4>5, Zenon
      <3>5. shown \subseteq Nodes
        BY DEF shown
      <3> HIDE DEF F
      <3> QED
        BY <3>2, <3>3, <3>4, <3>5, ListsSame
    <2> QED
      BY <2>1, <2>2
  <1>6. shown \in SUBSET Nat
    BY <1>2
  <1>7. {<<i, LineOf(i)>> : i \in shown} = {<<i, F[i]>> : i \in shown}
    <2>1. \A i \in shown : LineOf(i) = F[i]
      BY Zenon
    <2> HIDE DEF F, LineOf, shown
    <2> QED
      BY <2>1
  <1>8. InOrder({<<i, F[i]>> : i \in shown}) = ToAccessibilityYaml(FALSE)
    <2> HIDE DEF F, shown
    <2> QED
      BY <1>5, <1>6, ListsInOrder
  <1> QED
    BY <1>7, <1>8 DEF PrintsEveryTarget

(***************************************************************************)
(* Whatever the document, without collapsing the lines printed are its     *)
(* visible targets, each once, in order, under those that are printed      *)
(* above it: neither a wrapper nor a node without a name loses what is     *)
(* below it or moves it.                                                   *)
(***************************************************************************)
THEOREM EveryTargetIsPrinted == TreeSpec => []PrintsEveryTarget
  BY TreeInvariance, PrintsWhatIsShown, PTL

-----------------------------------------------------------------------------
(* How long sequences become.                                              *)

IsASequence(s) == \E V : s \in Seq(V)

LEMMA FormedSequence ==
  ASSUME NEW n \in Nat, NEW s, s = [k \in 1..n |-> s[k]]
  PROVE  /\ IsASequence(s) /\ Len(s) = n
         /\ \A V : (\A k \in 1..n : s[k] \in V) => s \in Seq(V)
  <1>1. ASSUME NEW V, \A k \in 1..n : s[k] \in V PROVE s \in Seq(V) /\ Len(s) = n
    <2>1. s \in [1..n -> V]
      BY <1>1
    <2>2. s \in Seq(V)
      BY <2>1, SeqDef
    <2>3. Len(s) \in Nat /\ DOMAIN s = 1..Len(s) /\ DOMAIN s = 1..n
      BY <2>1, <2>2, LenProperties
    <2> QED
      BY <2>2, <2>3
  <1>2. \A k \in 1..n : s[k] \in {s[j] : j \in 1..n}
    OBVIOUS
  <1> QED
    BY <1>1, <1>2 DEF IsASequence

LEMMA SequenceIsFormed ==
  ASSUME NEW s, IsASequence(s)
  PROVE  /\ Len(s) \in Nat /\ DOMAIN s = 1..Len(s) /\ s = [k \in 1..Len(s) |-> s[k]]
         /\ s = <<>> <=> Len(s) = 0
         /\ \A V : (\A k \in 1..Len(s) : s[k] \in V) => s \in Seq(V)
  <1>1. PICK W : s \in Seq(W)
    BY DEF IsASequence
  <1>2. Len(s) \in Nat /\ DOMAIN s = 1..Len(s) /\ s = [k \in 1..Len(s) |-> s[k]]
    BY <1>1, LenProperties
  <1>3. s = <<>> <=> Len(s) = 0
    BY <1>1, EmptySeq
  <1> QED
    BY <1>2, <1>3, FormedSequence

LEMMA BothLong ==
  ASSUME NEW s, NEW t, IsASequence(s), IsASequence(t)
  PROVE  IsASequence(s \o t) /\ Len(s \o t) = Len(s) + Len(t)
  <1> DEFINE V == {s[k] : k \in 1..Len(s)} \union {t[k] : k \in 1..Len(t)}
  <1>1. (\A k \in 1..Len(s) : s[k] \in V) /\ (\A k \in 1..Len(t) : t[k] \in V)
    OBVIOUS
  <1> HIDE DEF V
  <1>2. s \in Seq(V) /\ t \in Seq(V)
    BY <1>1, SequenceIsFormed
  <1> QED
    BY <1>2, ConcatProperties DEF IsASequence

LEMMA SequencesTogether ==
  ASSUME NEW g, IsASequence(g), \A k \in 1..Len(g) : IsASequence(g[k])
  PROVE  \E V : g \in Seq(Seq(V))
  <1> DEFINE V == UNION {{g[k][j] : j \in 1..Len(g[k])} : k \in 1..Len(g)}
  <1>1. ASSUME NEW k \in 1..Len(g) PROVE g[k] \in Seq(V)
    <2>1. \A j \in 1..Len(g[k]) : g[k][j] \in V
      OBVIOUS
    <2> HIDE DEF V
    <2> QED
      BY <2>1, SequenceIsFormed
  <1> HIDE DEF V
  <1>2. g \in Seq(Seq(V))
    BY <1>1, SequenceIsFormed
  <1> QED
    BY <1>2

LEMMA FlattenLength ==
  ASSUME NEW V, NEW g \in Seq(Seq(V))
  PROVE  /\ FlattenSeq(g) \in Seq(V)
         /\ \E P : /\ P \in [0..Len(g) -> Nat] /\ P[0] = 0 /\ P[Len(g)] = Len(FlattenSeq(g))
                   /\ \A k \in 1..Len(g) : P[k] = P[k - 1] + Len(g[k])
  <1>1. Len(g) \in Nat /\ \A k \in 1..Len(g) : g[k] \in Seq(V)
    BY ElementOfSeq, LenProperties
  <1>2. PICK f \in [0..Len(g) -> Seq(V)] :
                 /\ f[0] = <<>> /\ FlattenSeq(g) = f[Len(g)]
                 /\ \A k \in 1..Len(g) : f[k] = f[k - 1] \o g[k]
    BY FlattenIs
  <1> DEFINE P == [k \in 0..Len(g) |-> Len(f[k])]
  <1>3. \A k \in 0..Len(g) : P[k] = Len(f[k]) /\ f[k] \in Seq(V) /\ P[k] \in Nat
    BY <1>2, LenProperties
  <1>4. P \in [0..Len(g) -> Nat]
    BY <1>3
  <1> HIDE DEF P
  <1>5. ASSUME NEW k \in 1..Len(g) PROVE P[k] = P[k - 1] + Len(g[k])
    <2>1. k \in 0..Len(g) /\ k - 1 \in 0..Len(g)
      BY <1>1
    <2>2. Len(f[k - 1] \o g[k]) = Len(f[k - 1]) + Len(g[k])
      BY <1>1, <1>3, <2>1, ConcatProperties
    <2> QED
      BY <1>2, <1>3, <2>1, <2>2
  <1>6. 0 \in 0..Len(g) /\ Len(g) \in 0..Len(g)
    BY <1>1
  <1>7. P[0] = 0 /\ P[Len(g)] = Len(FlattenSeq(g))
    BY <1>2, <1>3, <1>6, EmptySeq
  <1> QED
    BY <1>2, <1>3, <1>4, <1>5, <1>6, <1>7

LEMMA SumsCompare ==
  ASSUME NEW n \in Nat, NEW P, NEW Q,
         \A k \in 0..n : P[k] \in Nat /\ Q[k] \in Nat,
         P[0] <= Q[0], \A k \in 1..n : P[k] - P[k - 1] <= Q[k] - Q[k - 1]
  PROVE  \A k \in 0..n : P[k] <= Q[k]
  <1> DEFINE T == {k \in 0..n : P[k] <= Q[k]}
  <1>1. 0 \in T
    OBVIOUS
  <1>2. ASSUME NEW k \in 1..n, k - 1 \in T PROVE k \in T
    <2>1. k \in 0..n /\ k - 1 \in 0..n
      OBVIOUS
    <2>2. /\ P[k] \in Nat /\ Q[k] \in Nat /\ P[k - 1] \in Nat /\ Q[k - 1] \in Nat
          /\ P[k - 1] <= Q[k - 1] /\ P[k] - P[k - 1] <= Q[k] - Q[k - 1]
      BY <1>2, <2>1
    <2> QED
      BY <2>1, <2>2
  <1> HIDE DEF T
  <1>3. \A k \in 0..n : k \in T
    BY <1>1, <1>2, Induction
  <1> QED
    BY <1>3 DEF T

\* Sequences no longer than others make no longer one.
LEMMA ShorterTogether ==
  ASSUME NEW V, NEW g \in Seq(Seq(V)), NEW W, NEW h \in Seq(Seq(W)), Len(g) = Len(h),
         \A k \in 1..Len(g) : Len(g[k]) <= Len(h[k])
  PROVE  Len(FlattenSeq(g)) <= Len(FlattenSeq(h))
  <1> DEFINE n == Len(g)
  <1>1. n \in Nat /\ \A k \in 1..n : Len(g[k]) \in Nat /\ Len(h[k]) \in Nat
    BY ElementOfSeq, LenProperties
  <1>2. PICK P : /\ P \in [0..Len(g) -> Nat] /\ P[0] = 0 /\ P[Len(g)] = Len(FlattenSeq(g))
                 /\ \A k \in 1..Len(g) : P[k] = P[k - 1] + Len(g[k])
    BY FlattenLength
  <1>3. PICK Q : /\ Q \in [0..Len(h) -> Nat] /\ Q[0] = 0 /\ Q[Len(h)] = Len(FlattenSeq(h))
                 /\ \A k \in 1..Len(h) : Q[k] = Q[k - 1] + Len(h[k])
    BY FlattenLength
  <1>4. \A k \in 0..n : P[k] \in Nat /\ Q[k] \in Nat
    BY <1>2, <1>3
  <1>5. P[0] <= Q[0]
    BY <1>2, <1>3
  <1>6. ASSUME NEW k \in 1..n PROVE P[k] - P[k - 1] <= Q[k] - Q[k - 1]
    <2>1. /\ P[k] = P[k - 1] + Len(g[k]) /\ Q[k] = Q[k - 1] + Len(h[k])
          /\ Len(g[k]) <= Len(h[k]) /\ Len(g[k]) \in Nat /\ Len(h[k]) \in Nat
      BY <1>1, <1>2, <1>3
    <2>2. k - 1 \in 0..n
      BY <1>1
    <2>3. P[k - 1] \in Nat /\ Q[k - 1] \in Nat
      BY <1>4, <2>2
    <2> QED
      BY <2>1, <2>3
  <1> HIDE DEF n
  <1>7. P[n] <= Q[n]
    <2>1. n \in 0..n
      BY <1>1
    <2> QED
      BY <1>1, <1>4, <1>5, <1>6, <2>1, SumsCompare
  <1> QED
    BY <1>2, <1>3, <1>7 DEF n

-----------------------------------------------------------------------------
(* collapseRuns() makes no list longer, and empties none.                  *)

RunAt(g, i) == SubSeq(g, i, RunEnd(g, i))
RunLines(g, i) ==
  IF WorthASummary(RunAt(g, i)) THEN Summary(RunAt(g, i)) ELSE FlattenSeq(RunAt(g, i))

LEMMA RunIsThere ==
  ASSUME NEW V, NEW g \in Seq(Seq(V)), NEW i \in 1..Len(g)
  PROVE  /\ RunEnd(g, i) \in i..Len(g)
         /\ \A k \in i..RunEnd(g, i) : ShapeOf(g[k]) = ShapeOf(g[i]) /\ Len(g[k]) = Len(g[i])
         /\ RunAt(g, i) \in Seq(Seq(V)) /\ Len(RunAt(g, i)) = (RunEnd(g, i) - i) + 1
         /\ \A k \in 1..Len(RunAt(g, i)) : RunAt(g, i)[k] = g[(i + k) - 1]
  <1> DEFINE S == {n \in i..Len(g) : \A k \in i + 1..n : ShapeOf(g[k]) = ShapeOf(g[i])}
             r == RunEnd(g, i)
  <1>1. Len(g) \in Nat /\ \A k \in 1..Len(g) : g[k] \in Seq(V)
    BY ElementOfSeq, LenProperties
  <1>2. r \in S
    <2>1. S \in SUBSET (1..Len(g)) /\ i \in S
      BY <1>1
    <2>2. r = Max(S)
      BY DEF RunEnd
    <2> HIDE DEF S, r
    <2> QED
      BY <1>1, <2>1, <2>2, MaxIsThere
  <1>3. r \in i..Len(g) /\ \A k \in i..r : ShapeOf(g[k]) = ShapeOf(g[i])
    BY <1>2
  <1> HIDE DEF S, r
  <1>4. ASSUME NEW k \in i..r PROVE Len(g[k]) = Len(g[i])
    <2>1. k \in 1..Len(g)
      BY <1>1, <1>3
    <2>2. DOMAIN ShapeOf(g[k]) = DOMAIN g[k] /\ DOMAIN ShapeOf(g[i]) = DOMAIN g[i]
      BY DEF ShapeOf
    <2>3. DOMAIN g[k] = 1..Len(g[k]) /\ DOMAIN g[i] = 1..Len(g[i])
      BY <1>1, <2>1, LenProperties
    <2>4. Len(g[k]) \in Nat /\ Len(g[i]) \in Nat
      BY <1>1, <2>1, LenProperties
    <2>5. 1..Len(g[k]) = 1..Len(g[i])
      BY <1>3, <2>2, <2>3, Zenon
    <2> QED
      BY <2>4, <2>5
  <1>5. /\ SubSeq(g, i, r) \in Seq(Seq(V)) /\ Len(SubSeq(g, i, r)) = (r - i) + 1
        /\ \A k \in 1..(r - i) + 1 : SubSeq(g, i, r)[k] = g[(i + k) - 1]
    <2>1. \A k \in i..r : g[k] \in Seq(V)
      BY <1>1, <1>3
    <2>2. i \in Int /\ r \in Int /\ i <= r
      BY <1>1, <1>3
    <2> QED
      BY <2>1, <2>2, SubSeqProperties
  <1> QED
    BY <1>3, <1>4, <1>5 DEF RunAt, r

LEMMA RunIsFlat ==
  ASSUME NEW V, NEW g \in Seq(Seq(V)), NEW i \in 1..Len(g), NEW P,
         P \in [0..Len(g) -> Nat], \A k \in 1..Len(g) : P[k] = P[k - 1] + Len(g[k])
  PROVE  Len(FlattenSeq(RunAt(g, i))) = P[RunEnd(g, i)] - P[i - 1]
  <1> DEFINE run == RunAt(g, i)
             r == RunEnd(g, i)
             n == Len(run)
  <1>1. /\ r \in i..Len(g) /\ run \in Seq(Seq(V)) /\ n = (r - i) + 1
        /\ \A k \in 1..n : run[k] = g[(i + k) - 1]
    BY RunIsThere
  <1>2. PICK Q : /\ Q \in [0..Len(run) -> Nat] /\ Q[0] = 0 /\ Q[Len(run)] = Len(FlattenSeq(run))
                 /\ \A k \in 1..Len(run) : Q[k] = Q[k - 1] + Len(run[k])
    BY <1>1, FlattenLength
  <1>3. Len(g) \in Nat /\ n \in Nat /\ i \in Nat /\ r \in Nat /\ i <= r /\ r <= Len(g)
    <2>1. Len(g) \in Nat
      BY LenProperties
    <2> QED
      BY <1>1, <2>1
  <1> DEFINE T == {k \in 0..n : Q[k] = P[(i + k) - 1] - P[i - 1]}
  <1> HIDE DEF run, r, n
  <1>4. 0 \in T
    <2>1. i - 1 \in 0..Len(g) /\ (i + 0) - 1 = i - 1 /\ 0 \in 0..n
      BY <1>3
    <2>2. P[i - 1] \in Nat
      BY <2>1
    <2>3. Q[0] = P[(i + 0) - 1] - P[i - 1]
      BY <1>2, <2>1, <2>2
    <2> QED
      BY <2>1, <2>3
  <1>5. ASSUME NEW k \in 1..n, k - 1 \in T PROVE k \in T
    <2> DEFINE x == (i + k) - 1
    <2>1. k \in 0..n /\ k - 1 \in 0..n /\ (i + (k - 1)) - 1 = x - 1
      BY <1>3
    <2>2. x \in 1..Len(g) /\ x \in 0..Len(g) /\ x - 1 \in 0..Len(g) /\ i - 1 \in 0..Len(g)
      BY <1>1, <1>3
    <2>3. Q[k] = Q[k - 1] + Len(g[x])
      BY <1>1, <1>2 DEF n
    <2> HIDE DEF x
    <2>4. P[x] = P[x - 1] + Len(g[x])
      BY <2>2
    <2>5. Q[k - 1] = P[x - 1] - P[i - 1]
      BY <1>5, <2>1 DEF T
    <2>6. P[x - 1] \in Nat /\ P[i - 1] \in Nat /\ P[x] \in Nat
      BY <2>2
    <2>7. Len(g[x]) \in Nat
      BY <2>2, ElementOfSeq, LenProperties
    <2>8. Q[k] = P[x] - P[i - 1]
      BY <2>3, <2>4, <2>5, <2>6, <2>7
    <2> QED
      BY <2>1, <2>8 DEF x
  <1> HIDE DEF T
  <1>6. \A k \in 0..n : k \in T
    BY <1>3, <1>4, <1>5, Induction
  <1>7. n \in 0..n /\ (i + n) - 1 = r
    BY <1>1, <1>3
  <1>8. Q[n] = P[r] - P[i - 1]
    BY <1>6, <1>7 DEF T
  <1> QED
    BY <1>2, <1>8 DEF n, run, r

LEMMA RunGrows ==
  ASSUME NEW n \in Nat, NEW i \in 1..n, NEW r \in i..n, NEW P, P \in [0..n -> Nat], NEW L \in Nat,
         L >= 1, \A k \in i..r : P[k] = P[k - 1] + L
  PROVE  /\ P[r] >= P[i - 1] + L
         /\ L >= 2 => P[r] >= (P[i - 1] + L) + 2 * (r - i)
  <1> DEFINE T == {m \in 0..r - i : /\ P[i + m] >= (P[i - 1] + L) + m
                                    /\ L >= 2 => P[i + m] >= (P[i - 1] + L) + 2 * m}
  <1>1. r - i \in Nat /\ i - 1 \in 0..n /\ P[i - 1] \in Nat /\ 0 \in 0..r - i
    OBVIOUS
  <1>2. 0 \in T
    <2>1. i \in i..r /\ i + 0 = i
      OBVIOUS
    <2>2. P[i + 0] = P[i - 1] + L
      BY <2>1
    <2> QED
      BY <1>1, <2>2
  <1>3. ASSUME NEW m \in 1..r - i, m - 1 \in T PROVE m \in T
    <2> DEFINE x == i + m
    <2>1. x \in i..r /\ x \in 0..n /\ x - 1 \in 0..n /\ i + (m - 1) = x - 1 /\ m \in 0..r - i
      BY <1>1
    <2>2. /\ P[x - 1] >= (P[i - 1] + L) + (m - 1)
          /\ L >= 2 => P[x - 1] >= (P[i - 1] + L) + 2 * (m - 1)
      BY <1>3, <2>1
    <2> HIDE DEF x
    <2>3. P[x] = P[x - 1] + L /\ P[x] \in Nat /\ P[x - 1] \in Nat
      BY <2>1
    <2>4. /\ P[x] >= (P[i - 1] + L) + m
          /\ L >= 2 => P[x] >= (P[i - 1] + L) + 2 * m
      <3> DEFINE a == P[i - 1]
                 b == P[x - 1]
                 c == P[x]
      <3>1. a \in Nat /\ b \in Nat /\ c = b + L /\ m \in Nat
        BY <1>1, <2>3
      <3>2. b >= (a + L) + (m - 1) /\ (L >= 2 => b >= (a + L) + 2 * (m - 1))
        BY <2>2
      <3> HIDE DEF a, b, c
      <3>3. c >= (a + L) + m
        BY <3>1, <3>2
      <3>4. ASSUME L >= 2 PROVE c >= (a + L) + 2 * m
        BY <3>1, <3>2, <3>4
      <3> QED
        BY <3>3, <3>4 DEF a, c
    <2> QED
      BY <2>1, <2>4 DEF x
  <1> HIDE DEF T
  <1>4. \A m \in 0..r - i : m \in T
    BY <1>1, <1>2, <1>3, Induction
  <1>5. r - i \in 0..r - i /\ i + (r - i) = r
    BY <1>1
  <1>6. /\ P[r] >= (P[i - 1] + L) + (r - i)
        /\ L >= 2 => P[r] >= (P[i - 1] + L) + 2 * (r - i)
    BY <1>4, <1>5 DEF T
  <1>7. P[r] \in Nat
    OBVIOUS
  <1> QED
    BY <1>1, <1>6, <1>7

\* A summary has the first group's lines and one more for each group.
LEMMA SummaryLength ==
  ASSUME NEW V, NEW run \in Seq(Seq(V)), Len(run) >= MinRun
  PROVE  /\ IsASequence(Summary(run))
         /\ Len(Summary(run)) = Len(run[1]) + Len(run)
  <1> DEFINE n == Len(run)
             first == Head(run)
             note == Note(Head(first).depth, n - 1, Len(first))
             rest == [k \in 1..n - 1 |->
                        Line(Head(first).depth, <<Word(<<"[n]", k>>)>> \o Detail(first, run[k + 1]))]
  <1>1. n \in Nat /\ n >= 3 /\ n - 1 \in Nat
    BY LenProperties DEF MinRun
  <1>2. first = run[1] /\ run[1] \in Seq(V) /\ Len(run[1]) \in Nat
    <2>1. 1 \in 1..Len(run) /\ first = run[1]
      BY <1>1
    <2> QED
      BY <2>1, ElementOfSeq, LenProperties
  <1>3. Summary(run) = (first \o <<note>>) \o rest
    BY DEF Summary
  <1>4. rest = [k \in 1..n - 1 |-> rest[k]]
    OBVIOUS
  <1> HIDE DEF rest, first, note, n
  <1>5. IsASequence(rest) /\ Len(rest) = n - 1
    BY <1>1, <1>4, FormedSequence
  <1>6. IsASequence(<<note>>) /\ Len(<<note>>) = 1
    <2>1. <<note>> \in Seq({note}) /\ Len(<<note>>) = 1
      OBVIOUS
    <2> QED
      BY <2>1 DEF IsASequence
  <1>7. IsASequence(first)
    BY <1>2 DEF IsASequence
  <1>8. IsASequence(first \o <<note>>) /\ Len(first \o <<note>>) = Len(first) + 1
    BY <1>6, <1>7, BothLong
  <1>9. /\ IsASequence((first \o <<note>>) \o rest)
        /\ Len((first \o <<note>>) \o rest) = (Len(first) + 1) + (n - 1)
    BY <1>5, <1>8, BothLong
  <1> QED
    BY <1>1, <1>2, <1>3, <1>9 DEF n

LEMMA RunFits ==
  ASSUME NEW V, NEW g \in Seq(Seq(V)), NEW i \in 1..Len(g), NEW P,
         P \in [0..Len(g) -> Nat], \A k \in 1..Len(g) : P[k] = P[k - 1] + Len(g[k]),
         \A k \in 1..Len(g) : Len(g[k]) >= 1
  PROVE  /\ IsASequence(RunLines(g, i)) /\ Len(RunLines(g, i)) >= 1
         /\ P[i - 1] + Len(RunLines(g, i)) <= P[RunEnd(g, i)]
  <1> DEFINE run == RunAt(g, i)
             r == RunEnd(g, i)
             L == Len(g[i])
  <1>1. /\ r \in i..Len(g) /\ \A k \in i..r : Len(g[k]) = L
        /\ run \in Seq(Seq(V)) /\ Len(run) = (r - i) + 1
        /\ \A k \in 1..Len(run) : run[k] = g[(i + k) - 1]
    BY RunIsThere
  <1>2. Len(g) \in Nat /\ L \in Nat /\ L >= 1
    BY ElementOfSeq, LenProperties
  <1>3. P[i - 1] \in Nat /\ P[r] \in Nat
    <2>1. i - 1 \in 0..Len(g) /\ r \in 0..Len(g)
      BY <1>1, <1>2
    <2> QED
      BY <2>1
  <1>4. Len(FlattenSeq(run)) = P[r] - P[i - 1]
    BY RunIsFlat
  <1> HIDE DEF run, r, L
  <1>5. /\ P[r] >= P[i - 1] + L
        /\ L >= 2 => P[r] >= (P[i - 1] + L) + 2 * (r - i)
    <2>1. ASSUME NEW k \in i..r PROVE P[k] = P[k - 1] + L
      <3>1. k \in 1..Len(g) /\ Len(g[k]) = L
        BY <1>1, <1>2
      <3>2. P[k] = P[k - 1] + Len(g[k])
        BY <3>1
      <3> QED
        BY <3>1, <3>2, Zenon
    <2> QED
      BY <1>1, <1>2, <2>1, RunGrows
  <1>6. CASE WorthASummary(run)
    <2>1. Len(run) >= MinRun /\ Len(Head(run)) >= 2 /\ RunLines(g, i) = Summary(run)
      BY <1>6 DEF WorthASummary, RunLines, run
    <2>2. run[1] = g[i] /\ Head(run) = run[1]
      <3>1. 1 \in 1..Len(run) /\ (i + 1) - 1 = i
        BY <1>1, <1>2
      <3> QED
        BY <1>1, <3>1
    <2>3. /\ IsASequence(Summary(run))
          /\ Len(Summary(run)) = Len(run[1]) + Len(run)
      BY <1>1, <2>1, SummaryLength
    <2>4. L >= 2 /\ Len(run) >= 3 /\ Len(Summary(run)) = L + ((r - i) + 1)
      BY <1>1, <2>1, <2>2, <2>3 DEF L, MinRun
    <2>5. Len(Summary(run)) >= 1 /\ P[i - 1] + Len(Summary(run)) <= P[r]
      <3> DEFINE s == Len(Summary(run))
                 a == P[i - 1]
                 b == P[r]
                 m == r - i
      <3>1. i \in Nat /\ r \in Nat /\ m \in Int /\ Len(run) = m + 1
        BY <1>1, <1>2
      <3>2. b >= (a + L) + 2 * m
        BY <1>5, <2>4
      <3>3. s = L + (m + 1)
        BY <2>4
      <3>4. a \in Nat /\ b \in Nat
        BY <1>3
      <3> HIDE DEF s, a, b, m
      <3>5. m >= 2
        BY <2>4, <3>1
      <3>6. s >= 1 /\ a + s <= b
        BY <1>2, <3>1, <3>2, <3>3, <3>4, <3>5
      <3> QED
        BY <3>6 DEF s, a, b
    <2> QED
      BY <2>1, <2>3, <2>5 DEF r
  <1>7. CASE ~WorthASummary(run)
    <2>1. RunLines(g, i) = FlattenSeq(run)
      BY <1>7 DEF RunLines, run
    <2>2. IsASequence(FlattenSeq(run))
      BY <1>1, FlattenLength DEF IsASequence
    <2>3. Len(FlattenSeq(run)) >= 1 /\ P[i - 1] + Len(FlattenSeq(run)) <= P[r]
      BY <1>2, <1>3, <1>4, <1>5
    <2> QED
      BY <2>1, <2>2, <2>3 DEF r
  <1> QED
    BY <1>6, <1>7

LEMMA RunGoesOn ==
  ASSUME NEW V, NEW g \in Seq(Seq(V)), NEW i \in 1..Len(g)
  PROVE  /\ i + Len(RunAt(g, i)) = RunEnd(g, i) + 1
         /\ RunEnd(g, i) \in i..Len(g) /\ RunEnd(g, i) + 1 \in i + 1..Len(g) + 1
  <1> DEFINE r == RunEnd(g, i)
             l == Len(RunAt(g, i))
             n == Len(g)
  <1>1. n \in Nat /\ r \in i..n /\ l = (r - i) + 1
    BY RunIsThere, LenProperties
  <1> HIDE DEF r, l, n
  <1>2. i + l = r + 1 /\ r + 1 \in i + 1..n + 1
    <2>1. i \in Nat
      OBVIOUS
    <2> QED
      BY <1>1, <2>1
  <1> QED
    BY <1>1, <1>2 DEF r, l, n

Downwards(n, piece, next, h) ==
  [i \in 1..n + 1 |-> IF i > n THEN <<>> ELSE piece[i] \o h[next[i]]]

LEMMA DownwardFunction ==
  ASSUME NEW n \in Nat, NEW piece, NEW next, \A i \in 1..n : next[i] \in i + 1..n + 1
  PROVE  \E h : h = Downwards(n, piece, next, h)
  <1> DEFINE Is(h, m) == h = [i \in (n + 1) - m..n + 1 |->
                                IF i > n THEN <<>> ELSE piece[i] \o h[next[i]]]
             T == {m \in 0..n : \E h : Is(h, m)}
  <1>1. 0 \in T
    <2> DEFINE h == [i \in n + 1..n + 1 |-> <<>>]
    <2>1. (n + 1) - 0 = n + 1 /\ 0 \in 0..n /\ \A i \in n + 1..n + 1 : i > n
      OBVIOUS
    <2>2. Is(h, 0)
      BY <2>1
    <2> HIDE DEF h, Is
    <2> QED
      BY <2>1, <2>2
  <1>2. ASSUME NEW m \in 1..n, m - 1 \in T PROVE m \in T
    <2>1. PICK h : Is(h, m - 1)
      BY <1>2
    <2> DEFINE a == (n + 1) - m
               h2 == [i \in a..n + 1 |-> IF i > n THEN <<>> ELSE piece[i] \o h[next[i]]]
    <2>2. a \in 1..n /\ (n + 1) - (m - 1) = a + 1 /\ m \in 0..n
      OBVIOUS
    <2> HIDE DEF a
    <2>3. h = [i \in a + 1..n + 1 |-> IF i > n THEN <<>> ELSE piece[i] \o h[next[i]]]
      BY <2>1, <2>2
    <2>4. ASSUME NEW i \in a + 1..n + 1 PROVE h2[i] = h[i]
      <3>1. h[i] = IF i > n THEN <<>> ELSE piece[i] \o h[next[i]]
        BY <2>3, Zenon
      <3>2. i \in a..n + 1
        BY <2>2
      <3> QED
        BY <3>1, <3>2
    <2>5. ASSUME NEW i \in a..n + 1, ~(i > n) PROVE h[next[i]] = h2[next[i]]
      <3>1. i \in 1..n
        BY <2>2, <2>5
      <3>2. next[i] \in a + 1..n + 1
        <4>1. next[i] \in i + 1..n + 1
          BY <3>1
        <4> QED
          BY <2>2, <3>1, <4>1
      <3> HIDE DEF h2
      <3> QED
        BY <2>4, <3>2
    <2> HIDE DEF h2
    <2>6. h2 = [i \in a..n + 1 |-> IF i > n THEN <<>> ELSE piece[i] \o h2[next[i]]]
      BY <2>5 DEF h2
    <2>7. Is(h2, m)
      BY <2>6 DEF a
    <2> HIDE DEF Is
    <2> QED
      BY <2>2, <2>7
  <1> HIDE DEF T
  <1>3. n \in T
    <2>1. n \in 0..n
      OBVIOUS
    <2> QED
      BY <1>1, <1>2, <2>1, Induction
  <1>4. (n + 1) - n = 1
    OBVIOUS
  <1> QED
    BY <1>3, <1>4 DEF T, Downwards

LEMMA CollapseIs ==
  ASSUME NEW V, NEW g \in Seq(Seq(V))
  PROVE  \E H : /\ CollapseRuns(g) = H[1]
                /\ \A i \in 1..Len(g) + 1 :
                     H[i] = IF i > Len(g) THEN <<>>
                            ELSE RunLines(g, i) \o H[i + Len(RunAt(g, i))]
  <1> DEFINE n == Len(g)
             next == [i \in 1..n |-> i + Len(RunAt(g, i))]
             piece == [i \in 1..n |-> RunLines(g, i)]
             H == CHOOSE h : h = [i \in 1..n + 1 |-> IF i > n THEN <<>>
                                    ELSE RunLines(g, i) \o h[i + Len(RunAt(g, i))]]
  <1>1. n \in Nat
    BY LenProperties
  <1>2. CollapseRuns(g) = H[1]
    BY DEF CollapseRuns, RunLines, RunAt
  <1>3. ASSUME NEW i \in 1..n PROVE next[i] \in i + 1..n + 1
    BY <1>1, RunGoesOn
  <1>4. \A i \in 1..n : next[i] = i + Len(RunAt(g, i)) /\ piece[i] = RunLines(g, i)
    OBVIOUS
  <1> HIDE DEF n, next, piece
  <1>5. H = [i \in 1..n + 1 |-> IF i > n THEN <<>>
                                ELSE RunLines(g, i) \o H[i + Len(RunAt(g, i))]]
    <2>1. PICK h : h = Downwards(n, piece, next, h)
      BY <1>1, <1>3, DownwardFunction
    <2>2. \A i \in 1..n + 1 : ~(i > n) => i \in 1..n
      BY <1>1
    <2>3. h = [i \in 1..n + 1 |-> IF i > n THEN <<>>
                                  ELSE RunLines(g, i) \o h[i + Len(RunAt(g, i))]]
      BY <1>4, <2>1, <2>2 DEF Downwards
    <2> QED
      BY <2>3
  <1> HIDE DEF H
  <1>6. ASSUME NEW i \in 1..n + 1
        PROVE  H[i] = IF i > n THEN <<>> ELSE RunLines(g, i) \o H[i + Len(RunAt(g, i))]
    BY <1>5, Zenon
  <1> QED
    BY <1>2, <1>6 DEF n

LEMMA CollapseFits ==
  ASSUME NEW V, NEW g \in Seq(Seq(V)), \A k \in 1..Len(g) : Len(g[k]) >= 1
  PROVE  /\ IsASequence(CollapseRuns(g)) /\ Len(CollapseRuns(g)) <= Len(FlattenSeq(g))
         /\ g # <<>> => Len(CollapseRuns(g)) >= 1
  <1> DEFINE n == Len(g)
  <1>1. n \in Nat
    BY LenProperties
  <1>2. PICK H : /\ CollapseRuns(g) = H[1]
                 /\ \A i \in 1..n + 1 :
                      H[i] = IF i > n THEN <<>>
                             ELSE RunLines(g, i) \o H[i + Len(RunAt(g, i))]
    BY CollapseIs
  <1>3. ASSUME NEW i \in 1..n
        PROVE  /\ i + Len(RunAt(g, i)) = RunEnd(g, i) + 1
               /\ RunEnd(g, i) \in i..n /\ RunEnd(g, i) + 1 \in i + 1..n + 1
    BY RunGoesOn
  <1> HIDE DEF n
  <1>7. PICK P : /\ P \in [0..Len(g) -> Nat] /\ P[0] = 0 /\ P[Len(g)] = Len(FlattenSeq(g))
                 /\ \A k \in 1..Len(g) : P[k] = P[k - 1] + Len(g[k])
    BY FlattenLength
  <1>8. \A k \in 0..n : P[k] \in Nat
    BY <1>7 DEF n
  <1> DEFINE T == {i \in 1..n + 1 : /\ IsASequence(H[i]) /\ P[i - 1] + Len(H[i]) <= P[n]
                                    /\ i <= n => Len(H[i]) >= 1}
  <1>9. ASSUME NEW i \in 1..n + 1, \A k \in i + 1..n + 1 : k \in T PROVE i \in T
    <2>1. CASE i = n + 1
      <3>1. H[i] = <<>> /\ i > n /\ ~(i <= n) /\ i - 1 = n /\ n \in 0..n
        BY <1>1, <1>2, <2>1
      <3>2. IsASequence(H[i]) /\ Len(H[i]) = 0
        BY <3>1, EmptySeq DEF IsASequence
      <3> QED
        BY <1>8, <3>1, <3>2
    <2>2. CASE i # n + 1
      <3> DEFINE r == RunEnd(g, i)
                 w == RunLines(g, i)
                 after == H[r + 1]
      <3>1. i \in 1..n /\ ~(i > n)
        BY <1>1, <2>2
      <3>2. r \in i..n /\ r + 1 \in i + 1..n + 1 /\ i + Len(RunAt(g, i)) = r + 1
        BY <1>3, <3>1
      <3>3. H[i] = w \o after
        BY <1>2, <3>1, <3>2, Zenon
      <3>4. IsASequence(w) /\ Len(w) >= 1 /\ P[i - 1] + Len(w) <= P[r]
        BY <1>7, <3>1, RunFits DEF n
      <3>5. (r + 1) - 1 = r
        BY <1>1, <3>2
      <3>6. IsASequence(after) /\ P[(r + 1) - 1] + Len(after) <= P[n]
        BY <1>9, <3>2
      <3>7. IsASequence(w \o after) /\ Len(w \o after) = Len(w) + Len(after)
        BY <3>4, <3>6, BothLong
      <3>8. P[i - 1] \in Nat /\ P[r] \in Nat /\ P[n] \in Nat
        <4>1. i - 1 \in 0..n /\ r \in 0..n /\ n \in 0..n
          BY <1>1, <3>1, <3>2
        <4> QED
          BY <1>8, <4>1
      <3>9. Len(w) \in Nat /\ Len(after) \in Nat
        BY <3>4, <3>6, SequenceIsFormed
      <3>10. P[r] + Len(after) <= P[n]
        BY <3>5, <3>6
      <3> HIDE DEF r, w, after
      <3>11. P[i - 1] + Len(H[i]) <= P[n] /\ Len(H[i]) >= 1
        BY <3>3, <3>4, <3>7, <3>8, <3>9, <3>10
      <3> QED
        BY <3>3, <3>7, <3>11
    <2> QED
      BY <2>1, <2>2
  <1> HIDE DEF T
  <1>10. \A i \in 1..n + 1 : i \in T
    <2>1. n + 1 \in Nat
      BY <1>1
    <2> QED
      BY <1>9, <2>1, FromAbove
  <1>11. 1 \in T /\ 1 - 1 = 0
    BY <1>1, <1>10
  <1>12. g # <<>> => 1 <= n
    BY EmptySeq DEF n
  <1>13. IsASequence(H[1]) /\ P[0] + Len(H[1]) <= P[n] /\ (1 <= n => Len(H[1]) >= 1)
    BY <1>11 DEF T
  <1>14. P[0] = 0 /\ P[n] = Len(FlattenSeq(g)) /\ Len(H[1]) \in Nat
    BY <1>7, <1>13, SequenceIsFormed DEF n
  <1> QED
    BY <1>2, <1>12, <1>13, <1>14

-----------------------------------------------------------------------------
(* The same tree with summaries and without.                               *)

Fits(s, t) ==
  /\ IsASequence(s) /\ IsASequence(t) /\ Len(s) <= Len(t)
  /\ s = <<>> <=> t = <<>>

LEMMA EnumerationIsOne ==
  ASSUME NEW K \in SUBSET Nat, NEW e, Enumerates(e, K), NEW f, Enumerates(f, K)
  PROVE  e = f
  <1> DEFINE I == [x \in K |-> x]
  <1>1. \A x \in K : I[x] = x
    OBVIOUS
  <1>2. ASSUME NEW b, Enumerates(b, K) PROVE [k \in 1..Len(b) |-> I[b[k]]] = b
    <2>1. b \in Seq(K)
      BY <1>2 DEF Enumerates
    <2>2. b = [k \in 1..Len(b) |-> b[k]] /\ \A k \in 1..Len(b) : b[k] \in K
      BY <2>1, ElementOfSeq, LenProperties
    <2> HIDE DEF I
    <2> QED
      BY <1>1, <2>2
  <1> HIDE DEF I
  <1>3. /\ InOrder({<<x, I[x]>> : x \in K}) = [k \in 1..Len(e) |-> I[e[k]]]
        /\ InOrder({<<x, I[x]>> : x \in K}) = [k \in 1..Len(f) |-> I[f[k]]]
    BY InOrderIs
  <1> QED
    BY <1>2, <1>3

\* The groups of the two come from the same children.
LEMMA GroupsFit ==
  ASSUME PInv, NEW i \in Nodes, NEW d, NEW h, NEW r,
         \A c \in Children(i) : Fits(h[c][d], r[c][d])
  PROVE  /\ \E V : Groups(i, d, h) \in Seq(Seq(V))
         /\ \E W : Groups(i, d, r) \in Seq(Seq(W))
         /\ Len(Groups(i, d, h)) = Len(Groups(i, d, r))
         /\ \A k \in 1..Len(Groups(i, d, h)) :
              /\ Len(Groups(i, d, h)[k]) <= Len(Groups(i, d, r)[k])
              /\ Len(Groups(i, d, h)[k]) >= 1 /\ Len(Groups(i, d, r)[k]) >= 1
  <1> DEFINE K == {c \in Children(i) : h[c][d] # <<>>}
  <1>1. /\ \A c : c \in K <=> c \in Children(i) /\ h[c][d] # <<>>
        /\ \A c : c \in K <=> c \in Children(i) /\ r[c][d] # <<>>
    BY DEF Fits
  <1>2. K \in SUBSET Nat
    BY ChildIsBelow
  <1> HIDE DEF K
  <1>3. PICK e : Enumerates(e, K) /\ Groups(i, d, h) = Rows(e, h, d)
    BY <1>1, GroupsAre
  <1>4. PICK f : Enumerates(f, K) /\ Groups(i, d, r) = Rows(f, r, d)
    BY <1>1, GroupsAre
  <1>5. e = f
    BY <1>2, <1>3, <1>4, EnumerationIsOne
  <1>6. Len(e) \in Nat /\ \A k \in 1..Len(e) : e[k] \in K
    BY <1>2, <1>3, EnumerationIsInjective
  <1> DEFINE g == Rows(e, h, d)
             b == Rows(e, r, d)
  <1>7. /\ g = [k \in 1..Len(e) |-> g[k]] /\ b = [k \in 1..Len(e) |-> b[k]]
        /\ \A k \in 1..Len(e) : g[k] = h[e[k]][d] /\ b[k] = r[e[k]][d]
    BY DEF Rows
  <1> HIDE DEF g, b
  <1>8. ASSUME NEW k \in 1..Len(e)
        PROVE  Fits(g[k], b[k]) /\ g[k] # <<>> /\ b[k] # <<>>
    BY <1>1, <1>6, <1>7
  <1>9. IsASequence(g) /\ Len(g) = Len(e) /\ IsASequence(b) /\ Len(b) = Len(e)
    BY <1>6, <1>7, FormedSequence
  <1>10. (\E V : g \in Seq(Seq(V))) /\ (\E W : b \in Seq(Seq(W)))
    BY <1>8, <1>9, SequencesTogether DEF Fits
  <1>11. ASSUME NEW k \in 1..Len(e)
         PROVE  Len(g[k]) <= Len(b[k]) /\ Len(g[k]) >= 1 /\ Len(b[k]) >= 1
    <2>1. /\ IsASequence(g[k]) /\ IsASequence(b[k]) /\ Len(g[k]) <= Len(b[k])
          /\ g[k] # <<>> /\ b[k] # <<>>
      BY <1>8 DEF Fits
    <2>2. /\ Len(g[k]) \in Nat /\ Len(g[k]) # 0 /\ Len(b[k]) \in Nat /\ Len(b[k]) # 0
      BY <2>1, SequenceIsFormed
    <2> QED
      BY <2>1, <2>2
  <1> QED
    BY <1>3, <1>4, <1>5, <1>9, <1>10, <1>11 DEF g, b

LEMMA FitsIs ==
  ASSUME NEW s, NEW t, IsASequence(s), IsASequence(t), Len(s) <= Len(t),
         Len(t) >= 1 => Len(s) >= 1
  PROVE  Fits(s, t)
  <1>1. /\ Len(s) \in Nat /\ (s = <<>> <=> Len(s) = 0)
        /\ Len(t) \in Nat /\ (t = <<>> <=> Len(t) = 0)
    BY SequenceIsFormed
  <1> QED
    BY <1>1 DEF Fits

LEMMA FlatFit ==
  ASSUME PInv, NEW i \in Nodes, NEW d, NEW h, NEW r,
         \A c \in Children(i) : Fits(h[c][d], r[c][d])
  PROVE  /\ Fits(FlattenSeq(Groups(i, d, h)), FlattenSeq(Groups(i, d, r)))
         /\ Fits(CollapseRuns(Groups(i, d, h)), FlattenSeq(Groups(i, d, r)))
  <1> DEFINE g == Groups(i, d, h)
             b == Groups(i, d, r)
  <1>1. /\ Len(g) = Len(b)
        /\ \A k \in 1..Len(g) : Len(g[k]) <= Len(b[k]) /\ Len(g[k]) >= 1 /\ Len(b[k]) >= 1
    BY GroupsFit
  <1>2. PICK V : g \in Seq(Seq(V))
    BY GroupsFit
  <1>3. PICK W : b \in Seq(Seq(W))
    BY GroupsFit
  <1> HIDE DEF g, b
  <1>4. IsASequence(FlattenSeq(g)) /\ IsASequence(FlattenSeq(b))
    BY <1>2, <1>3, FlattenLength DEF IsASequence
  <1>5. Len(FlattenSeq(g)) <= Len(FlattenSeq(b))
    BY <1>1, <1>2, <1>3, ShorterTogether
  <1>6. /\ IsASequence(CollapseRuns(g)) /\ Len(CollapseRuns(g)) <= Len(FlattenSeq(g))
        /\ g # <<>> => Len(CollapseRuns(g)) >= 1
    BY <1>1, <1>2, CollapseFits
  <1>7. /\ Len(FlattenSeq(g)) \in Nat /\ Len(FlattenSeq(b)) \in Nat
        /\ Len(CollapseRuns(g)) \in Nat
    BY <1>4, <1>6, SequenceIsFormed
  <1>8. g = <<>> => Len(FlattenSeq(b)) = 0
    <2>1. ASSUME g = <<>> PROVE Len(b) = 0
      BY <1>1, <2>1, EmptySeq
    <2>2. PICK P : P[0] = 0 /\ P[Len(b)] = Len(FlattenSeq(b))
      BY <1>3, FlattenLength
    <2> QED
      BY <2>1, <2>2
  <1>9. Len(FlattenSeq(b)) >= 1 => Len(CollapseRuns(g)) >= 1
    BY <1>6, <1>7, <1>8
  <1>10. Fits(CollapseRuns(g), FlattenSeq(b)) /\ Fits(FlattenSeq(g), FlattenSeq(b))
    <2>1. /\ Len(CollapseRuns(g)) <= Len(FlattenSeq(b))
          /\ Len(FlattenSeq(b)) >= 1 => Len(FlattenSeq(g)) >= 1
      BY <1>5, <1>6, <1>7, <1>9
    <2> QED
      BY <1>4, <1>5, <1>6, <1>9, <2>1, FitsIs
  <1> QED
    BY <1>10 DEF g, b

LEMMA ShiftedFit ==
  ASSUME NEW s, NEW t, Fits(s, t)
  PROVE  Fits(Shifted(s), Shifted(t))
  <1>1. ASSUME NEW b, IsASequence(b)
        PROVE  IsASequence(Shifted(b)) /\ Len(Shifted(b)) = Len(b)
    <2>1. Len(b) \in Nat /\ DOMAIN b = 1..Len(b)
      BY <1>1, SequenceIsFormed
    <2>2. Shifted(b) = [k \in 1..Len(b) |-> Shifted(b)[k]]
      BY <2>1 DEF Shifted
    <2> QED
      BY <2>1, <2>2, FormedSequence
  <1>2. IsASequence(s) /\ IsASequence(t) /\ Len(s) <= Len(t) /\ (s = <<>> <=> t = <<>>)
    BY DEF Fits
  <1>3. /\ Len(s) \in Nat /\ (s = <<>> <=> Len(s) = 0)
        /\ Len(t) \in Nat /\ (t = <<>> <=> Len(t) = 0)
    BY <1>2, SequenceIsFormed
  <1>4. /\ IsASequence(Shifted(s)) /\ Len(Shifted(s)) = Len(s)
        /\ IsASequence(Shifted(t)) /\ Len(Shifted(t)) = Len(t)
    BY <1>1, <1>2
  <1>5. Len(Shifted(s)) <= Len(Shifted(t)) /\ (Len(Shifted(t)) >= 1 => Len(Shifted(s)) >= 1)
    BY <1>2, <1>3, <1>4
  <1> QED
    BY <1>4, <1>5, FitsIs

LEMMA LineFits ==
  ASSUME NEW s, NEW t, Fits(s, t), NEW x, NEW y
  PROVE  Fits(<<x>> \o s, <<y>> \o t)
  <1>1. ASSUME NEW z PROVE IsASequence(<<z>>) /\ Len(<<z>>) = 1
    <2>1. <<z>> \in Seq({z}) /\ Len(<<z>>) = 1
      OBVIOUS
    <2> QED
      BY <2>1 DEF IsASequence
  <1>2. IsASequence(s) /\ IsASequence(t) /\ Len(s) <= Len(t)
    BY DEF Fits
  <1>3. Len(s) \in Nat /\ Len(t) \in Nat
    BY <1>2, SequenceIsFormed
  <1>4. /\ IsASequence(<<x>> \o s) /\ Len(<<x>> \o s) = 1 + Len(s)
        /\ IsASequence(<<y>> \o t) /\ Len(<<y>> \o t) = 1 + Len(t)
    <2>1. IsASequence(<<x>>) /\ Len(<<x>>) = 1 /\ IsASequence(<<y>>) /\ Len(<<y>>) = 1
      BY <1>1
    <2> QED
      BY <1>2, <2>1, BothLong
  <1>5. Len(<<x>> \o s) <= Len(<<y>> \o t) /\ Len(<<x>> \o s) >= 1
    BY <1>2, <1>3, <1>4
  <1> QED
    BY <1>4, <1>5, FitsIs

LEMMA NodeFits ==
  ASSUME PInv, NEW i \in Nodes, NEW h, NEW r,
         \A c \in Children(i), d \in Nat : Fits(h[c][d], r[c][d])
  PROVE  \A d \in Nat : Fits(RenderNode(i, d, TRUE, h), RenderNode(i, d, FALSE, r))
  <1> SUFFICES ASSUME NEW d \in Nat
               PROVE  Fits(RenderNode(i, d, TRUE, h), RenderNode(i, d, FALSE, r))
    OBVIOUS
  <1> DEFINE kind == parser.tree[i].kind
             g == Groups(i, d, h)
             b == Groups(i, d, r)
             g1 == Groups(i, d + 1, h)
             b1 == Groups(i, d + 1, r)
             x == NodeLine(kind, d, g1 = <<>>)
             y == NodeLine(kind, d, b1 = <<>>)
  <1>1. Fits(FlattenSeq(g), FlattenSeq(b)) /\ Fits(CollapseRuns(g1), FlattenSeq(b1))
    <2>1. d + 1 \in Nat
      OBVIOUS
    <2>2. \A c \in Children(i) : Fits(h[c][d], r[c][d]) /\ Fits(h[c][d + 1], r[c][d + 1])
      BY <2>1
    <2> QED
      BY <2>2, FlatFit
  <1>2. /\ RenderNode(i, d, TRUE, h)
             = IF kind.tag \in WrapperTags THEN FlattenSeq(g)
               ELSE IF IsHidden(kind.attrs) THEN <<>>
               ELSE IF Targetable(kind) THEN <<x>> \o CollapseRuns(g1)
                    ELSE Shifted(CollapseRuns(g1))
        /\ RenderNode(i, d, FALSE, r)
             = IF kind.tag \in WrapperTags THEN FlattenSeq(b)
               ELSE IF IsHidden(kind.attrs) THEN <<>>
               ELSE IF Targetable(kind) THEN <<y>> \o FlattenSeq(b1)
                    ELSE Shifted(FlattenSeq(b1))
    BY DEF RenderNode
  <1> HIDE DEF g, b, g1, b1, x, y, kind
  <1>3. Fits(<<>>, <<>>)
    BY EmptySeq DEF Fits, IsASequence
  <1>4. Fits(<<x>> \o CollapseRuns(g1), <<y>> \o FlattenSeq(b1))
    BY <1>1, LineFits
  <1>5. Fits(Shifted(CollapseRuns(g1)), Shifted(FlattenSeq(b1)))
    BY <1>1, ShiftedFit
  <1> QED
    BY <1>1, <1>2, <1>3, <1>4, <1>5, Zenon

LEMMA SummarisesShorter ==
  ASSUME PInv
  PROVE  SummariesAreShorter
  <1> DEFINE N == Len(parser.tree)
  <1> DEFINE h == Rendered(TRUE)
             r == Rendered(FALSE)
  <1>1. /\ \A i \in Nodes, d \in Nat : h[i][d] = RenderNode(i, d, TRUE, h)
        /\ ToAccessibilityYaml(TRUE) = IF parser.root = 0 THEN <<>> ELSE h[parser.root][0]
    BY RenderedIs DEF ToAccessibilityYaml
  <1>2. /\ \A i \in Nodes, d \in Nat : r[i][d] = RenderNode(i, d, FALSE, r)
        /\ ToAccessibilityYaml(FALSE) = IF parser.root = 0 THEN <<>> ELSE r[parser.root][0]
    BY RenderedIs DEF ToAccessibilityYaml
  <1> HIDE DEF h, r
  <1> DEFINE T == {i \in Nodes : \A d \in Nat : Fits(h[i][d], r[i][d])}
  <1>3. N \in Nat /\ Nodes = 1..N
    BY ParentsOrdered DEF Nodes
  <1> HIDE DEF N
  <1>4. ASSUME NEW i \in 1..N, \A c \in i + 1..N : c \in T PROVE i \in T
    <2>1. ASSUME NEW c \in Children(i) PROVE c \in T
      <3>1. c \in Nodes /\ i < c /\ i \in Nat /\ c \in Nat
        BY <1>3, ChildIsBelow
      <3> QED
        BY <1>3, <1>4, <3>1
    <2>2. \A d \in Nat : Fits(RenderNode(i, d, TRUE, h), RenderNode(i, d, FALSE, r))
      BY <1>3, <2>1, NodeFits
    <2> QED
      BY <1>1, <1>2, <1>3, <2>2
  <1> HIDE DEF T
  <1>5. \A i \in 1..N : i \in T
    BY <1>3, <1>4, FromAbove
  <1>6. CASE parser.root = 0
    <2>1. ToAccessibilityYaml(TRUE) = <<>> /\ ToAccessibilityYaml(FALSE) = <<>>
      BY <1>1, <1>2, <1>6, Zenon
    <2>2. Len(<<>>) <= Len(<<>>)
      OBVIOUS
    <2> QED
      BY <2>1, <2>2 DEF SummariesAreShorter
  <1>7. CASE parser.root # 0
    <2>1. parser.root \in Nodes
      <3>1. parser.tree # <<>> /\ parser.root = 1
        BY <1>7 DEF PInv, RootIsFirst
      <3>2. N # 0
        BY <1>3, <3>1, EmptySeq DEF N, PInv, ParserIsRecord
      <3> QED
        BY <1>3, <3>1, <3>2
    <2>2. Fits(h[parser.root][0], r[parser.root][0])
      BY <1>3, <1>5, <2>1 DEF T
    <2>3. /\ ToAccessibilityYaml(TRUE) = h[parser.root][0]
          /\ ToAccessibilityYaml(FALSE) = r[parser.root][0]
      BY <1>1, <1>2, <1>7, Zenon
    <2> QED
      BY <2>2, <2>3 DEF Fits, SummariesAreShorter
  <1> QED
    BY <1>6, <1>7

(***************************************************************************)
(* Whatever the document, collapseRuns() makes the list that is printed no *)
(* longer, at any level of it.                                             *)
(***************************************************************************)
THEOREM SummariesOnlyShorten == TreeSpec => []SummariesAreShorter
  BY TreeInvariance, SummarisesShorter, PTL

-----------------------------------------------------------------------------
(* What is printed are lines of words.                                     *)

IsALine(x) ==
  /\ x = [depth |-> x.depth, words |-> x.words, length |-> x.length]
  /\ IsASequence(x.words)

AreLines(s) == IsASequence(s) /\ \A k \in 1..Len(s) : IsALine(s[k])

LEMMA OneIsASequence ==
  ASSUME NEW x
  PROVE  IsASequence(<<x>>) /\ Len(<<x>>) = 1 /\ <<x>>[1] = x
  <1>1. <<x>> \in Seq({x}) /\ Len(<<x>>) = 1 /\ <<x>>[1] = x
    OBVIOUS
  <1> QED
    BY <1>1 DEF IsASequence

LEMMA NoneIsASequence == IsASequence(<<>>) /\ Len(<<>>) = 0 /\ AreLines(<<>>)
  <1>1. IsASequence(<<>>) /\ Len(<<>>) = 0
    BY EmptySeq DEF IsASequence
  <1> QED
    BY <1>1 DEF AreLines

LEMMA LineIsALine ==
  ASSUME NEW depth, NEW words, IsASequence(words)
  PROVE  IsALine(Line(depth, words))
  BY DEF IsALine, Line

LEMMA NoteIsALine ==
  ASSUME NEW depth, NEW n, NEW length
  PROVE  IsALine(Note(depth, n, length))
  <1> DEFINE w == Word(<<"siblings", n>>)
             x == Token(<<"=">>)
  <1>1. <<w, x>> \in Seq({w, x})
    OBVIOUS
  <1>2. IsASequence(<<w, x>>)
    BY <1>1 DEF IsASequence
  <1>3. Note(depth, n, length) = [depth |-> depth, words |-> <<w, x>>, length |-> length]
    BY DEF Note, Line
  <1> HIDE DEF w, x
  <1> QED
    BY <1>2, <1>3 DEF IsALine

\* Lines that are taken from lines are lines.
LEMMA LinesOfLines ==
  ASSUME NEW V, \A x \in V : IsALine(x), NEW s \in Seq(V)
  PROVE  AreLines(s)
  BY ElementOfSeq DEF AreLines, IsASequence

LEMMA LinesTogether ==
  ASSUME NEW g, IsASequence(g), \A k \in 1..Len(g) : AreLines(g[k])
  PROVE  \E V : g \in Seq(Seq(V)) /\ \A x \in V : IsALine(x)
  <1> DEFINE V == UNION {{g[k][j] : j \in 1..Len(g[k])} : k \in 1..Len(g)}
  <1>1. \A x \in V : IsALine(x)
    BY DEF AreLines
  <1>2. ASSUME NEW k \in 1..Len(g) PROVE g[k] \in Seq(V)
    <2>1. \A j \in 1..Len(g[k]) : g[k][j] \in V
      OBVIOUS
    <2>2. IsASequence(g[k])
      BY DEF AreLines
    <2> HIDE DEF V
    <2> QED
      BY <2>1, <2>2, SequenceIsFormed
  <1> HIDE DEF V
  <1>3. g \in Seq(Seq(V))
    BY <1>2, SequenceIsFormed
  <1> QED
    BY <1>1, <1>3

LEMMA FlatLines ==
  ASSUME NEW g, IsASequence(g), \A k \in 1..Len(g) : AreLines(g[k])
  PROVE  AreLines(FlattenSeq(g))
  <1>1. PICK V : g \in Seq(Seq(V)) /\ \A x \in V : IsALine(x)
    BY LinesTogether
  <1>2. FlattenSeq(g) \in Seq(V)
    BY <1>1, FlattenLength
  <1> QED
    BY <1>1, <1>2, LinesOfLines

LEMMA BothLines ==
  ASSUME NEW s, NEW t, AreLines(s), AreLines(t)
  PROVE  AreLines(s \o t)
  <1> DEFINE V == {s[k] : k \in 1..Len(s)} \union {t[k] : k \in 1..Len(t)}
  <1>1. /\ \A k \in 1..Len(s) : s[k] \in V
        /\ \A k \in 1..Len(t) : t[k] \in V
        /\ \A x \in V : IsALine(x)
    BY DEF AreLines
  <1> HIDE DEF V
  <1>2. s \in Seq(V) /\ t \in Seq(V)
    BY <1>1, SequenceIsFormed DEF AreLines
  <1>3. s \o t \in Seq(V)
    BY <1>2, ConcatProperties
  <1> QED
    BY <1>1, <1>3, LinesOfLines

LEMMA OneLine ==
  ASSUME NEW x, IsALine(x)
  PROVE  AreLines(<<x>>)
  <1>1. IsASequence(<<x>>) /\ Len(<<x>>) = 1 /\ <<x>>[1] = x
    BY OneIsASequence
  <1>2. \A k \in 1..1 : k = 1
    OBVIOUS
  <1> QED
    BY <1>1, <1>2 DEF AreLines

LEMMA ShiftedLines ==
  ASSUME NEW s, AreLines(s)
  PROVE  AreLines(Shifted(s))
  <1>1. Len(s) \in Nat /\ DOMAIN s = 1..Len(s)
    BY SequenceIsFormed DEF AreLines
  <1>2. /\ Shifted(s) = [k \in 1..Len(s) |-> Shifted(s)[k]]
        /\ \A k \in 1..Len(s) : Shifted(s)[k] = [s[k] EXCEPT !.depth = @ - 1]
    BY <1>1 DEF Shifted
  <1>3. IsASequence(Shifted(s)) /\ Len(Shifted(s)) = Len(s)
    BY <1>1, <1>2, FormedSequence
  <1>4. ASSUME NEW k \in 1..Len(s) PROVE IsALine(Shifted(s)[k])
    <2> DEFINE x == s[k]
    <2>1. x = [depth |-> x.depth, words |-> x.words, length |-> x.length] /\ IsASequence(x.words)
      BY DEF AreLines, IsALine
    <2>2. Shifted(s)[k] = [x EXCEPT !.depth = @ - 1]
      BY <1>2
    <2> HIDE DEF x
    <2>3. [x EXCEPT !.depth = @ - 1]
            = [depth |-> x.depth - 1, words |-> x.words, length |-> x.length]
      BY <2>1
    <2> QED
      BY <2>1, <2>2, <2>3 DEF IsALine
  <1> QED
    BY <1>3, <1>4 DEF AreLines

LEMMA EnumerationExists ==
  ASSUME NEW n \in Nat, NEW K \in SUBSET (1..n)
  PROVE  \E e : Enumerates(e, K)
  <1> DEFINE I == [x \in K |-> x]
  <1>1. \A x \in K : I[x] \in K
    OBVIOUS
  <1> HIDE DEF I
  <1>2. PICK s : Lists(s, K, I, K)
    BY <1>1, ListExists
  <1> QED
    BY <1>2 DEF Lists

LEMMA PlaceIs ==
  ASSUME NEW K \in SUBSET Nat, NEW e, Enumerates(e, K), NEW k \in 1..Len(e)
  PROVE  Cardinality({j \in K : j <= e[k]}) = k
  <1> DEFINE n == Len(e)
             Upto == {j \in K : j <= e[k]}
             c == [j \in 1..k |-> e[j]]
  <1>1. /\ n \in Nat /\ \A j \in 1..n : e[j] \in K /\ e[j] \in Nat
        /\ \A j, m \in 1..n : e[j] <= e[m] <=> j <= m
    BY EnumerationIsInjective
  <1>2. k \in Nat /\ \A j \in 1..k : j \in 1..n /\ j <= k
    BY <1>1
  <1>3. \A j \in 1..k : c[j] = e[j] /\ c[j] \in Upto
    BY <1>1, <1>2
  <1>4. ASSUME NEW j \in 1..k, NEW m \in 1..k, c[j] = c[m] PROVE j = m
    <2>1. e[j] <= e[m] /\ e[m] <= e[j]
      BY <1>1, <1>2, <1>3, <1>4
    <2>2. j <= m /\ m <= j
      BY <1>1, <1>2, <2>1
    <2> QED
      BY <1>2, <2>2
  <1>5. ASSUME NEW x \in Upto PROVE \E j \in 1..k : c[j] = x
    <2>1. PICK j \in 1..n : e[j] = x
      BY DEF Enumerates
    <2>2. j <= k
      BY <1>1, <2>1
    <2>3. j \in 1..k
      BY <1>1, <1>2, <2>2
    <2> QED
      BY <1>3, <2>1, <2>3
  <1>6. c \in [1..k -> Upto]
    BY <1>3
  <1> HIDE DEF c, Upto
  <1>7. c \in Bijection(1..k, Upto)
    BY <1>4, <1>5, <1>6, Fun_IsBij
  <1>8. IsFiniteSet(1..k) /\ Cardinality(1..k) = k
    BY <1>2, UpTo
  <1>9. Cardinality(Upto) = k
    BY <1>7, <1>8, FS_Bijection DEF ExistsBijection
  <1> QED
    BY <1>9 DEF Upto

LEMMA AtIs ==
  ASSUME NEW s, NEW K \in SUBSET Nat, NEW e, Enumerates(e, K)
  PROVE  /\ At(s, K) = [k \in 1..Len(e) |-> s[e[k]]]
         /\ IsASequence(At(s, K)) /\ Len(At(s, K)) = Len(e)
  <1> DEFINE row == [k \in 1..Len(e) |-> s[e[k]]]
             V == {s[x] : x \in K}
  <1>1. Len(e) \in Nat /\ \A k \in 1..Len(e) : e[k] \in K
    BY EnumerationIsInjective
  <1>2. row = [k \in 1..Len(e) |-> row[k]] /\ \A k \in 1..Len(e) : row[k] = s[e[k]] /\ row[k] \in V
    BY <1>1
  <1> HIDE DEF row, V
  <1>3. IsASequence(row) /\ Len(row) = Len(e) /\ row \in Seq(V)
    BY <1>1, <1>2, FormedSequence
  <1>4. Lists(row, K, s, V)
    BY <1>2, <1>3 DEF Lists
  <1>5. InOrder({<<x, s[x]>> : x \in K}) = row
    BY <1>4, ListsInOrder
  <1>6. At(s, K) = row
    BY <1>5 DEF At
  <1> QED
    BY <1>3, <1>6 DEF row

LEMMA AtIsASequence ==
  ASSUME NEW s, NEW n \in Nat, NEW K \in SUBSET (1..n)
  PROVE  IsASequence(At(s, K))
  <1>1. PICK e : Enumerates(e, K)
    BY EnumerationExists
  <1>2. K \in SUBSET Nat
    OBVIOUS
  <1> QED
    BY <1>1, <1>2, AtIs

LEMMA FlatIsASequence ==
  ASSUME NEW g, IsASequence(g), \A k \in 1..Len(g) : IsASequence(g[k])
  PROVE  IsASequence(FlattenSeq(g))
  <1>1. PICK V : g \in Seq(Seq(V))
    BY SequencesTogether
  <1> QED
    BY <1>1, FlattenLength DEF IsASequence

LEMMA StatesAreASequence ==
  ASSUME NEW a, NEW name
  PROVE  IsASequence(GetStates(a, name))
  <1> DEFINE K == {i \in DOMAIN Flags : Attr(a, Flags[i][1]) = Flags[i][2]}
             L == {i \in DOMAIN Texts : Attr(a, Texts[i]) \notin {"", name}}
             set == At(Flags, K)
             other == At(Texts, L)
             flags == [i \in DOMAIN set |-> Word(set[i])]
             texts == [i \in DOMAIN other |-> <<Word(<<other[i]>>), Token(<<Attr(a, other[i])>>)>>]
             id == IF "resource-id" \in DOMAIN a
                   THEN <<Word(<<"id">>), Token(<<Last(a["resource-id"])>>)>> ELSE <<>>
  <1>1. GetStates(a, name) = (flags \o FlattenSeq(texts)) \o id
    BY DEF GetStates
  <1>2. K \in SUBSET (1..7) /\ L \in SUBSET (1..3)
    <2>1. K \subseteq DOMAIN Flags /\ L \subseteq DOMAIN Texts
      OBVIOUS
    <2>2. DOMAIN Flags = 1..7 /\ DOMAIN Texts = 1..3
      BY DEF Flags, Texts
    <2> QED
      BY <2>1, <2>2
  <1> HIDE DEF K, L
  <1>3. IsASequence(set) /\ IsASequence(other)
    BY <1>2, AtIsASequence
  <1> HIDE DEF set, other
  <1>4. /\ Len(set) \in Nat /\ DOMAIN set = 1..Len(set)
        /\ Len(other) \in Nat /\ DOMAIN other = 1..Len(other)
    BY <1>3, SequenceIsFormed
  <1>5. \A x, y : IsASequence(<<x, y>>)
    <2>1. \A x, y : <<x, y>> \in Seq({x, y})
      OBVIOUS
    <2> QED
      BY <2>1 DEF IsASequence
  <1>6. IsASequence(flags)
    <2>1. flags = [i \in 1..Len(set) |-> flags[i]]
      BY <1>4
    <2> HIDE DEF flags
    <2> QED
      BY <1>4, <2>1, FormedSequence
  <1>7. IsASequence(FlattenSeq(texts))
    <2>1. /\ texts = [i \in 1..Len(other) |-> texts[i]]
          /\ \A i \in 1..Len(other) : IsASequence(texts[i])
      BY <1>4, <1>5
    <2> HIDE DEF texts
    <2>2. IsASequence(texts) /\ Len(texts) = Len(other)
      BY <1>4, <2>1, FormedSequence
    <2> QED
      BY <2>1, <2>2, FlatIsASequence
  <1>8. IsASequence(id)
    BY <1>5, NoneIsASequence
  <1> HIDE DEF flags, texts, id
  <1>9. IsASequence(flags \o FlattenSeq(texts))
    BY <1>6, <1>7, BothLong
  <1> QED
    BY <1>1, <1>8, <1>9, BothLong

LEMMA NodeLineIsALine ==
  ASSUME NEW kind \in Kinds, NEW depth, NEW leaf \in BOOLEAN
  PROVE  IsALine(NodeLine(kind, depth, leaf))
  <1> DEFINE a == kind.attrs
             name == GetName(a)
             bounds == IF Bounds /\ IsTapTarget(a, leaf) THEN GetBoundsParts(a) ELSE <<>>
             notes == GetStates(a, name) \o bounds
             w1 == <<Word(<<"role", GetRole(kind)>>)>>
             w2 == IF name = "" THEN <<>> ELSE <<Token(<<name>>)>>
             w3 == IF notes = <<>> THEN <<>> ELSE <<Word(<<"[">>)>> \o notes
             w4 == IF leaf THEN <<>> ELSE <<Word(<<":">>)>>
  <1>1. NodeWords(kind, leaf) = ((w1 \o w2) \o w3) \o w4
    BY DEF NodeWords
  <1>2. IsASequence(bounds)
    <2>1. IsASequence(GetBoundsParts(a))
      BY OneIsASequence, NoneIsASequence DEF GetBoundsParts
    <2> QED
      BY <2>1, NoneIsASequence
  <1>3. IsASequence(notes)
    BY <1>2, StatesAreASequence, BothLong
  <1>4. IsASequence(w1) /\ IsASequence(w2) /\ IsASequence(w4)
    BY OneIsASequence, NoneIsASequence
  <1>5. IsASequence(w3)
    <2> HIDE DEF notes
    <2>1. IsASequence(<<Word(<<"[">>)>> \o notes)
      BY <1>3, OneIsASequence, BothLong
    <2> QED
      BY <2>1, NoneIsASequence
  <1> HIDE DEF w1, w2, w3, w4
  <1>6. IsASequence(w1 \o w2)
    BY <1>4, BothLong
  <1>7. IsASequence((w1 \o w2) \o w3)
    BY <1>5, <1>6, BothLong
  <1>8. IsASequence(NodeWords(kind, leaf))
    BY <1>1, <1>4, <1>7, BothLong
  <1>9. NodeLine(kind, depth, leaf) = Line(depth, NodeWords(kind, leaf))
    <2>1. Words[kind][leaf] = NodeWords(kind, leaf)
      BY DEF Words
    <2> QED
      BY <2>1 DEF NodeLine
  <1> QED
    BY <1>8, <1>9, LineIsALine

LEMMA WordsAreASequence ==
  ASSUME NEW s, AreLines(s)
  PROVE  IsASequence(AllWords(s)) /\ IsASequence(TokensOf(s))
  <1> DEFINE g == [i \in DOMAIN s |-> s[i].words]
             words == AllWords(s)
  <1>1. Len(s) \in Nat /\ DOMAIN s = 1..Len(s)
    BY SequenceIsFormed DEF AreLines
  <1>2. g = [i \in 1..Len(s) |-> g[i]] /\ \A i \in 1..Len(s) : IsASequence(g[i])
    BY <1>1 DEF AreLines, IsALine
  <1>3. words = FlattenSeq(g)
    BY DEF AllWords
  <1> HIDE DEF g, words
  <1>4. IsASequence(g) /\ Len(g) = Len(s)
    BY <1>1, <1>2, FormedSequence
  <1>5. IsASequence(words)
    BY <1>2, <1>3, <1>4, FlatIsASequence
  <1>6. Len(words) \in Nat /\ Tokens(words) \in SUBSET (1..Len(words))
    <2>1. Len(words) \in Nat /\ DOMAIN words = 1..Len(words)
      BY <1>5, SequenceIsFormed
    <2> QED
      BY <2>1 DEF Tokens
  <1>7. IsASequence(At(words, Tokens(words)))
    BY <1>6, AtIsASequence
  <1>8. TokensOf(s) = At(words, Tokens(words))
    BY DEF TokensOf, words
  <1> QED
    BY <1>5, <1>7, <1>8 DEF words

LEMMA DetailIsASequence ==
  ASSUME NEW example, NEW group, AreLines(group)
  PROVE  IsASequence(Detail(example, group))
  <1> DEFINE own == TokensOf(group)
             d == Detail(example, group)
  <1>1. Len(own) \in Nat /\ DOMAIN own = 1..Len(own)
    BY WordsAreASequence, SequenceIsFormed
  <1>2. d = [i \in DOMAIN own |-> IF own[i] = TokensOf(example)[i] THEN Same ELSE own[i]]
    BY DEF Detail
  <1> HIDE DEF own, d
  <1>3. d = [i \in 1..Len(own) |-> d[i]]
    BY <1>1, <1>2
  <1>4. IsASequence(d)
    BY <1>1, <1>3, FormedSequence
  <1> QED
    BY <1>4 DEF d

LEMMA SummaryLines ==
  ASSUME NEW V, NEW run \in Seq(Seq(V)), Len(run) >= MinRun,
         \A k \in 1..Len(run) : AreLines(run[k])
  PROVE  AreLines(Summary(run))
  <1> DEFINE n == Len(run)
             first == Head(run)
             note == Note(Head(first).depth, n - 1, Len(first))
             row(k) == Line(Head(first).depth, <<Word(<<"[n]", k>>)>> \o Detail(first, run[k + 1]))
             rest == [k \in 1..n - 1 |-> row(k)]
  <1>1. n \in Nat /\ n >= 3 /\ n - 1 \in Nat
    BY LenProperties DEF MinRun
  <1>2. AreLines(first)
    <2>1. 1 \in 1..Len(run) /\ first = run[1]
      BY <1>1
    <2> QED
      BY <2>1
  <1>3. Summary(run) = (first \o <<note>>) \o rest
    BY DEF Summary
  <1>4. ASSUME NEW k \in 1..n - 1 PROVE IsALine(row(k))
    <2>1. AreLines(run[k + 1])
      <3>1. k + 1 \in 1..Len(run)
        BY <1>1
      <3> QED
        BY <3>1
    <2>2. IsASequence(<<Word(<<"[n]", k>>)>>)
      BY OneIsASequence
    <2>3. IsASequence(Detail(first, run[k + 1]))
      BY <2>1, DetailIsASequence
    <2>4. IsASequence(<<Word(<<"[n]", k>>)>> \o Detail(first, run[k + 1]))
      BY <2>2, <2>3, BothLong
    <2> QED
      BY <2>4, LineIsALine
  <1> HIDE DEF row
  <1>5. rest = [k \in 1..n - 1 |-> rest[k]] /\ \A k \in 1..n - 1 : IsALine(rest[k])
    BY <1>4
  <1>6. AreLines(<<note>>)
    BY NoteIsALine, OneLine
  <1> HIDE DEF rest, first, note, n
  <1>7. IsASequence(rest) /\ Len(rest) = n - 1
    BY <1>1, <1>5, FormedSequence
  <1>8. AreLines(rest)
    BY <1>5, <1>7 DEF AreLines
  <1>9. AreLines(first \o <<note>>)
    BY <1>2, <1>6, BothLines
  <1> QED
    BY <1>3, <1>8, <1>9, BothLines

LEMMA CollapsedLines ==
  ASSUME NEW g, IsASequence(g), \A k \in 1..Len(g) : AreLines(g[k])
  PROVE  AreLines(CollapseRuns(g))
  <1> DEFINE n == Len(g)
  <1>1. PICK V : g \in Seq(Seq(V))
    BY LinesTogether
  <1>2. n \in Nat
    BY SequenceIsFormed
  <1>3. PICK H : /\ CollapseRuns(g) = H[1]
                 /\ \A i \in 1..n + 1 :
                      H[i] = IF i > n THEN <<>>
                             ELSE RunLines(g, i) \o H[i + Len(RunAt(g, i))]
    BY <1>1, CollapseIs
  <1>4. ASSUME NEW i \in 1..n
        PROVE  AreLines(RunLines(g, i)) /\ i + Len(RunAt(g, i)) \in i + 1..n + 1
    <2> DEFINE run == RunAt(g, i)
    <2>1. i + Len(run) = RunEnd(g, i) + 1 /\ RunEnd(g, i) + 1 \in i + 1..n + 1
      BY <1>1, RunGoesOn
    <2>2. /\ RunEnd(g, i) \in i..n /\ run \in Seq(Seq(V)) /\ Len(run) = (RunEnd(g, i) - i) + 1
          /\ \A k \in 1..Len(run) : run[k] = g[(i + k) - 1]
      BY <1>1, RunIsThere
    <2> HIDE DEF run
    <2>3. ASSUME NEW k \in 1..Len(run) PROVE AreLines(run[k])
      <3> DEFINE r == RunEnd(g, i)
      <3>1. r \in i..n /\ Len(run) = (r - i) + 1
        BY <2>2
      <3> HIDE DEF r
      <3>2. (i + k) - 1 \in 1..n
        BY <1>2, <3>1
      <3>3. run[k] = g[(i + k) - 1]
        BY <2>2
      <3> QED
        BY <3>2, <3>3
    <2>4. CASE WorthASummary(run)
      <3>1. Len(run) >= MinRun
        BY <2>4 DEF WorthASummary
      <3>2. AreLines(Summary(run))
        BY <2>2, <2>3, <3>1, SummaryLines
      <3> QED
        BY <2>1, <2>4, <3>2 DEF RunLines, run
    <2>5. CASE ~WorthASummary(run)
      <3>1. AreLines(FlattenSeq(run))
        BY <2>2, <2>3, FlatLines DEF IsASequence
      <3> QED
        BY <2>1, <2>5, <3>1 DEF RunLines, run
    <2> QED
      BY <2>4, <2>5
  <1> HIDE DEF n
  <1> DEFINE T == {i \in 1..n + 1 : AreLines(H[i])}
  <1>5. ASSUME NEW i \in 1..n + 1, \A k \in i + 1..n + 1 : k \in T PROVE i \in T
    <2>1. CASE i > n
      BY <1>3, <2>1, NoneIsASequence
    <2>2. CASE ~(i > n)
      <3> DEFINE after == i + Len(RunAt(g, i))
      <3>1. i \in 1..n
        BY <1>2, <2>2
      <3>2. AreLines(RunLines(g, i)) /\ after \in i + 1..n + 1
        BY <1>4, <3>1
      <3>3. H[i] = RunLines(g, i) \o H[after]
        BY <1>3, <2>2, Zenon
      <3> HIDE DEF after
      <3>4. AreLines(H[after])
        BY <1>5, <3>2
      <3> QED
        BY <3>2, <3>3, <3>4, BothLines
    <2> QED
      BY <2>1, <2>2
  <1> HIDE DEF T
  <1>6. \A i \in 1..n + 1 : i \in T
    <2>1. n + 1 \in Nat
      BY <1>2
    <2> QED
      BY <1>5, <2>1, FromAbove
  <1>7. 1 \in 1..n + 1
    BY <1>2
  <1> QED
    BY <1>3, <1>6, <1>7 DEF T

LEMMA GroupsOfLines ==
  ASSUME PInv, NEW i \in Nodes, NEW d, NEW h, \A c \in Children(i) : AreLines(h[c][d])
  PROVE  /\ IsASequence(Groups(i, d, h))
         /\ \A k \in 1..Len(Groups(i, d, h)) : AreLines(Groups(i, d, h)[k])
  <1> DEFINE K == {c \in Children(i) : h[c][d] # <<>>}
             g == Groups(i, d, h)
  <1>1. \A c : c \in K <=> c \in Children(i) /\ h[c][d] # <<>>
    OBVIOUS
  <1>2. K \in SUBSET Nat
    BY ChildIsBelow
  <1> HIDE DEF K
  <1>3. PICK e : Enumerates(e, K) /\ Groups(i, d, h) = Rows(e, h, d)
    BY <1>1, GroupsAre
  <1>4. Len(e) \in Nat /\ \A k \in 1..Len(e) : e[k] \in K
    BY <1>2, <1>3, EnumerationIsInjective
  <1>5. g = [k \in 1..Len(e) |-> g[k]] /\ \A k \in 1..Len(e) : g[k] = h[e[k]][d]
    BY <1>3 DEF Rows
  <1> HIDE DEF g
  <1>6. IsASequence(g) /\ Len(g) = Len(e)
    BY <1>4, <1>5, FormedSequence
  <1>7. \A k \in 1..Len(e) : AreLines(g[k])
    BY <1>1, <1>4, <1>5
  <1> QED
    BY <1>6, <1>7 DEF g

LEMMA NodeIsLines ==
  ASSUME PInv, NEW i \in Nodes, NEW h, NEW d \in Nat,
         \A c \in Children(i), b \in Nat : AreLines(h[c][b])
  PROVE  AreLines(RenderNode(i, d, TRUE, h))
  <1> DEFINE kind == parser.tree[i].kind
             g == Groups(i, d, h)
             g1 == Groups(i, d + 1, h)
             x == NodeLine(kind, d, g1 = <<>>)
  <1>1. /\ IsASequence(g) /\ \A k \in 1..Len(g) : AreLines(g[k])
        /\ IsASequence(g1) /\ \A k \in 1..Len(g1) : AreLines(g1[k])
    <2>1. d + 1 \in Nat
      OBVIOUS
    <2>2. \A c \in Children(i) : AreLines(h[c][d]) /\ AreLines(h[c][d + 1])
      BY <2>1
    <2> QED
      BY <2>2, GroupsOfLines
  <1>2. RenderNode(i, d, TRUE, h)
             = IF kind.tag \in WrapperTags THEN FlattenSeq(g)
               ELSE IF IsHidden(kind.attrs) THEN <<>>
               ELSE IF Targetable(kind) THEN <<x>> \o CollapseRuns(g1)
                    ELSE Shifted(CollapseRuns(g1))
    BY DEF RenderNode
  <1>3. AreLines(<<x>>)
    <2>1. kind \in Kinds /\ (g1 = <<>>) \in BOOLEAN
      BY DEF PInv, TreeTypeOK
    <2> HIDE DEF kind, g1
    <2> QED
      BY <2>1, NodeLineIsALine, OneLine
  <1> HIDE DEF g, g1, x, kind
  <1>4. AreLines(FlattenSeq(g)) /\ AreLines(CollapseRuns(g1))
    BY <1>1, FlatLines, CollapsedLines
  <1>5. AreLines(<<x>> \o CollapseRuns(g1)) /\ AreLines(Shifted(CollapseRuns(g1)))
    BY <1>3, <1>4, BothLines, ShiftedLines
  <1> QED
    BY <1>2, <1>4, <1>5, NoneIsASequence, Zenon

LEMMA RenderedLines ==
  ASSUME PInv
  PROVE  \A i \in Nodes, d \in Nat : AreLines(Rendered(TRUE)[i][d])
  <1> DEFINE N == Len(parser.tree)
             h == Rendered(TRUE)
  <1>1. \A i \in Nodes, d \in Nat : h[i][d] = RenderNode(i, d, TRUE, h)
    BY RenderedIs
  <1> HIDE DEF h
  <1> DEFINE T == {i \in Nodes : \A d \in Nat : AreLines(h[i][d])}
  <1>2. N \in Nat /\ Nodes = 1..N
    BY ParentsOrdered DEF Nodes
  <1> HIDE DEF N
  <1>3. ASSUME NEW i \in 1..N, \A c \in i + 1..N : c \in T PROVE i \in T
    <2>1. ASSUME NEW c \in Children(i) PROVE c \in T
      <3>1. c \in Nodes /\ i < c /\ i \in Nat /\ c \in Nat
        BY <1>2, ChildIsBelow
      <3> QED
        BY <1>2, <1>3, <3>1
    <2>2. \A d \in Nat : AreLines(RenderNode(i, d, TRUE, h))
      BY <1>2, <2>1, NodeIsLines
    <2> QED
      BY <1>1, <1>2, <2>2
  <1> HIDE DEF T
  <1>4. \A i \in 1..N : i \in T
    BY <1>2, <1>3, FromAbove
  <1> QED
    BY <1>2, <1>4 DEF T, h

-----------------------------------------------------------------------------
(* Subtrees of one shape have their tokens in the same places.             *)

Blank(w) == IF w.token THEN Token(<<>>) ELSE w

Aligned(s, t) ==
  /\ IsASequence(s) /\ IsASequence(t) /\ Len(s) = Len(t)
  /\ \A k \in 1..Len(s) : Blank(s[k]) = Blank(t[k])

LEMMA BothAligned ==
  ASSUME NEW s, NEW t, Aligned(s, t), NEW x, NEW y, Aligned(x, y)
  PROVE  Aligned(s \o x, t \o y)
  <1> DEFINE V == ({s[k] : k \in 1..Len(s)} \union {x[k] : k \in 1..Len(x)})
                  \union ({t[k] : k \in 1..Len(t)} \union {y[k] : k \in 1..Len(y)})
  <1>1. /\ \A k \in 1..Len(s) : s[k] \in V
        /\ \A k \in 1..Len(x) : x[k] \in V
        /\ \A k \in 1..Len(t) : t[k] \in V
        /\ \A k \in 1..Len(y) : y[k] \in V
    OBVIOUS
  <1> HIDE DEF V
  <1>2. /\ IsASequence(s) /\ IsASequence(t) /\ IsASequence(x) /\ IsASequence(y)
        /\ Len(s) = Len(t) /\ Len(x) = Len(y)
    BY DEF Aligned
  <1>3. s \in Seq(V) /\ x \in Seq(V) /\ t \in Seq(V) /\ y \in Seq(V)
    BY <1>1, <1>2, SequenceIsFormed
  <1>4. /\ IsASequence(s \o x) /\ Len(s \o x) = Len(s) + Len(x)
        /\ IsASequence(t \o y) /\ Len(t \o y) = Len(t) + Len(y)
        /\ Len(s) \in Nat /\ Len(x) \in Nat
    BY <1>2, BothLong, SequenceIsFormed
  <1>5. ASSUME NEW k \in 1..Len(s) + Len(x)
        PROVE  Blank((s \o x)[k]) = Blank((t \o y)[k])
    <2>1. /\ (s \o x)[k] = IF k <= Len(s) THEN s[k] ELSE x[k - Len(s)]
          /\ (t \o y)[k] = IF k <= Len(s) THEN t[k] ELSE y[k - Len(s)]
      BY <1>2, <1>3, ConcatProperties
    <2>2. CASE k <= Len(s)
      <3>1. k \in 1..Len(s)
        BY <1>4, <2>2
      <3> QED
        BY <2>1, <2>2, <3>1 DEF Aligned
    <2>3. CASE ~(k <= Len(s))
      <3>1. k - Len(s) \in 1..Len(x)
        BY <1>4, <2>3
      <3> QED
        BY <2>1, <2>3, <3>1 DEF Aligned
    <2> QED
      BY <2>2, <2>3
  <1> QED
    BY <1>2, <1>4, <1>5 DEF Aligned

LEMMA FlatAligned ==
  ASSUME NEW g, NEW h, IsASequence(g), IsASequence(h), Len(g) = Len(h),
         \A k \in 1..Len(g) : Aligned(g[k], h[k])
  PROVE  Aligned(FlattenSeq(g), FlattenSeq(h))
  <1> DEFINE n == Len(g)
  <1>1. n \in Nat
    BY SequenceIsFormed
  <1>2. PICK V : g \in Seq(Seq(V))
    BY SequencesTogether DEF Aligned
  <1>3. PICK W : h \in Seq(Seq(W))
    BY SequencesTogether DEF Aligned
  <1>4. PICK a \in [0..n -> Seq(V)] : /\ a[0] = <<>> /\ FlattenSeq(g) = a[n]
                                      /\ \A k \in 1..n : a[k] = a[k - 1] \o g[k]
    BY <1>2, FlattenIs
  <1>5. PICK b \in [0..n -> Seq(W)] : /\ b[0] = <<>> /\ FlattenSeq(h) = b[n]
                                      /\ \A k \in 1..n : b[k] = b[k - 1] \o h[k]
    BY <1>3, FlattenIs
  <1> DEFINE T == {k \in 0..n : Aligned(a[k], b[k])}
  <1>6. 0 \in T
    <2>1. 0 \in 0..n
      BY <1>1
    <2>2. Aligned(<<>>, <<>>)
      <3>1. 1..0 = {}
        OBVIOUS
      <3> QED
        BY <3>1, NoneIsASequence DEF Aligned
    <2> QED
      BY <1>4, <1>5, <2>1, <2>2
  <1> HIDE DEF n
  <1>7. ASSUME NEW k \in 1..n, k - 1 \in T PROVE k \in T
    <2>1. k \in 0..n
      BY <1>1
    <2>4. a[k] = a[k - 1] \o g[k]
      BY <1>4
    <2>5. b[k] = b[k - 1] \o h[k]
      BY <1>5
    <2>2. Aligned(a[k - 1], b[k - 1]) /\ Aligned(g[k], h[k])
      BY <1>7 DEF n
    <2>3. Aligned(a[k - 1] \o g[k], b[k - 1] \o h[k])
      BY <2>2, BothAligned
    <2> QED
      BY <2>1, <2>3, <2>4, <2>5
  <1> HIDE DEF T
  <1>8. n \in T
    <2>1. n \in 0..n
      BY <1>1
    <2> QED
      BY <1>1, <1>6, <1>7, <2>1, Induction
  <1> QED
    BY <1>4, <1>5, <1>8 DEF T

LEMMA SameShape ==
  ASSUME NEW s, NEW t, AreLines(s), AreLines(t), ShapeOf(s) = ShapeOf(t)
  PROVE  /\ Len(s) = Len(t)
         /\ \A k \in 1..Len(s) : s[k].depth = t[k].depth /\ Len(s[k].words) = Len(t[k].words)
         /\ Aligned(AllWords(s), AllWords(t))
  <1>1. ASSUME NEW x, AreLines(x)
        PROVE  /\ Len(x) \in Nat /\ DOMAIN x = 1..Len(x) /\ DOMAIN ShapeOf(x) = 1..Len(x)
               /\ \A k \in 1..Len(x) :
                    /\ ShapeOf(x)[k][1] = x[k].depth
                    /\ ShapeOf(x)[k][2] = [j \in 1..Len(x[k].words) |-> Blank(x[k].words[j])]
                    /\ IsASequence(x[k].words) /\ Len(x[k].words) \in Nat
    <2>1. Len(x) \in Nat /\ DOMAIN x = 1..Len(x)
      BY <1>1, SequenceIsFormed DEF AreLines
    <2>2. ASSUME NEW k \in 1..Len(x)
          PROVE  /\ IsASequence(x[k].words) /\ Len(x[k].words) \in Nat
                 /\ DOMAIN x[k].words = 1..Len(x[k].words)
      BY <1>1, SequenceIsFormed DEF AreLines, IsALine
    <2>3. ShapeOf(x) = [k \in 1..Len(x) |->
                          <<x[k].depth, [j \in DOMAIN x[k].words |-> Blank(x[k].words[j])]>>]
      BY <2>1 DEF ShapeOf, Blank
    <2>4. ASSUME NEW k \in 1..Len(x)
          PROVE  /\ ShapeOf(x)[k][1] = x[k].depth
                 /\ ShapeOf(x)[k][2] = [j \in DOMAIN x[k].words |-> Blank(x[k].words[j])]
      BY <2>3
    <2> QED
      BY <2>1, <2>2, <2>3, <2>4
  <1>2. Len(s) = Len(t)
    <2>1. Len(s) \in Nat /\ Len(t) \in Nat /\ 1..Len(s) = 1..Len(t)
      BY <1>1
    <2> QED
      BY <2>1
  <1>3. ASSUME NEW k \in 1..Len(s)
        PROVE  s[k].depth = t[k].depth /\ Aligned(s[k].words, t[k].words)
    <2> DEFINE a == s[k].words
               b == t[k].words
    <2>4. k \in 1..Len(t)
      BY <1>2
    <2>5. /\ ShapeOf(s)[k][1] = s[k].depth
          /\ ShapeOf(s)[k][2] = [j \in 1..Len(a) |-> Blank(a[j])]
          /\ IsASequence(a) /\ Len(a) \in Nat
      BY <1>1
    <2>6. /\ ShapeOf(t)[k][1] = t[k].depth
          /\ ShapeOf(t)[k][2] = [j \in 1..Len(b) |-> Blank(b[j])]
          /\ IsASequence(b) /\ Len(b) \in Nat
      BY <1>1, <2>4
    <2>7. ShapeOf(s)[k][1] = ShapeOf(t)[k][1] /\ ShapeOf(s)[k][2] = ShapeOf(t)[k][2]
      OBVIOUS
    <2> HIDE DEF a, b
    <2>1. /\ IsASequence(a) /\ Len(a) \in Nat /\ IsASequence(b) /\ Len(b) \in Nat
          /\ s[k].depth = t[k].depth
          /\ [j \in 1..Len(a) |-> Blank(a[j])] = [j \in 1..Len(b) |-> Blank(b[j])]
      BY <2>5, <2>6, <2>7, Zenon
    <2>2. 1..Len(a) = 1..Len(b) /\ \A j \in 1..Len(a) : Blank(a[j]) = Blank(b[j])
      <3> DEFINE f == [j \in 1..Len(a) |-> Blank(a[j])]
                 h == [j \in 1..Len(b) |-> Blank(b[j])]
      <3>1. f = h
        BY <2>1
      <3>2. DOMAIN f = 1..Len(a) /\ DOMAIN h = 1..Len(b)
        OBVIOUS
      <3>3. (\A j \in 1..Len(a) : f[j] = Blank(a[j])) /\ (\A j \in 1..Len(b) : h[j] = Blank(b[j]))
        OBVIOUS
      <3> HIDE DEF f, h
      <3> QED
        BY <3>1, <3>2, <3>3
    <2>3. Len(a) = Len(b)
      BY <2>1, <2>2
    <2> QED
      BY <2>1, <2>2, <2>3 DEF Aligned, a, b
  <1>4. Aligned(AllWords(s), AllWords(t))
    <2> DEFINE g == [i \in DOMAIN s |-> s[i].words]
               h == [i \in DOMAIN t |-> t[i].words]
    <2>1. AllWords(s) = FlattenSeq(g) /\ AllWords(t) = FlattenSeq(h)
      BY DEF AllWords
    <2>2. /\ g = [i \in 1..Len(s) |-> g[i]] /\ h = [i \in 1..Len(s) |-> h[i]] /\ Len(s) \in Nat
          /\ \A i \in 1..Len(s) : g[i] = s[i].words /\ h[i] = t[i].words
      BY <1>1, <1>2
    <2> HIDE DEF g, h
    <2>3. IsASequence(g) /\ Len(g) = Len(s) /\ IsASequence(h) /\ Len(h) = Len(s)
      BY <2>2, FormedSequence
    <2> QED
      BY <1>3, <2>1, <2>2, <2>3, FlatAligned
  <1> QED
    BY <1>2, <1>3, <1>4 DEF Aligned

\* From the words of the example and what differs, the words are put together again.
LEMMA FilledIn ==
  ASSUME NEW s, NEW t, Aligned(s, t), NEW row,
         LET base == At(s, Tokens(s))
             own == At(t, Tokens(t)) IN
         row = [k \in DOMAIN own |-> IF own[k] = base[k] THEN Same ELSE own[k]]
  PROVE  Filled(s, row) = t
  <1> DEFINE K == Tokens(s)
             n == Len(s)
             base == At(s, K)
             own == At(t, K)
  <1>1. /\ n \in Nat /\ DOMAIN s = 1..n /\ DOMAIN t = 1..n /\ t = [i \in 1..n |-> t[i]]
        /\ \A i \in 1..n : Blank(s[i]) = Blank(t[i])
    BY SequenceIsFormed DEF Aligned
  <1>2. ASSUME NEW i \in 1..n
        PROVE  (s[i].token <=> t[i].token) /\ (~s[i].token => s[i] = t[i])
    <2>1. (IF s[i].token THEN Token(<<>>) ELSE s[i]) = (IF t[i].token THEN Token(<<>>) ELSE t[i])
      BY <1>1 DEF Blank
    <2>2. Token(<<>>).token
      BY DEF Token
    <2> QED
      BY <2>1, <2>2, Zenon
  <1>3. /\ Tokens(t) = K /\ K \in SUBSET (1..n)
        /\ \A i \in 1..n : i \in K <=> t[i].token
        /\ \A i \in 1..n : i \notin K => s[i] = t[i]
    BY <1>1, <1>2 DEF Tokens
  <1>4. row = [k \in DOMAIN own |-> IF own[k] = base[k] THEN Same ELSE own[k]]
    BY <1>3
  <1>5. ASSUME NEW i \in 1..n PROVE t[i].token => t[i] # Same
    <2>1. ~Same.token
      BY DEF Same, Word
    <2> QED
      BY <2>1
  <1> HIDE DEF K
  <1>6. PICK e : Enumerates(e, K)
    BY <1>1, <1>3, EnumerationExists
  <1>7. K \in SUBSET Nat
    BY <1>3
  <1>8. /\ base = [k \in 1..Len(e) |-> s[e[k]]]
        /\ own = [k \in 1..Len(e) |-> t[e[k]]]
    BY <1>6, <1>7, AtIs
  <1>9. DOMAIN own = 1..Len(e)
        /\ \A k \in 1..Len(e) : base[k] = s[e[k]] /\ own[k] = t[e[k]]
    BY <1>8
  <1> HIDE DEF base, own
  <1>10. \A k \in 1..Len(e) : row[k] = IF t[e[k]] = s[e[k]] THEN Same ELSE t[e[k]]
    BY <1>4, <1>9
  <1> DEFINE Is(i) == row[Cardinality({j \in K : j <= i})]
  <1>11. ASSUME NEW i \in 1..n
         PROVE  (IF i \in K /\ Is(i) # Same THEN Is(i) ELSE s[i]) = t[i]
    <2>1. CASE i \in K
      <3>1. PICK k \in 1..Len(e) : e[k] = i
        BY <1>6, <2>1 DEF Enumerates
      <3>2. Cardinality({j \in K : j <= e[k]}) = k
        BY <1>6, <1>7, PlaceIs
      <3>3. Is(i) = row[k]
        BY <3>1, <3>2
      <3>4. Is(i) = IF t[i] = s[i] THEN Same ELSE t[i]
        BY <1>10, <3>1, <3>3, Zenon
      <3>5. t[i] # Same
        BY <1>3, <1>5, <2>1
      <3> HIDE DEF Is
      <3> QED
        BY <2>1, <3>4, <3>5, Zenon
    <2>2. CASE i \notin K
      BY <1>3, <2>2
    <2> QED
      BY <2>1, <2>2
  <1>12. Filled(s, row) = [i \in 1..n |-> IF i \in K /\ Is(i) # Same THEN Is(i) ELSE s[i]]
    BY <1>1 DEF Filled, K
  <1> HIDE DEF Is
  <1> QED
    BY <1>1, <1>11, <1>12

LEMMA RowLinesUp ==
  ASSUME NEW s, NEW t, AreLines(s), AreLines(t), ShapeOf(t) = ShapeOf(s)
  PROVE  /\ [k \in DOMAIN t |-> <<t[k].depth, Len(t[k].words)>>]
              = [k \in DOMAIN s |-> <<s[k].depth, Len(s[k].words)>>]
         /\ AllWords(t) = Filled(AllWords(s), Detail(s, t))
  <1>1. /\ Len(s) = Len(t) /\ DOMAIN s = 1..Len(s) /\ DOMAIN t = 1..Len(s)
        /\ \A k \in 1..Len(s) : s[k].depth = t[k].depth /\ Len(s[k].words) = Len(t[k].words)
        /\ Aligned(AllWords(s), AllWords(t))
    <2>1. /\ Len(s) = Len(t)
          /\ \A k \in 1..Len(s) : s[k].depth = t[k].depth /\ Len(s[k].words) = Len(t[k].words)
          /\ Aligned(AllWords(s), AllWords(t))
      BY SameShape
    <2>2. DOMAIN s = 1..Len(s) /\ DOMAIN t = 1..Len(t)
      BY SequenceIsFormed DEF AreLines
    <2> QED
      BY <2>1, <2>2
  <1>2. [k \in 1..Len(s) |-> <<t[k].depth, Len(t[k].words)>>]
          = [k \in 1..Len(s) |-> <<s[k].depth, Len(s[k].words)>>]
    BY <1>1
  <1> DEFINE row == Detail(s, t)
             x == AllWords(s)
             y == AllWords(t)
  <1>3. row = [i \in DOMAIN At(y, Tokens(y)) |->
                 IF At(y, Tokens(y))[i] = At(x, Tokens(x))[i] THEN Same ELSE At(y, Tokens(y))[i]]
    BY DEF Detail, TokensOf
  <1>4. Aligned(x, y)
    BY <1>1
  <1> HIDE DEF row, x, y
  <1>5. Filled(x, row) = y
    BY <1>3, <1>4, FilledIn
  <1> QED
    BY <1>1, <1>2, <1>5 DEF row, x, y

LEMMA RowsLinedUp ==
  ASSUME PInv
  PROVE  RowsLineUp
  <1> DEFINE r == Rendered(TRUE)
  <1> SUFFICES ASSUME NEW i \in Nodes,
                      NEW k \in DOMAIN Groups(i, 1, r),
                      NEW n \in k + 1..RunEnd(Groups(i, 1, r), k)
               PROVE  LET s == Groups(i, 1, r)[k]
                          t == Groups(i, 1, r)[n] IN
                      /\ [j \in DOMAIN t |-> <<t[j].depth, Len(t[j].words)>>]
                           = [j \in DOMAIN s |-> <<s[j].depth, Len(s[j].words)>>]
                      /\ AllWords(t) = Filled(AllWords(s), Detail(s, t))
    BY DEF RowsLineUp
  <1> DEFINE g == Groups(i, 1, r)
  <1>1. \A c \in Children(i) : AreLines(r[c][1])
    BY RenderedLines, ChildIsBelow DEF Children
  <1> HIDE DEF r
  <1>2. IsASequence(g) /\ \A j \in 1..Len(g) : AreLines(g[j])
    BY <1>1, GroupsOfLines
  <1>3. PICK V : g \in Seq(Seq(V))
    BY <1>2, LinesTogether
  <1>4. k \in 1..Len(g) /\ n \in k + 1..RunEnd(g, k)
    BY <1>2, SequenceIsFormed
  <1> HIDE DEF g
  <1>5. /\ RunEnd(g, k) \in k..Len(g)
        /\ \A j \in k..RunEnd(g, k) : ShapeOf(g[j]) = ShapeOf(g[k])
    BY <1>3, <1>4, RunIsThere
  <1>6. n \in k..RunEnd(g, k) /\ n \in 1..Len(g)
    <2> DEFINE m == RunEnd(g, k)
    <2>1. m \in k..Len(g) /\ k \in 1..Len(g) /\ n \in k + 1..m /\ Len(g) \in Nat
      BY <1>2, <1>4, <1>5, SequenceIsFormed
    <2> HIDE DEF m
    <2>2. n \in k..m /\ n \in 1..Len(g)
      BY <2>1
    <2> QED
      BY <2>2 DEF m
  <1>7. AreLines(g[k]) /\ AreLines(g[n]) /\ ShapeOf(g[n]) = ShapeOf(g[k])
    BY <1>2, <1>4, <1>5, <1>6
  <1> QED
    BY <1>7, RowLinesUp DEF g

(***************************************************************************)
(* However many lists a page has, and however deep they nest: a row of a   *)
(* summary stands for its sibling, value by value in the right place.      *)
(***************************************************************************)
THEOREM RowsAlwaysLineUp == TreeSpec => []RowsLineUp
  BY TreeInvariance, RowsLinedUp, PTL
=============================================================================
