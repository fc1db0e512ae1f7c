---------------------------- MODULE MCSameShape ----------------------------
(***************************************************************************)
(* A list of two rows: in the first, a disabled button and three layouts   *)
(* of two of them; in the second, three layouts of three of them.  The     *)
(* lines of buttons have no token, and a layout has no line.               *)
(***************************************************************************)
EXTENDS AccessibilityTree

List == [tag |-> <<"android", "List">>, attrs |-> [name |-> "list"]]
Row == [tag |-> <<"android", "Row">>, attrs |-> [name |-> "row"]]
Layout == [tag |-> <<"android", "Layout">>, attrs |-> [text |-> ""]]
Button == [tag |-> <<"android", "Button">>, attrs |-> [enabled |-> "false"]]
MCKinds == {List, Row, Layout, Button}

\* The document: at which depth an element is, and what it is.
ButtonAt(depth) == <<depth, Button>>
LayoutOf(n) == <<<<3, Layout>>>> \o [i \in 1..n |-> ButtonAt(4)]
RowOf(before, n) ==
  <<<<2, Row>>>> \o [i \in 1..before |-> ButtonAt(3)]
                 \o LayoutOf(n) \o LayoutOf(n) \o LayoutOf(n)
Document == <<<<1, List>>>> \o RowOf(1, 2) \o RowOf(0, 3)

WritesTheDocument ==
  \A i \in Nodes : <<Cardinality(Above(i)) + 1, parser.tree[i].kind>> = Document[i]
MCMaxElements == Len(Document)

ListSpec == TreeInit /\ [][TreeNext /\ WritesTheDocument']_treeVars
=============================================================================
