------------------------ MODULE MCAccessibilityTree ------------------------
(***************************************************************************)
(* TLC's instance of AccessibilityTree: a wrapper, a layout container, a   *)
(* hidden node, one that may be tapped, and two that share their role and  *)
(* differ in their name and place, one of which ends the rows of a list.   *)
(***************************************************************************)
EXTENDS TreeReader

Cell == <<"XCUIElementType", "Cell">>
View == <<"android", "View">>
MCVariants == {
  [tag |-> Cell, attrs |-> [name |-> "b", text |-> "a", x |-> 2, y |-> 3,
                            width |-> 4, height |-> 6]]}
MCKinds == MCVariants \union {
  [tag |-> Cell, attrs |-> [name |-> "a", label |-> "a", x |-> 2, y |-> 3,
                            width |-> 4, height |-> 5]],
  [tag |-> <<"hierarchy">>, attrs |-> [displayed |-> "false"]],
  [tag |-> View, attrs |-> [text |-> "", bounds |-> <<0, 0, 9, 9>>]],
  [tag |-> View, attrs |-> [text |-> "c", visible |-> "false"]],
  [tag |-> View, attrs |-> [clickable |-> "true", bounds |-> <<1, 1, 4, 8>>]]}
=============================================================================
