----------------------------- MODULE PageSource -----------------------------
(***************************************************************************)
(* parseXml(): the page source of an app, XML of which only some tags may  *)
(* be closed, is parsed into a tree.  The document is written one element  *)
(* at a time, and parsed as it is written: a state is a document that ends *)
(* anywhere.                                                               *)
(***************************************************************************)
EXTENDS Integers, Sequences, SequencesExt

CONSTANTS Kinds,       \* the elements that occur: tag and attributes
          MaxElements  \* bound: elements written one by one

VARIABLES
  parser,  \* parseXml(): the nodes in document order, the stack, the root
  written  \* what the document means: parents and open elements

pageVars == <<parser, written>>

Nodes == 1..Len(parser.tree)

\* Every element on the stack is inside the one below it.
TreeTypeOK ==
  /\ \A i \in Nodes : parser.tree[i].kind \in Kinds /\ parser.tree[i].parent \in 0..i - 1
  /\ parser.root \in {0, 1}
  /\ \A d \in DOMAIN parser.stack :
       /\ parser.stack[d] \in Nodes
       /\ parser.tree[parser.stack[d]].parent = IF d = 1 THEN 0 ELSE parser.stack[d - 1]

PageInit ==
  /\ parser = [tree |-> <<>>, stack |-> <<>>, root |-> 0]
  /\ written = [parents |-> <<>>, open |-> <<>>]

-----------------------------------------------------------------------------
(* parseXml(), one piece of markup at a time.  Comments, CDATA and         *)
(* declarations are skipped as a whole and are left out.                   *)

Top(stack) == IF stack = <<>> THEN 0 ELSE Last(stack)
Tag(p, i) == p.tree[i].kind.tag

Opened_PushedFirst(p, kind) ==
  LET i == Len(p.tree) + 1 IN
  [tree |-> Append(p.tree, [kind |-> kind, parent |-> i]),
   stack |-> Append(p.stack, i),
   root |-> IF p.root = 0 THEN i ELSE p.root]

Opened(p, kind) ==
  LET i == Len(p.tree) + 1 IN
  [tree |-> Append(p.tree, [kind |-> kind, parent |-> Top(p.stack)]),
   stack |-> Append(p.stack, i),
   root |-> IF p.stack = <<>> /\ p.root = 0 THEN i ELSE p.root]

Closed_Pops(p, tag) == [p EXCEPT !.stack = IF @ = <<>> THEN @ ELSE Front(@)]
\* Unwinds to the innermost element that has this tag, if one has.
Closed(p, tag) ==
  LET fit == {d \in DOMAIN p.stack : Tag(p, p.stack[d]) = tag} IN
  IF fit = {} THEN p ELSE [p EXCEPT !.stack = SubSeq(@, 1, Max(fit) - 1)]

\* `empty' is a self-closing tag, which is never pushed.
Parsed(p, piece) ==
  CASE piece.is = "open"  -> Opened(p, piece.kind)
    [] piece.is = "empty" -> [Opened(p, piece.kind) EXCEPT !.stack = p.stack]
    [] piece.is = "close" -> Closed(p, piece.kind.tag)

Piece(is, kind) == [is |-> is, kind |-> kind]
Reads(piece) == parser' = Parsed(parser, piece)

-----------------------------------------------------------------------------
(* Documents: one root, in which some elements are never closed and some   *)
(* closing tags close nothing.                                             *)

MayWrite == written.open = <<>> => written.parents = <<>>
NewNode == Len(written.parents) + 1

WritesStart(kind) ==
  /\ MayWrite
  /\ Reads(Piece("open", kind))
  /\ written' = [written EXCEPT !.parents = Append(@, Top(written.open)),
                                !.open = Append(@, NewNode)]

WritesEmpty(kind) ==
  /\ MayWrite
  /\ Reads(Piece("empty", kind))
  /\ written' = [written EXCEPT !.parents = Append(@, Top(written.open))]

\* The end tags of the elements inside are missing, unless one could be
\* mistaken for theirs.
WritesEnd(d) ==
  LET kind(e) == parser.tree[written.open[e]].kind IN
  /\ \A e \in d + 1..Len(written.open) : kind(e).tag # kind(d).tag
  /\ Reads(Piece("close", kind(d)))
  /\ written' = [written EXCEPT !.open = SubSeq(@, 1, d - 1)]

WritesStrayEnd(kind) ==
  /\ \A d \in DOMAIN written.open : parser.tree[written.open[d]].kind.tag # kind.tag
  /\ Reads(Piece("close", kind))
  /\ UNCHANGED written

PageNext ==
  \/ \E kind \in Kinds : /\ Len(parser.tree) < MaxElements
                         /\ WritesStart(kind) \/ WritesEmpty(kind)
  \/ \E kind \in Kinds : WritesStrayEnd(kind)
  \/ \E d \in DOMAIN written.open : WritesEnd(d)

-----------------------------------------------------------------------------
(* Properties.                                                             *)

(***************************************************************************)
(* "One stray `</b>'" reparents nothing: the tree is the one the document  *)
(* means, also where end tags are missing or close nothing.                *)
(***************************************************************************)
ParsesWhatIsMeant ==
  /\ parser.stack = written.open
  /\ Len(parser.tree) = Len(written.parents)
  /\ \A i \in Nodes : parser.tree[i].parent = written.parents[i]
=============================================================================
