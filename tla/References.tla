----------------------------- MODULE References -----------------------------
(***************************************************************************)
(* References to elements of a list that shifts.  A find that sees several *)
(* matches records the text of the element next to its position; a request *)
(* that names the reference trusts the position only while the element     *)
(* there has that text, and otherwise looks for the one match that has it. *)
(* The screen may change at every await.                                   *)
(***************************************************************************)
EXTENDS Naturals, Sequences, FiniteSets

CONSTANTS Elements,  \* what a selector may match
          Texts, TextOf,
          NoText,    \* unreadable, or not read: `undefined'
          NoElement, NoRef,
          Screens,   \* the lists of matches that occur
          Refs,      \* bound: the references that can be stored
          Users      \* activations of the find handler and of the actions

ASSUME TextsAreTexts == TextOf \in [Elements -> Texts] /\ NoText \notin Texts

\* A list shows each element at most once.
ASSUME ScreensAreLists ==
  \A s \in Screens : s \in Seq(Elements) /\ \A i, j \in DOMAIN s : s[i] = s[j] => i = j

ASSUME NoRefIsNone == NoRef \notin Refs

VARIABLES
  screen,  \* the elements the selector matches at present, in order
  refs,    \* the registry
  use      \* what each handler is doing

refVars == <<screen, refs, use>>

\* `found' is the element the reference was made for; the code does not have it.
Reference(index, mark, found) == [index |-> index, mark |-> mark, found |-> found]
References == [index : Nat, mark : Texts \union {NoText}, found : Elements]

ASSUME NoRefIsNoReference == NoRef \notin References

\* `elem' is the element in hand, `list' the matches fetched, `index' where the
\* reference pointed then, `next' the index being read, `moved' those that have
\* the text; `calm': so far the screen and the reference have stayed the same
\* since the list was fetched, and every text could be read.
Use(at, ref, index, elem, list) ==
  [at |-> at, ref |-> ref, index |-> index, elem |-> elem, list |-> list,
   next |-> 0, moved |-> {}, calm |-> TRUE]
Free == Use("free", NoRef, 0, NoElement, <<>>)

Finding == {"counting", "marking", "listing", "markingAll"}
Resolving == {"checking", "scanning", "acting", "stale"}

RefInit ==
  /\ screen \in Screens
  /\ refs = [r \in Refs |-> NoRef]
  /\ use = [h \in Users |-> Free]

At(list, index) == list[index + 1]
Has(list, index) == index < Len(list)

MoreToRead_OneTooMany(list, next) == next <= Len(list)
MoreToRead(list, next) == Has(list, next)

\* What is read next is in the list.
RefTypeOK ==
  /\ screen \in Screens
  /\ refs \in [Refs -> References \union {NoRef}]
  /\ use \in [Users -> [at : Finding \union Resolving \union {"free"},
                        ref : Refs \union {NoRef}, index : Nat,
                        elem : Elements \union {NoElement}, list : Seq(Elements),
                        next : Nat, moved : SUBSET Nat, calm : BOOLEAN]]
  /\ \A h \in Users : /\ use[h].at \in {"scanning", "markingAll"} => Has(use[h].list, use[h].next)
                      /\ use[h].at \in Resolving => use[h].ref \in Refs

\* fingerprintOf(): the text of an element still shown, if it can be read.
Shown(e) == \E i \in DOMAIN screen : screen[i] = e
Reads(e, text) == text = NoText \/ (Shown(e) /\ text = TextOf[e])

Becomes(h, u) == use' = [use EXCEPT ![h] = u]

-----------------------------------------------------------------------------
(* POST /elements/find.                                                    *)

Store(index, mark, found) ==
  IF \A r \in Refs : refs[r] # NoRef THEN UNCHANGED refs
  ELSE \E r \in Refs : /\ refs[r] = NoRef
                       /\ refs' = [refs EXCEPT ![r] = Reference(index, mark, found)]

\* findElement(); one that is not there ends the request.
FindLocates(h) ==
  /\ use[h] = Free
  /\ \E i \in 0..2 : /\ Has(screen, i)
                     /\ \/ Becomes(h, Use("counting", NoRef, i, At(screen, i), <<>>))
                        \/ Becomes(h, Use("listing", NoRef, i, At(screen, i), <<>>))
  /\ UNCHANGED <<screen, refs>>

\* countMatches() is 0 when it fails.
FindSeesSeveral(h) ==
  /\ use[h].at = "counting"
  /\ Len(screen) > 1
  /\ Becomes(h, [use[h] EXCEPT !.at = "marking"])
  /\ UNCHANGED <<screen, refs>>

FindSeesOne(h) ==
  /\ use[h].at = "counting"
  /\ Store(use[h].index, NoText, use[h].elem)
  /\ Becomes(h, Free)
  /\ UNCHANGED screen

\* The mark is the text of the element found, wherever that is by now.
Marked_AtIndex(h) == IF Has(screen, use[h].index) THEN At(screen, use[h].index)
                     ELSE use[h].elem
Marked(h) == use[h].elem

FindMarks(h) ==
  /\ use[h].at = "marking"
  /\ \E t \in Texts \union {NoText} : /\ Reads(Marked(h), t)
                                      /\ Store(use[h].index, t, use[h].elem)
  /\ Becomes(h, Free)
  /\ UNCHANGED screen

\* With `all'; findAll() is empty when it fails.
FindLists(h) ==
  /\ use[h].at = "listing"
  /\ \/ /\ Len(screen) > 1
        /\ Becomes(h, Use("markingAll", NoRef, 0, NoElement, screen))
        /\ UNCHANGED refs
     \/ /\ Len(screen) = 1
        /\ Becomes(h, Free)
        /\ Store(0, NoText, At(screen, 0))
     \/ /\ Becomes(h, Free)
        /\ UNCHANGED refs
  /\ UNCHANGED screen

FindMarksNext(h) ==
  LET u == use[h]
      e == At(u.list, u.next) IN
  /\ u.at = "markingAll"
  /\ \E t \in Texts \union {NoText} : Reads(e, t) /\ Store(u.next, t, e)
  /\ Becomes(h, IF MoreToRead(u.list, u.next + 1) THEN [u EXCEPT !.next = @ + 1] ELSE Free)
  /\ UNCHANGED screen

-----------------------------------------------------------------------------
(* retrieveElement() and rehydratePositional().                            *)

\* A reference without a mark is what its position holds.
ResolvesUnmarked(h, r) ==
  /\ use[h] = Free
  /\ refs[r] # NoRef /\ refs[r].mark = NoText
  /\ Has(screen, refs[r].index)
  /\ Becomes(h, Use("acting", r, refs[r].index, At(screen, refs[r].index), screen))
  /\ UNCHANGED <<screen, refs>>

\* The index the scan comes to at i or after; the current one is left out.
ScanFrom(i, skip) == IF i = skip THEN i + 1 ELSE i

Unambiguous_Any(moved) == moved # {}
Unambiguous(moved) == \E i \in moved : moved = {i}

\* Goes on with the scan at i, or ends it: the one that moved is followed.
Proceeds(h, u, i, moved) ==
  LET next == ScanFrom(i, refs[u.ref].index) IN
  \/ /\ MoreToRead(u.list, next)
     /\ Becomes(h, [u EXCEPT !.at = "scanning", !.next = next, !.moved = moved])
     /\ UNCHANGED refs
  \/ /\ ~MoreToRead(u.list, next) /\ ~Unambiguous(moved)
     /\ Becomes(h, [u EXCEPT !.at = "stale", !.next = 0, !.moved = moved])
     /\ UNCHANGED refs
  \/ /\ ~MoreToRead(u.list, next) /\ Unambiguous(moved)
     /\ \E i1 \in moved :
          /\ refs' = [refs EXCEPT ![u.ref].index = i1]
          /\ use' = [g \in Users |->
                       IF g = h THEN [u EXCEPT !.at = "acting", !.elem = At(u.list, i1),
                                               !.next = 0, !.moved = moved]
                       ELSE IF use[g].ref = u.ref /\ use[g].at \in {"checking", "scanning"}
                       THEN [use[g] EXCEPT !.calm = FALSE]
                       ELSE use[g]]

Fetches(h, r) ==
  LET u == Use("checking", r, refs[r].index, NoElement, screen) IN
  /\ use[h] = Free
  /\ refs[r] # NoRef /\ refs[r].mark # NoText
  /\ \/ /\ Has(screen, refs[r].index)
        /\ Becomes(h, [u EXCEPT !.elem = At(screen, refs[r].index)])
        /\ UNCHANGED refs
     \/ /\ ~Has(screen, refs[r].index)
        /\ Proceeds(h, u, 0, {})
  /\ UNCHANGED screen

\* What became known of an element's text.
Learns(u, e, t) == [u EXCEPT !.calm = @ /\ t = TextOf[e]]

Checks(h) ==
  LET u == use[h] IN
  /\ u.at = "checking"
  /\ \E t \in Texts \union {NoText} :
       /\ Reads(u.elem, t)
       /\ \/ /\ t = refs[u.ref].mark
             /\ Becomes(h, [u EXCEPT !.at = "acting"])
             /\ UNCHANGED refs
          \/ /\ t # refs[u.ref].mark
             /\ Proceeds(h, Learns(u, u.elem, t), 0, {})
  /\ UNCHANGED screen

Scans(h) ==
  LET u == use[h]
      e == At(u.list, u.next) IN
  /\ u.at = "scanning"
  /\ \E t \in Texts \union {NoText} :
       /\ Reads(e, t)
       /\ Proceeds(h, Learns(u, e, t), u.next + 1,
                   IF t = refs[u.ref].mark THEN u.moved \union {u.next} ELSE u.moved)
  /\ UNCHANGED screen

\* The request is sent to the element in hand, or STALE_ELEMENT reported.
Acts(h) ==
  /\ use[h].at \in {"acting", "stale"}
  /\ Becomes(h, Free)
  /\ UNCHANGED <<screen, refs>>

-----------------------------------------------------------------------------
\* The list scrolls, grows or shrinks.
ScreenChanges ==
  /\ screen' \in Screens
  /\ use' = [h \in Users |-> IF use[h].at \in {"checking", "scanning"}
                             THEN [use[h] EXCEPT !.calm = FALSE] ELSE use[h]]
  /\ UNCHANGED refs

UserStep(h) ==
  \/ FindLocates(h) \/ FindSeesSeveral(h) \/ FindSeesOne(h) \/ FindMarks(h)
  \/ FindLists(h) \/ FindMarksNext(h)
  \/ \E r \in Refs : ResolvesUnmarked(h, r) \/ Fetches(h, r)
  \/ Checks(h) \/ Scans(h) \/ Acts(h)

RefNext == ScreenChanges \/ \E h \in Users : UserStep(h)

RefSpec == RefInit /\ [][RefNext]_refVars

-----------------------------------------------------------------------------
(* Properties.                                                             *)

(***************************************************************************)
(* "Rather than act on whatever now sits at the old index": a request that *)
(* goes through a marked reference is sent to an element with the text of  *)
(* the one the reference was made for, however the list shifted since, and *)
(* whoever else follows the same reference meanwhile.                      *)
(***************************************************************************)
ActsOnTheSameText ==
  \A h \in Users : use[h].at = "acting" /\ refs[use[h].ref].mark # NoText =>
                     TextOf[use[h].elem] = TextOf[refs[use[h].ref].found]

(***************************************************************************)
(* "Follows it to its new position when exactly one match does, and        *)
(* otherwise returns STALE_ELEMENT": reading the texts one by one decides  *)
(* as if they had been seen at once, unless something changed meanwhile.   *)
(***************************************************************************)
With(list, mark) == {i \in 0..Len(list) - 1 : TextOf[At(list, i)] = mark}

FollowsOrRefuses ==
  \A h \in Users :
    LET u == use[h]
        fit == With(u.list, refs[u.ref].mark) IN
    u.at \in {"acting", "stale"} /\ refs[u.ref].mark # NoText /\ u.calm =>
      IF u.index \in fit THEN u.at = "acting" /\ u.elem = At(u.list, u.index)
      ELSE IF Cardinality(fit) = 1
      THEN u.at = "acting" /\ \E i \in fit : u.elem = At(u.list, i)
      ELSE u.at = "stale"
=============================================================================
