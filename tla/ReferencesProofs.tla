-------------------------- MODULE ReferencesProofs --------------------------
(***************************************************************************)
(* However long the lists, however often they shift and however many       *)
(* requests follow the same references: a request that goes through a      *)
(* marked reference reaches an element with the recorded text, and where   *)
(* nothing moves meanwhile it decides as if it saw the whole list at once. *)
(***************************************************************************)
EXTENDS References, FiniteSetTheorems, TLAPS

Uses == [at : Finding \union Resolving \union {"free"},
         ref : Refs \union {NoRef}, index : Nat, elem : Elements \union {NoElement},
         list : Seq(Elements), next : Nat, moved : SUBSET Nat, calm : BOOLEAN]

\* A mark is the text of the element that was found.
Registry(rs) ==
  /\ rs \in [Refs -> References \union {NoRef}]
  /\ \A r \in Refs : rs[r] # NoRef => rs[r].mark \in {NoText, TextOf[rs[r].found]}

\* What a request has in hand, or has noted as moved, has the mark's text.
Fits(u, rs, e) == rs[u.ref].mark # NoText => TextOf[e] = rs[u.ref].mark
Good(u, rs) ==
  /\ u \in Uses
  /\ u.at \in {"scanning", "markingAll"} => Has(u.list, u.next)
  /\ u.at \in {"counting", "marking"} => u.elem \in Elements
  /\ u.at \in Resolving => u.ref \in Refs /\ rs[u.ref] # NoRef
  /\ u.at = "acting" => Fits(u, rs, u.elem)
  /\ u.at = "scanning" => \A i \in u.moved : Has(u.list, i) /\ Fits(u, rs, At(u.list, i))

RInv ==
  /\ screen \in Screens
  /\ Registry(refs)
  /\ use \in [Users -> Uses]
  /\ \A h \in Users : Good(use[h], refs)

\* References are added and followed; what they mark does not change.
Keeps(rs, rs1) ==
  \A r \in Refs : rs[r] # NoRef => /\ rs1[r] # NoRef
                                   /\ rs1[r].mark = rs[r].mark
                                   /\ rs1[r].found = rs[r].found

LEMMA StaysGood ==
  ASSUME NEW u, NEW rs, NEW rs1, Good(u, rs), Keeps(rs, rs1)
  PROVE  Good(u, rs1)
BY DEF Good, Keeps, Fits, Resolving

LEMMA RestlessIsGood ==
  ASSUME NEW u, NEW rs, Good(u, rs)
  PROVE  Good([u EXCEPT !.calm = FALSE], rs)
<1> DEFINE v == [u EXCEPT !.calm = FALSE]
<1>1. v \in Uses /\ v.at = u.at /\ v.ref = u.ref /\ v.elem = u.elem
      /\ v.list = u.list /\ v.next = u.next /\ v.moved = u.moved
  BY DEF Good, Uses
<1> HIDE DEF v
<1>2. Good(v, rs)
  BY <1>1 DEF Good, Fits
<1> QED BY <1>2 DEF v

LEMMA ListedIsElement ==
  ASSUME NEW list \in Seq(Elements), NEW i \in Nat, Has(list, i)
  PROVE  At(list, i) \in Elements
<1>1. i + 1 \in 1..Len(list)
  BY DEF Has
<1> QED BY <1>1 DEF At

LEMMA ScreenIsList == screen \in Screens => screen \in Seq(Elements)
BY ScreensAreLists

\* A text that was read is the element's.
LEMMA ReadIsText ==
  ASSUME NEW e, NEW t, Reads(e, t)
  PROVE  t \in {NoText, TextOf[e]}
BY DEF Reads

LEMMA StoreKeeps ==
  ASSUME Registry(refs), NEW index \in Nat, NEW found \in Elements,
         NEW mark \in {NoText, TextOf[found]}, Store(index, mark, found)
  PROVE  Registry(refs') /\ Keeps(refs, refs')
<1> DEFINE new == Reference(index, mark, found)
<1>1. /\ new \in References /\ new # NoRef
      /\ new.mark = mark /\ new.found = found
  BY TextsAreTexts, NoRefIsNoReference DEF Reference, References
<1> HIDE DEF new
<1>2. CASE UNCHANGED refs
  BY <1>2 DEF Keeps
<1>3. ASSUME NEW r \in Refs, refs[r] = NoRef, refs' = [refs EXCEPT ![r] = new]
      PROVE  Registry(refs') /\ Keeps(refs, refs')
  BY <1>1, <1>3 DEF Registry, Keeps
<1> QED BY <1>2, <1>3 DEF Store, new

\* One request moves on.
LEMMA OneMoves ==
  ASSUME RInv, NEW h \in Users, NEW u, Becomes(h, u), Good(u, refs'),
         Registry(refs'), Keeps(refs, refs'), UNCHANGED screen
  PROVE  RInv'
<1>1. use' \in [Users -> Uses]
  BY DEF RInv, Becomes, Good
<1>2. ASSUME NEW g \in Users PROVE Good(use'[g], refs')
  <2>1. CASE g = h
    BY <2>1 DEF RInv, Becomes
  <2>2. CASE g # h
    BY <2>2, StaysGood DEF RInv, Becomes
  <2> QED BY <2>1, <2>2
<1> QED BY <1>1, <1>2 DEF RInv

LEMMA SameKeeps == Registry(refs) /\ UNCHANGED refs => Registry(refs') /\ Keeps(refs, refs')
BY DEF Keeps

LEMMA FreeIsGood == \A rs : Good(Free, rs)
<1>1. <<>> \in Seq(Elements)
  OBVIOUS
<1> QED BY <1>1 DEF Good, Free, Use, Uses, Resolving, Finding

-----------------------------------------------------------------------------
\* A request goes on reading, gives up, or follows the one that moved.
LEMMA ProceedsIsGood ==
  ASSUME RInv, NEW h \in Users, NEW u \in Uses, u.ref \in Refs, refs[u.ref] # NoRef,
         NEW i \in Nat, NEW moved \in SUBSET Nat,
         \A j \in moved : Has(u.list, j) /\ Fits(u, refs, At(u.list, j)),
         Proceeds(h, u, i, moved), UNCHANGED screen
  PROVE  RInv'
<1> DEFINE next == ScanFrom(i, refs[u.ref].index)
<1>1. next \in Nat
  BY DEF ScanFrom
<1>2. Registry(refs)
  BY DEF RInv
<1> HIDE DEF next
<1>3. CASE /\ MoreToRead(u.list, next)
           /\ Becomes(h, [u EXCEPT !.at = "scanning", !.next = next, !.moved = moved])
           /\ UNCHANGED refs
  <2> DEFINE v == [u EXCEPT !.at = "scanning", !.next = next, !.moved = moved]
  <2>1. /\ v \in Uses /\ v.at = "scanning" /\ v.ref = u.ref /\ v.list = u.list
        /\ v.next = next /\ v.moved = moved
    BY <1>1 DEF Uses, Resolving
  <2> HIDE DEF v
  <2>2. Good(v, refs)
    BY <1>3, <2>1 DEF Good, Fits, MoreToRead, Resolving
  <2>3. Becomes(h, v)
    BY <1>3 DEF v
  <2> QED BY <1>2, <1>3, <2>2, <2>3, SameKeeps, OneMoves
<1>4. CASE /\ Becomes(h, [u EXCEPT !.at = "stale", !.next = 0, !.moved = moved])
           /\ UNCHANGED refs
  <2> DEFINE v == [u EXCEPT !.at = "stale", !.next = 0, !.moved = moved]
  <2>1. v \in Uses /\ v.at = "stale" /\ v.ref = u.ref
    BY DEF Uses, Resolving
  <2> HIDE DEF v
  <2>2. Good(v, refs)
    BY <2>1 DEF Good, Resolving
  <2>3. Becomes(h, v)
    BY <1>4 DEF v
  <2> QED BY <1>2, <1>4, <2>2, <2>3, SameKeeps, OneMoves
<1>5. ASSUME NEW j \in moved,
             refs' = [refs EXCEPT ![u.ref].index = j],
             use' = [g \in Users |->
                       IF g = h THEN [u EXCEPT !.at = "acting", !.elem = At(u.list, j),
                                               !.next = 0, !.moved = moved]
                       ELSE IF use[g].ref = u.ref /\ use[g].at \in {"checking", "scanning"}
                       THEN [use[g] EXCEPT !.calm = FALSE]
                       ELSE use[g]]
      PROVE  RInv'
  <2> DEFINE v == [u EXCEPT !.at = "acting", !.elem = At(u.list, j), !.next = 0,
                            !.moved = moved]
             new == [refs[u.ref] EXCEPT !.index = j]
  <2>1. At(u.list, j) \in Elements
    BY ListedIsElement DEF Uses
  <2>2. /\ v \in Uses /\ v.at = "acting" /\ v.ref = u.ref
        /\ v.elem = At(u.list, j)
    BY <2>1 DEF Uses, Resolving
  <2>3. /\ new \in References /\ new # NoRef
        /\ new.mark = refs[u.ref].mark /\ new.found = refs[u.ref].found
    BY <1>2, NoRefIsNoReference DEF Registry, References
  <2>4. refs' = [refs EXCEPT ![u.ref] = new]
    BY <1>5
  <2>5. \A g \in Users : \/ g = h /\ use'[g] = v
                         \/ use'[g] = [use[g] EXCEPT !.calm = FALSE]
                         \/ use'[g] = use[g]
    BY <1>5
  <2>6. use' \in [Users -> Uses]
    <3>1. \A g \in Users : use'[g] \in Uses
      <4> HIDE DEF v
      <4> TAKE g \in Users
      <4>1. Good([use[g] EXCEPT !.calm = FALSE], refs) /\ Good(use[g], refs)
        BY RestlessIsGood DEF RInv
      <4> QED BY <2>2, <2>5, <4>1 DEF Good
    <3>2. use' = [g \in Users |-> use'[g]]
      BY <1>5
    <3> QED BY <3>1, <3>2
  <2> HIDE DEF v, new
  <2>7. Registry(refs') /\ Keeps(refs, refs')
    BY <1>2, <2>3, <2>4 DEF Registry, Keeps
  <2>8. Good(v, refs')
    <3>1. refs'[u.ref].mark = refs[u.ref].mark /\ refs'[u.ref] # NoRef
      BY <2>7 DEF Keeps
    <3> QED BY <2>2, <3>1 DEF Good, Fits
  <2>9. ASSUME NEW g \in Users PROVE Good(use'[g], refs')
    <3>1. Good([use[g] EXCEPT !.calm = FALSE], refs) /\ Good(use[g], refs)
      BY RestlessIsGood DEF RInv
    <3>2. Good([use[g] EXCEPT !.calm = FALSE], refs') /\ Good(use[g], refs')
      BY <2>7, <3>1, StaysGood
    <3> QED BY <2>5, <2>8, <3>2
  <2> QED BY <2>6, <2>7, <2>9 DEF RInv
<1> QED BY <1>3, <1>4, <1>5, ZenonT(40) DEF Proceeds, next

\* A request that starts afresh, at e of a list, or is over.
LEMMA UseIsGood ==
  ASSUME NEW at \in {"counting", "listing", "checking", "acting"},
         NEW ref \in Refs \union {NoRef}, NEW index \in Nat, NEW e \in Elements,
         NEW list \in Seq(Elements), NEW rs,
         at \in Resolving => ref \in Refs /\ rs[ref] # NoRef,
         at = "acting" => rs[ref].mark = NoText
  PROVE  Good(Use(at, ref, index, e, list), rs)
BY DEF Good, Use, Uses, Resolving, Finding, Fits

\* The facts about a request at hand, and about one that goes over to `at'.
LEMMA UseOf ==
  ASSUME RInv, NEW h \in Users
  PROVE  /\ use[h] \in Uses /\ Good(use[h], refs)
         /\ Registry(refs) /\ screen \in Seq(Elements)
BY ScreenIsList DEF RInv

LEMMA BecomesGood ==
  ASSUME RInv, NEW h \in Users, NEW u, Becomes(h, u), Good(u, refs),
         UNCHANGED <<screen, refs>>
  PROVE  RInv'
BY OneMoves, SameKeeps DEF RInv

LEMMA FindSteps ==
  ASSUME RInv, NEW h \in Users,
         \/ FindLocates(h) \/ FindSeesSeveral(h) \/ FindSeesOne(h)
         \/ FindMarks(h) \/ FindLists(h) \/ FindMarksNext(h)
  PROVE  RInv'
<1>0. /\ use[h] \in Uses /\ Good(use[h], refs)
      /\ Registry(refs) /\ screen \in Seq(Elements)
  BY UseOf
<1>1. CASE FindLocates(h)
  <2>1. PICK i \in 0..2, at \in {"counting", "listing"} :
          Has(screen, i) /\ Becomes(h, Use(at, NoRef, i, At(screen, i), <<>>))
    BY <1>1 DEF FindLocates
  <2>2. At(screen, i) \in Elements /\ <<>> \in Seq(Elements)
    BY <1>0, <2>1, ListedIsElement
  <2>3. Good(Use(at, NoRef, i, At(screen, i), <<>>), refs)
    <3>1. /\ at \in {"counting", "listing", "checking", "acting"} /\ at # "acting"
          /\ at \notin Resolving /\ NoRef \in Refs \union {NoRef} /\ i \in Nat
      BY DEF Resolving
    <3> QED BY <2>2, <3>1, UseIsGood
  <2> QED BY <1>1, <2>1, <2>3, BecomesGood DEF FindLocates
<1>2. CASE FindSeesSeveral(h)
  <2> DEFINE u == [use[h] EXCEPT !.at = "marking"]
  <2>1. u \in Uses /\ u.at = "marking" /\ u.elem = use[h].elem
    BY <1>0 DEF Uses, Finding
  <2>2. use[h].at = "counting" /\ Becomes(h, u) /\ UNCHANGED <<screen, refs>>
    BY <1>2 DEF FindSeesSeveral
  <2> HIDE DEF u
  <2>3. Good(u, refs)
    BY <1>0, <2>1, <2>2 DEF Good, Resolving
  <2> QED BY <2>2, <2>3, BecomesGood
<1>3. CASE FindSeesOne(h)
  <2>1. use[h].elem \in Elements /\ use[h].index \in Nat
    BY <1>0, <1>3 DEF FindSeesOne, Good, Uses
  <2>2. Registry(refs') /\ Keeps(refs, refs')
    BY <1>0, <1>3, <2>1, StoreKeeps DEF FindSeesOne
  <2> QED BY <1>3, <2>2, OneMoves, FreeIsGood DEF FindSeesOne
<1>4. CASE FindMarks(h)
  <2>1. use[h].elem \in Elements /\ use[h].index \in Nat
    BY <1>0, <1>4 DEF FindMarks, Good, Uses
  <2>2. PICK t : Reads(use[h].elem, t) /\ Store(use[h].index, t, use[h].elem)
    BY <1>4 DEF FindMarks, Marked
  <2>3. Registry(refs') /\ Keeps(refs, refs')
    BY <1>0, <2>1, <2>2, ReadIsText, StoreKeeps
  <2> QED BY <1>4, <2>3, OneMoves, FreeIsGood DEF FindMarks
<1>5. CASE FindLists(h)
  <2>1. CASE Len(screen) > 1 /\ Becomes(h, Use("markingAll", NoRef, 0, NoElement, screen))
             /\ UNCHANGED refs
    <3>1. Has(screen, 0)
      BY <1>0, <2>1 DEF Has
    <3>2. Good(Use("markingAll", NoRef, 0, NoElement, screen), refs)
      BY <1>0, <3>1 DEF Good, Use, Uses, Finding, Resolving
    <3> QED BY <1>5, <2>1, <3>2, BecomesGood DEF FindLists
  <2>2. CASE Len(screen) = 1 /\ Becomes(h, Free) /\ Store(0, NoText, At(screen, 0))
    <3>1. At(screen, 0) \in Elements
      BY <1>0, <2>2, ListedIsElement, SMTT(30) DEF Has
    <3>2. Registry(refs') /\ Keeps(refs, refs')
      BY <1>0, <2>2, <3>1, StoreKeeps
    <3> QED BY <1>5, <2>2, <3>2, OneMoves, FreeIsGood DEF FindLists
  <2>3. CASE Becomes(h, Free) /\ UNCHANGED refs
    BY <1>5, <2>3, BecomesGood, FreeIsGood DEF FindLists
  <2> QED BY <1>5, <2>1, <2>2, <2>3 DEF FindLists
<1>6. CASE FindMarksNext(h)
  <2> DEFINE u == use[h]
             e == At(u.list, u.next)
             v == [u EXCEPT !.next = @ + 1]
  <2>1. u.at = "markingAll" /\ Has(u.list, u.next)
    BY <1>0, <1>6 DEF FindMarksNext, Good
  <2>2. u.list \in Seq(Elements) /\ u.next \in Nat
    BY <1>0 DEF Uses
  <2>3. e \in Elements
    BY <2>1, <2>2, ListedIsElement
  <2>4. PICK t : Reads(e, t) /\ Store(u.next, t, e)
    BY <1>6 DEF FindMarksNext
  <2>5. Registry(refs') /\ Keeps(refs, refs')
    BY <1>0, <2>2, <2>3, <2>4, ReadIsText, StoreKeeps
  <2>6. /\ v \in Uses /\ v.at = "markingAll"
        /\ v.next = u.next + 1 /\ v.list = u.list
    BY <1>0, <2>1 DEF Uses
  <2>7. Good(IF MoreToRead(u.list, u.next + 1) THEN v ELSE Free, refs')
    <3>1. MoreToRead(u.list, u.next + 1) => Good(v, refs')
      <4> HIDE DEF u, v
      <4> QED BY <2>6 DEF Good, MoreToRead, Resolving
    <3> QED BY <3>1, FreeIsGood
  <2>8. Becomes(h, IF MoreToRead(u.list, u.next + 1) THEN v ELSE Free) /\ UNCHANGED screen
    BY <1>6 DEF FindMarksNext
  <2> QED BY <2>5, <2>7, <2>8, OneMoves
<1> QED BY <1>1, <1>2, <1>3, <1>4, <1>5, <1>6

LEMMA FollowSteps ==
  ASSUME RInv, NEW h \in Users,
         \/ \E r \in Refs : ResolvesUnmarked(h, r) \/ Fetches(h, r)
         \/ Checks(h) \/ Scans(h) \/ Acts(h)
  PROVE  RInv'
<1>0. /\ use[h] \in Uses /\ Good(use[h], refs)
      /\ Registry(refs) /\ screen \in Seq(Elements)
  BY UseOf
<1>1. ASSUME NEW r \in Refs, ResolvesUnmarked(h, r) PROVE RInv'
  <2>1. /\ refs[r] # NoRef /\ refs[r].mark = NoText /\ Has(screen, refs[r].index)
        /\ UNCHANGED <<screen, refs>>
        /\ Becomes(h, Use("acting", r, refs[r].index, At(screen, refs[r].index), screen))
    BY <1>1 DEF ResolvesUnmarked
  <2>2. refs[r].index \in Nat
    BY <1>0, <2>1 DEF Registry, References
  <2>3. At(screen, refs[r].index) \in Elements
    BY <1>0, <2>1, <2>2, ListedIsElement
  <2>4. Good(Use("acting", r, refs[r].index, At(screen, refs[r].index), screen), refs)
    BY <1>0, <2>1, <2>2, <2>3, UseIsGood
  <2> QED BY <2>1, <2>4, BecomesGood
<1>2. ASSUME NEW r \in Refs, Fetches(h, r) PROVE RInv'
  <2> DEFINE u == Use("checking", r, refs[r].index, NoElement, screen)
  <2>1. refs[r] # NoRef /\ refs[r].mark # NoText /\ UNCHANGED screen
    BY <1>2 DEF Fetches
  <2>2. refs[r].index \in Nat
    BY <1>0, <2>1 DEF Registry, References
  <2>3. u \in Uses /\ u.ref = r
    BY <1>0, <2>2 DEF Use, Uses, Resolving
  <2>4. CASE /\ Has(screen, refs[r].index)
             /\ Becomes(h, [u EXCEPT !.elem = At(screen, refs[r].index)])
             /\ UNCHANGED refs
    <3>1. At(screen, refs[r].index) \in Elements
      BY <1>0, <2>2, <2>4, ListedIsElement
    <3> DEFINE v == [u EXCEPT !.elem = At(screen, refs[r].index)]
    <3>2. v \in Uses /\ v.ref = r /\ v.at = "checking"
      BY <2>3, <3>1 DEF Use, Uses
    <3>3. Becomes(h, v)
      BY <2>4
    <3> HIDE DEF v
    <3>4. Good(v, refs)
      BY <2>1, <3>2 DEF Good, Resolving
    <3> QED BY <2>1, <2>4, <3>3, <3>4, BecomesGood
  <2>5. CASE Proceeds(h, u, 0, {})
    <3> HIDE DEF u
    <3> QED BY <2>1, <2>3, <2>5, ProceedsIsGood
  <2> QED BY <1>2, <2>4, <2>5 DEF Fetches
<1>3. CASE Checks(h)
  <2> DEFINE u == use[h]
  <2>1. u.at = "checking" /\ u.ref \in Refs /\ refs[u.ref] # NoRef /\ UNCHANGED screen
    BY <1>0, <1>3 DEF Checks, Good, Resolving
  <2>2. PICK t \in Texts \union {NoText} :
          /\ Reads(u.elem, t)
          /\ \/ /\ t = refs[u.ref].mark
                /\ Becomes(h, [u EXCEPT !.at = "acting"])
                /\ UNCHANGED refs
             \/ Proceeds(h, Learns(u, u.elem, t), 0, {})
    BY <1>3 DEF Checks
  <2>3. CASE t = refs[u.ref].mark /\ Becomes(h, [u EXCEPT !.at = "acting"]) /\ UNCHANGED refs
    <3> DEFINE v == [u EXCEPT !.at = "acting"]
    <3>1. v \in Uses /\ v.at = "acting" /\ v.ref = u.ref /\ v.elem = u.elem
      BY <1>0 DEF Uses, Resolving
    <3>2. Becomes(h, v)
      BY <2>3
    <3>3. t \in {NoText, TextOf[u.elem]}
      BY <2>2, ReadIsText
    <3> HIDE DEF v
    <3>4. Good(v, refs)
      BY <2>1, <2>3, <3>1, <3>3 DEF Good, Fits
    <3> QED BY <2>1, <2>3, <3>2, <3>4, BecomesGood
  <2>4. CASE Proceeds(h, Learns(u, u.elem, t), 0, {})
    <3>1. Learns(u, u.elem, t) \in Uses /\ Learns(u, u.elem, t).ref = u.ref
      BY <1>0 DEF Learns, Uses
    <3> QED BY <2>1, <2>4, <3>1, ProceedsIsGood
  <2> QED BY <2>2, <2>3, <2>4
<1>4. CASE Scans(h)
  <2> DEFINE u == use[h]
             e == At(u.list, u.next)
  <2>1. /\ u.at = "scanning" /\ u.ref \in Refs /\ refs[u.ref] # NoRef /\ UNCHANGED screen
        /\ Has(u.list, u.next)
        /\ \A j \in u.moved : Has(u.list, j) /\ Fits(u, refs, At(u.list, j))
    BY <1>0, <1>4 DEF Scans, Good, Resolving
  <2>2. PICK t \in Texts \union {NoText} :
          /\ Reads(e, t)
          /\ Proceeds(h, Learns(u, e, t), u.next + 1,
                      IF t = refs[u.ref].mark THEN u.moved \union {u.next} ELSE u.moved)
    BY <1>4 DEF Scans
  <2> DEFINE v == Learns(u, e, t)
             moved == IF t = refs[u.ref].mark THEN u.moved \union {u.next} ELSE u.moved
  <2>3. /\ v \in Uses /\ v.ref = u.ref /\ v.list = u.list
        /\ u.next + 1 \in Nat /\ moved \in SUBSET Nat
    <3>1. v \in Uses /\ v.ref = u.ref /\ v.list = u.list
      BY <1>0 DEF Learns, Uses
    <3>2. u.next \in Nat /\ u.moved \in SUBSET Nat
      BY <1>0 DEF Uses
    <3> QED BY <3>1, <3>2
  <2>4. t \in {NoText, TextOf[e]}
    BY <2>2, ReadIsText
  <2>5. \A j \in moved : Has(v.list, j) /\ Fits(v, refs, At(v.list, j))
    <3>1. t = refs[u.ref].mark => Fits(u, refs, e)
      BY <2>4 DEF Fits
    <3> HIDE DEF u, v
    <3> QED BY <2>1, <2>3, <3>1 DEF Fits
  <2> HIDE DEF v, moved
  <2>6. Proceeds(h, v, u.next + 1, moved)
    BY <2>2 DEF v, moved
  <2> QED BY <2>1, <2>3, <2>5, <2>6, ProceedsIsGood
<1>5. CASE Acts(h)
  BY <1>5, BecomesGood, FreeIsGood DEF Acts
<1> QED BY <1>1, <1>2, <1>3, <1>4, <1>5

-----------------------------------------------------------------------------
LEMMA RefStarts == RefInit => RInv
<1> SUFFICES ASSUME RefInit PROVE RInv
  OBVIOUS
<1>1. Free \in Uses
  BY FreeIsGood DEF Good
<1> QED BY <1>1, FreeIsGood DEF RefInit, RInv, Registry

LEMMA RefSteps == RInv /\ [RefNext]_refVars => RInv'
<1> SUFFICES ASSUME RInv, [RefNext]_refVars PROVE RInv'
  OBVIOUS
<1>1. CASE ScreenChanges
  <2>1. ASSUME NEW h \in Users PROVE use'[h] \in Uses /\ Good(use'[h], refs')
    <3>1. Good([use[h] EXCEPT !.calm = FALSE], refs) /\ Good(use[h], refs)
      BY RestlessIsGood DEF RInv
    <3>2. use'[h] \in {[use[h] EXCEPT !.calm = FALSE], use[h]} /\ refs' = refs
      BY <1>1 DEF ScreenChanges
    <3> QED BY <3>1, <3>2 DEF Good
  <2>2. use' = [h \in Users |-> use'[h]]
    BY <1>1 DEF ScreenChanges
  <2>3. use' \in [Users -> Uses]
    BY <2>1, <2>2
  <2> QED BY <1>1, <2>1, <2>3 DEF ScreenChanges, RInv
<1>2. ASSUME NEW h \in Users, UserStep(h) PROVE RInv'
  BY <1>2, FindSteps, FollowSteps DEF UserStep
<1>3. CASE UNCHANGED refVars
  BY <1>3 DEF refVars, RInv
<1> QED BY <1>1, <1>2, <1>3 DEF RefNext

LEMMA RefInvariant == RefSpec => []RInv
BY RefStarts, RefSteps, PTL DEF RefSpec

(***************************************************************************)
(* The registry, the find handler and rehydratePositional() keep their     *)
(* types: only positions within the fetched list are read.                 *)
(***************************************************************************)
THEOREM RefTypes == RefSpec => []RefTypeOK
<1>1. RInv => RefTypeOK
  BY DEF RInv, Registry, Good, RefTypeOK, Uses
<1> QED BY <1>1, RefInvariant, PTL

(***************************************************************************)
(* retrieveElement(): a request through a marked reference goes to an      *)
(* element with the text of the one found, in lists of any length.         *)
(***************************************************************************)
THEOREM SameText == RefSpec => []ActsOnTheSameText
<1>1. RInv => ActsOnTheSameText
  BY DEF RInv, Registry, Good, Fits, ActsOnTheSameText, Resolving
<1> QED BY <1>1, RefInvariant, PTL

-----------------------------------------------------------------------------
(* What a request that was not disturbed has found out.  While it reads,   *)
(* the reference still points where it did when the list was fetched; the  *)
(* scan has noted all that fit up to where it is, and the position it      *)
(* leaves out does not fit.                                                *)

Chosen(u, fit) ==
  IF u.index \in fit THEN u.at = "acting" /\ u.elem = At(u.list, u.index)
  ELSE IF Cardinality(fit) = 1 THEN u.at = "acting" /\ \E i \in fit : u.elem = At(u.list, i)
  ELSE u.at = "stale"

\* The positions of the fetched list that have the mark's text.
Fit(u, rs) == With(u.list, rs[u.ref].mark)

Steady(u, rs) ==
  u.at \in Resolving /\ rs[u.ref].mark # NoText /\ u.calm =>
    /\ u.at \in {"checking", "scanning"} => rs[u.ref].index = u.index
    /\ u.at = "checking" => Has(u.list, u.index) /\ u.elem = At(u.list, u.index)
    /\ u.at = "scanning" => /\ u.index \notin Fit(u, rs)
                            /\ u.moved = {i \in Fit(u, rs) : i < u.next}
    /\ u.at \in {"acting", "stale"} => Chosen(u, Fit(u, rs))

AllSteady == \A h \in Users : Steady(use[h], refs)
SInv == RInv /\ AllSteady

LEMMA StaysSteady ==
  ASSUME NEW u, NEW rs, NEW rs1, Good(u, rs), Steady(u, rs), Keeps(rs, rs1),
         u.at \in {"checking", "scanning"} => rs1[u.ref].index = rs[u.ref].index
  PROVE  Steady(u, rs1)
<1>1. u.at \in Resolving => rs1[u.ref].mark = rs[u.ref].mark
  BY DEF Good, Keeps
<1> QED BY <1>1 DEF Steady, Fit

LEMMA RestlessIsSteady ==
  ASSUME NEW u \in Uses, NEW rs
  PROVE  Steady([u EXCEPT !.calm = FALSE], rs)
<1>1. [u EXCEPT !.calm = FALSE].calm = FALSE
  BY DEF Uses
<1> QED BY <1>1 DEF Steady

\* One request moves on, and no stored reference changes.
LEMMA OneSteady ==
  ASSUME SInv, NEW h \in Users, NEW u, Becomes(h, u), Steady(u, refs'),
         \A r \in Refs : refs[r] # NoRef => refs'[r] = refs[r]
  PROVE  AllSteady'
<1>1. Keeps(refs, refs')
  BY DEF Keeps
<1>2. ASSUME NEW g \in Users PROVE Steady(use'[g], refs')
  <2>1. CASE g = h
    BY <2>1 DEF SInv, RInv, Becomes
  <2>2. CASE g # h
    <3>1. use'[g] = use[g] /\ Good(use[g], refs) /\ Steady(use[g], refs)
      BY <2>2 DEF SInv, RInv, AllSteady, Becomes
    <3>2. use[g].at \in {"checking", "scanning"} =>
            refs'[use[g].ref].index = refs[use[g].ref].index
      BY <3>1 DEF Good, Resolving
    <3> QED BY <1>1, <3>1, <3>2, StaysSteady
  <2> QED BY <2>1, <2>2
<1> QED BY <1>2 DEF AllSteady

\* Outside of retrieveElement() there is nothing to find out.
LEMMA OthersAreSteady ==
  ASSUME NEW u, NEW rs, u.at \notin Resolving
  PROVE  Steady(u, rs)
BY DEF Steady

LEMMA FreeIsSteady == \A rs : Steady(Free, rs)
<1>1. Free.at \notin Resolving
  BY DEF Free, Use, Resolving
<1> QED BY <1>1, OthersAreSteady

LEMMA StoreChangesNothing ==
  ASSUME Registry(refs), NEW index, NEW mark, NEW found, Store(index, mark, found)
  PROVE  \A r \in Refs : refs[r] # NoRef => refs'[r] = refs[r]
BY DEF Store, Registry

-----------------------------------------------------------------------------
LEMMA FitIsFinite ==
  ASSUME NEW list \in Seq(Elements), NEW mark
  PROVE  /\ IsFiniteSet(With(list, mark))
         /\ With(list, mark) \subseteq Nat
         /\ \A i \in With(list, mark) : Has(list, i)
<1>1. Len(list) \in Nat /\ With(list, mark) \subseteq 0..(Len(list) - 1)
  BY DEF With
<1>2. IsFiniteSet(0..(Len(list) - 1))
  BY <1>1, FS_Interval
<1> QED BY <1>1, <1>2, FS_Subset DEF Has

\* The end of a scan that noted all that fit, and left out one that does not.
LEMMA ProceedsIsSteady ==
  ASSUME SInv, NEW h \in Users, NEW u \in Uses, u.ref \in Refs, refs[u.ref] # NoRef,
         NEW i \in Nat, NEW moved \in SUBSET Nat,
         \A j \in moved : Has(u.list, j),
         u.calm /\ refs[u.ref].mark # NoText =>
           /\ refs[u.ref].index = u.index
           /\ u.index \notin Fit(u, refs)
           /\ moved = {j \in Fit(u, refs) : j < i},
         Proceeds(h, u, i, moved)
  PROVE  AllSteady'
<1> DEFINE next == ScanFrom(i, refs[u.ref].index)
           fit == Fit(u, refs)
           calm == u.calm /\ refs[u.ref].mark # NoText
<1>1. next \in Nat /\ u.list \in Seq(Elements)
  BY DEF ScanFrom, Uses
<1>2. IsFiniteSet(fit) /\ fit \subseteq Nat /\ \A j \in fit : Has(u.list, j)
  BY <1>1, FitIsFinite DEF Fit
<1>3. Registry(refs)
  BY DEF SInv, RInv
<1>4. calm => moved = {j \in fit : j < next}
  <2>1. \A j \in fit : calm => (j < i <=> j < next)
    BY <1>2 DEF ScanFrom
  <2> QED BY <2>1
<1>5. calm /\ ~Has(u.list, next) => moved = fit
  <2>1. \A j \in fit : ~Has(u.list, next) => j < next
    BY <1>1, <1>2 DEF Has
  <2> QED BY <1>4, <2>1
<1> HIDE DEF next, fit, calm
<1>6. CASE /\ Becomes(h, [u EXCEPT !.at = "scanning", !.next = next, !.moved = moved])
           /\ UNCHANGED refs
  <2> DEFINE v == [u EXCEPT !.at = "scanning", !.next = next, !.moved = moved]
  <2>1. /\ v.at = "scanning" /\ v.ref = u.ref /\ v.list = u.list /\ v.next = next
        /\ v.moved = moved /\ v.calm = u.calm /\ v.index = u.index
    BY DEF Uses
  <2>2. Becomes(h, v)
    BY <1>6
  <2> HIDE DEF v
  <2>3. Fit(v, refs) = fit
    BY <2>1 DEF Fit, fit
  <2>4. Steady(v, refs)
    BY <1>4, <2>1, <2>3 DEF Steady, fit, calm
  <2> QED BY <1>6, <2>2, <2>4, OneSteady
<1>7. CASE /\ ~Has(u.list, next) /\ ~Unambiguous(moved)
           /\ Becomes(h, [u EXCEPT !.at = "stale", !.next = 0, !.moved = moved])
           /\ UNCHANGED refs
  <2> DEFINE v == [u EXCEPT !.at = "stale", !.next = 0, !.moved = moved]
  <2>1. /\ v.at = "stale" /\ v.ref = u.ref /\ v.list = u.list
        /\ v.calm = u.calm /\ v.index = u.index
    BY DEF Uses
  <2>2. Becomes(h, v)
    BY <1>7
  <2> HIDE DEF v
  <2>3. Fit(v, refs) = fit
    BY <2>1 DEF Fit, fit
  <2>4. calm => Cardinality(fit) # 1
    BY <1>2, <1>5, <1>7, FS_Singleton DEF Unambiguous
  <2>5. Steady(v, refs)
    BY <2>1, <2>3, <2>4 DEF Steady, Chosen, fit, calm
  <2> QED BY <1>7, <2>2, <2>5, OneSteady
<1>8. ASSUME ~Has(u.list, next), Unambiguous(moved), NEW j \in moved,
             refs' = [refs EXCEPT ![u.ref].index = j],
             use' = [g \in Users |->
                       IF g = h THEN [u EXCEPT !.at = "acting", !.elem = At(u.list, j),
                                               !.next = 0, !.moved = moved]
                       ELSE IF use[g].ref = u.ref /\ use[g].at \in {"checking", "scanning"}
                       THEN [use[g] EXCEPT !.calm = FALSE]
                       ELSE use[g]]
      PROVE  AllSteady'
  <2> DEFINE v == [u EXCEPT !.at = "acting", !.elem = At(u.list, j), !.next = 0,
                            !.moved = moved]
             new == [refs[u.ref] EXCEPT !.index = j]
  <2>1. /\ v.at = "acting" /\ v.ref = u.ref /\ v.list = u.list
        /\ v.calm = u.calm /\ v.index = u.index /\ v.elem = At(u.list, j)
    BY DEF Uses
  <2>2. new # NoRef /\ new.mark = refs[u.ref].mark /\ new.found = refs[u.ref].found
    <3>1. j \in Nat
      OBVIOUS
    <3>2. new \in References
      BY <1>3, <3>1 DEF Registry, References
    <3> QED BY <1>3, <3>2, NoRefIsNoReference DEF Registry, References
  <2>3. refs' = [refs EXCEPT ![u.ref] = new]
    BY <1>8
  <2>4. use'[h] = v
    BY <1>8
  <2>5. \A g \in Users \ {h} :
          \/ use'[g] = [use[g] EXCEPT !.calm = FALSE]
          \/ /\ use'[g] = use[g]
             /\ ~(use[g].ref = u.ref /\ use[g].at \in {"checking", "scanning"})
    BY <1>8
  <2> HIDE DEF v, new
  <2>6. Keeps(refs, refs')
    BY <1>3, <2>2, <2>3 DEF Registry, Keeps
  <2>7. Fit(v, refs') = fit
    BY <2>1, <2>6 DEF Fit, fit, Keeps
  <2>8. Steady(v, refs')
    <3>1. calm => Cardinality(fit) = 1 /\ j \in fit
      BY <1>2, <1>5, <1>8, FS_Singleton DEF Unambiguous
    <3>2. refs'[u.ref].mark = refs[u.ref].mark
      BY <2>6 DEF Keeps
    <3> QED BY <2>1, <2>7, <3>1, <3>2 DEF Steady, Chosen, fit, calm
  <2>9. ASSUME NEW g \in Users \ {h} PROVE Steady(use'[g], refs')
    <3>1. use[g] \in Uses /\ Good(use[g], refs) /\ Steady(use[g], refs)
      BY DEF SInv, RInv, AllSteady
    <3>2. CASE use'[g] = [use[g] EXCEPT !.calm = FALSE]
      BY <3>1, <3>2, RestlessIsSteady
    <3>3. CASE /\ use'[g] = use[g]
               /\ ~(use[g].ref = u.ref /\ use[g].at \in {"checking", "scanning"})
      <4>1. use[g].at \in {"checking", "scanning"} =>
              refs'[use[g].ref].index = refs[use[g].ref].index
        BY <1>3, <2>3, <3>1, <3>3 DEF Good, Resolving, Registry
      <4> QED BY <2>6, <3>1, <3>3, <4>1, StaysSteady
    <3> QED BY <2>5, <3>2, <3>3
  <2> QED BY <2>4, <2>8, <2>9 DEF AllSteady
<1> QED BY <1>6, <1>7, <1>8, ZenonT(40) DEF Proceeds, MoreToRead, next

-----------------------------------------------------------------------------
LEMMA FindsStaySteady ==
  ASSUME SInv, NEW h \in Users,
         \/ FindLocates(h) \/ FindSeesSeveral(h) \/ FindSeesOne(h)
         \/ FindMarks(h) \/ FindLists(h) \/ FindMarksNext(h)
  PROVE  AllSteady'
<1>1. use[h] \in Uses /\ Registry(refs)
  BY DEF SInv, RInv
<1>2. \A r \in Refs : refs[r] # NoRef => refs'[r] = refs[r]
  <2>1. UNCHANGED refs \/ \E index, mark, found : Store(index, mark, found)
    BY DEF FindLocates, FindSeesSeveral, FindSeesOne, FindMarks, FindLists, FindMarksNext
  <2> QED BY <1>1, <2>1, StoreChangesNothing
<1>3. \E u : Becomes(h, u) /\ u.at \notin Resolving
  <2>1. Free.at \notin Resolving
    BY DEF Free, Use, Resolving
  <2>2. CASE FindLocates(h) \/ FindLists(h)
    BY <2>1, <2>2 DEF FindLocates, FindLists, Use, Resolving
  <2>3. CASE FindSeesSeveral(h)
    BY <1>1, <2>3 DEF FindSeesSeveral, Uses, Resolving
  <2>4. CASE FindSeesOne(h) \/ FindMarks(h)
    BY <2>1, <2>4 DEF FindSeesOne, FindMarks
  <2>5. CASE FindMarksNext(h)
    <3>1. [use[h] EXCEPT !.next = @ + 1].at \notin Resolving
      BY <1>1, <2>5 DEF FindMarksNext, Uses, Resolving
    <3>2. Becomes(h, [use[h] EXCEPT !.next = @ + 1]) \/ Becomes(h, Free)
      BY <2>5 DEF FindMarksNext
    <3> QED BY <2>1, <3>1, <3>2
  <2> QED BY <2>2, <2>3, <2>4, <2>5
<1> QED BY <1>2, <1>3, OthersAreSteady, OneSteady

LEMMA FollowsStaySteady ==
  ASSUME SInv, NEW h \in Users,
         \/ \E r \in Refs : ResolvesUnmarked(h, r) \/ Fetches(h, r)
         \/ Checks(h) \/ Scans(h) \/ Acts(h)
  PROVE  AllSteady'
<1>0. /\ use[h] \in Uses /\ Good(use[h], refs) /\ Steady(use[h], refs)
      /\ Registry(refs) /\ screen \in Seq(Elements) /\ RInv
  BY UseOf DEF SInv, AllSteady
<1>1. ASSUME NEW r \in Refs, ResolvesUnmarked(h, r) PROVE AllSteady'
  <2> DEFINE u == Use("acting", r, refs[r].index, At(screen, refs[r].index), screen)
  <2>1. refs[r].mark = NoText /\ UNCHANGED refs /\ Becomes(h, u)
    BY <1>1 DEF ResolvesUnmarked
  <2>2. Steady(u, refs)
    BY <2>1 DEF Steady, Use
  <2> QED BY <2>1, <2>2, OneSteady
<1>2. ASSUME NEW r \in Refs, Fetches(h, r) PROVE AllSteady'
  <2> DEFINE u == Use("checking", r, refs[r].index, NoElement, screen)
  <2>1. refs[r] # NoRef /\ refs[r].mark # NoText /\ UNCHANGED screen
    BY <1>2 DEF Fetches
  <2>2. refs[r].index \in Nat
    BY <1>0, <2>1 DEF Registry, References
  <2>3. /\ u \in Uses /\ u.ref = r /\ u.index = refs[r].index /\ u.list = screen
        /\ u.at = "checking"
    BY <1>0, <2>2 DEF Use, Uses, Resolving
  <2>4. CASE /\ Has(screen, refs[r].index)
             /\ Becomes(h, [u EXCEPT !.elem = At(screen, refs[r].index)])
             /\ UNCHANGED refs
    <3> DEFINE v == [u EXCEPT !.elem = At(screen, refs[r].index)]
    <3>1. /\ v.ref = r /\ v.index = refs[r].index /\ v.list = screen
          /\ v.at = "checking" /\ v.elem = At(screen, refs[r].index)
      BY <2>3 DEF Uses
    <3>2. Becomes(h, v)
      BY <2>4
    <3> HIDE DEF v
    <3>3. Steady(v, refs)
      BY <2>4, <3>1 DEF Steady
    <3> QED BY <2>4, <3>2, <3>3, OneSteady
  <2>5. CASE ~Has(screen, refs[r].index) /\ Proceeds(h, u, 0, {})
    <3> HIDE DEF u
    <3>1. /\ With(screen, refs[r].mark) \subseteq Nat
          /\ \A i \in With(screen, refs[r].mark) : Has(screen, i)
      BY <1>0, FitIsFinite
    <3>2. /\ Fit(u, refs) \subseteq Nat
          /\ u.index \notin Fit(u, refs)
      BY <2>3, <2>5, <3>1 DEF Fit
    <3>3. {} = {j \in Fit(u, refs) : j < 0}
      BY <3>2
    <3>4. {} \in SUBSET Nat /\ 0 \in Nat
      OBVIOUS
    <3> QED BY <2>1, <2>3, <2>5, <3>2, <3>3, <3>4, ProceedsIsSteady
  <2> QED BY <1>2, <2>4, <2>5 DEF Fetches
<1>3. CASE Checks(h)
  <2> DEFINE u == use[h]
  <2>1. u.at = "checking" /\ u.ref \in Refs /\ refs[u.ref] # NoRef
    BY <1>0, <1>3 DEF Checks, Good, Resolving
  <2>2. PICK t \in Texts \union {NoText} :
          /\ Reads(u.elem, t)
          /\ \/ /\ t = refs[u.ref].mark
                /\ Becomes(h, [u EXCEPT !.at = "acting"])
                /\ UNCHANGED refs
             \/ /\ t # refs[u.ref].mark
                /\ Proceeds(h, Learns(u, u.elem, t), 0, {})
    BY <1>3 DEF Checks
  <2>3. refs[u.ref].mark # NoText /\ u.calm =>
          /\ refs[u.ref].index = u.index
          /\ Has(u.list, u.index) /\ u.elem = At(u.list, u.index)
    BY <1>0, <2>1 DEF Steady, Resolving
  <2>4. u.index \in Nat /\ u.list \in Seq(Elements)
    BY <1>0 DEF Uses
  <2>5. Has(u.list, u.index) => u.index \in 0..Len(u.list) - 1
    BY <2>4 DEF Has
  <2>6. CASE t = refs[u.ref].mark /\ Becomes(h, [u EXCEPT !.at = "acting"]) /\ UNCHANGED refs
    <3> DEFINE v == [u EXCEPT !.at = "acting"]
    <3>1. /\ v.at = "acting" /\ v.ref = u.ref /\ v.elem = u.elem /\ v.list = u.list
          /\ v.index = u.index /\ v.calm = u.calm
      BY <1>0 DEF Uses
    <3>2. Becomes(h, v)
      BY <2>6
    <3>3. t \in {NoText, TextOf[u.elem]}
      BY <2>2, ReadIsText
    <3> HIDE DEF v
    <3>4. v.calm /\ refs[u.ref].mark # NoText => v.index \in Fit(v, refs)
      BY <2>3, <2>5, <2>6, <3>1, <3>3 DEF Fit, With
    <3>5. Steady(v, refs)
      BY <2>3, <3>1, <3>4 DEF Steady, Chosen
    <3> QED BY <2>6, <3>2, <3>5, OneSteady
  <2>7. CASE t # refs[u.ref].mark /\ Proceeds(h, Learns(u, u.elem, t), 0, {})
    <3> DEFINE v == Learns(u, u.elem, t)
    <3>1. /\ v \in Uses /\ v.ref = u.ref /\ v.list = u.list /\ v.index = u.index
          /\ v.calm <=> (u.calm /\ t = TextOf[u.elem])
      BY <1>0 DEF Learns, Uses
    <3> HIDE DEF v
    <3>2. Fit(v, refs) \subseteq Nat
      BY <2>4, <3>1, FitIsFinite DEF Fit
    <3>3. {} = {j \in Fit(v, refs) : j < 0}
      BY <3>2
    <3>4. refs[u.ref].mark # NoText /\ v.calm =>
            refs[u.ref].index = v.index /\ v.index \notin Fit(v, refs)
      BY <2>3, <2>7, <3>1 DEF Fit, With
    <3>5. {} \in SUBSET Nat /\ 0 \in Nat
      OBVIOUS
    <3>6. Proceeds(h, v, 0, {})
      BY <2>7 DEF v
    <3> QED BY <2>1, <3>1, <3>3, <3>4, <3>5, <3>6, ProceedsIsSteady
  <2> QED BY <2>2, <2>6, <2>7
<1>4. CASE Scans(h)
  <2> DEFINE u == use[h]
             e == At(u.list, u.next)
             fit == Fit(u, refs)
  <2>1. /\ u.at = "scanning" /\ u.ref \in Refs /\ refs[u.ref] # NoRef
        /\ Has(u.list, u.next) /\ \A j \in u.moved : Has(u.list, j)
        /\ u.next \in Nat /\ u.moved \in SUBSET Nat /\ u.list \in Seq(Elements)
    BY <1>0, <1>4 DEF Scans, Good, Resolving, Uses
  <2>2. PICK t \in Texts \union {NoText} :
          /\ Reads(e, t)
          /\ Proceeds(h, Learns(u, e, t), u.next + 1,
                      IF t = refs[u.ref].mark THEN u.moved \union {u.next} ELSE u.moved)
    BY <1>4 DEF Scans
  <2> DEFINE v == Learns(u, e, t)
             moved == IF t = refs[u.ref].mark THEN u.moved \union {u.next} ELSE u.moved
  <2>3. /\ v \in Uses /\ v.ref = u.ref /\ v.list = u.list /\ v.index = u.index
        /\ v.calm <=> (u.calm /\ t = TextOf[e])
    BY <1>0 DEF Learns, Uses
  <2>4. moved \in SUBSET Nat /\ u.next + 1 \in Nat /\ \A j \in moved : Has(v.list, j)
    BY <2>1, <2>3
  <2>5. refs[u.ref].mark # NoText /\ u.calm =>
          /\ refs[u.ref].index = u.index
          /\ u.index \notin fit
          /\ u.moved = {i \in fit : i < u.next}
    BY <1>0, <2>1 DEF Steady, Resolving
  <2>6. t = TextOf[e] => (u.next \in fit <=> t = refs[u.ref].mark)
    <3>1. u.next \in 0..Len(u.list) - 1
      BY <2>1 DEF Has
    <3> QED BY <3>1 DEF Fit, With
  <2>7. fit \subseteq Nat /\ Fit(v, refs) = fit
    BY <2>1, <2>3, FitIsFinite DEF Fit
  <2>8. Proceeds(h, v, u.next + 1, moved)
    BY <2>2
  <2>9. refs[u.ref].mark # NoText /\ v.calm => moved = {i \in fit : i < u.next + 1}
    <3> HIDE DEF u, e, fit, v
    <3>1. \A i \in fit : i < u.next + 1 <=> i < u.next \/ i = u.next
      BY <2>1, <2>7
    <3> QED BY <2>3, <2>5, <2>6, <3>1
  <2> HIDE DEF u, e, fit, v, moved
  <2> QED BY <2>1, <2>3, <2>4, <2>5, <2>7, <2>8, <2>9, ProceedsIsSteady
<1>5. CASE Acts(h)
  BY <1>5, OneSteady, FreeIsSteady DEF Acts
<1> QED BY <1>1, <1>2, <1>3, <1>4, <1>5

LEMMA SteadySteps == SInv /\ [RefNext]_refVars => SInv'
<1> SUFFICES ASSUME SInv, [RefNext]_refVars PROVE AllSteady'
  BY RefSteps DEF SInv
\* Whoever is still reading when the screen changes is disturbed.
<1>1. CASE ScreenChanges
  <2>1. ASSUME NEW h \in Users PROVE Steady(use'[h], refs')
    <3>1. use[h] \in Uses /\ Steady(use[h], refs) /\ refs' = refs
      BY <1>1 DEF SInv, RInv, AllSteady, ScreenChanges
    <3>2. use'[h] \in {[use[h] EXCEPT !.calm = FALSE], use[h]}
      BY <1>1 DEF ScreenChanges
    <3> QED BY <3>1, <3>2, RestlessIsSteady
  <2> QED BY <2>1 DEF AllSteady
<1>2. ASSUME NEW h \in Users, UserStep(h) PROVE AllSteady'
  BY <1>2, FindsStaySteady, FollowsStaySteady DEF UserStep
<1>3. CASE UNCHANGED refVars
  BY <1>3 DEF refVars, SInv, AllSteady
<1> QED BY <1>1, <1>2, <1>3 DEF RefNext

LEMMA SteadyInvariant == RefSpec => []SInv
<1>1. RefInit => SInv
  BY RefStarts, FreeIsSteady DEF RefInit, SInv, AllSteady
<1> QED BY <1>1, SteadySteps, PTL DEF RefSpec

(***************************************************************************)
(* rehydratePositional() decides as if it had seen all texts at once: the  *)
(* position the reference points to if it fits, else the only one that     *)
(* does, else none; for lists of any length, and unless the screen or the  *)
(* reference changed, or a text could not be read, on the way.             *)
(***************************************************************************)
THEOREM DecidesAsIfAtOnce == RefSpec => []FollowsOrRefuses
<1>1. SInv => FollowsOrRefuses
  <2> SUFFICES ASSUME SInv, NEW h \in Users
               PROVE  LET u == use[h]
                          fit == With(u.list, refs[u.ref].mark) IN
                      u.at \in {"acting", "stale"} /\ refs[u.ref].mark # NoText /\ u.calm =>
                        Chosen(u, fit)
    BY DEF FollowsOrRefuses, Chosen
  <2>1. Steady(use[h], refs)
    BY DEF SInv, AllSteady
  <2> QED BY <2>1 DEF Steady, Fit, Resolving
<1> QED BY <1>1, SteadyInvariant, PTL
=============================================================================
