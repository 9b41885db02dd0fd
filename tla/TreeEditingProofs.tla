------------------------- MODULE TreeEditingProofs -------------------------
(***************************************************************************)
(* Proofs about TreeNavigation and TreeEditing, for trees of every size:   *)
(* the previous and next buttons reach the nearest question, the next      *)
(* button on a group the nearest one after the whole group; adding and     *)
(* removing items keeps the tree a tree in the order shown, so that what   *)
(* is proved of the walk holds while the tree is edited; and the answer    *)
(* box follows the question box.  That the walk ends is a liveness         *)
(* property and left to TLC.                                               *)
(***************************************************************************)
EXTENDS TreeEditing, TLAPS

-----------------------------------------------------------------------------
(* Facts about the numbering of the items. *)

(* The tree as the lemmas use it. *)
LEMMA TreeFacts ==
  ASSUME TypeOK
  PROVE  \E n \in Nat :
           /\ n >= 1 /\ Items = 1..n
           /\ \A i \in Items : up[i] \in Nat /\ up[i] < n
           /\ \A i \in Items \ {1} :
                up[i] \in Items /\ up[i] < i /\ isGroup[up[i]] /\ Inside(up[i], i - 1)
<1>1. PICK n \in 1..MaxItems : up \in [1..n -> 0..(n - 1)]
  BY DEF TypeOK
<1>2. n \in Nat /\ n >= 1 /\ Items = 1..n
  BY <1>1, MaxItemsAssumption DEF Items
<1>3. \A i \in Items : up[i] \in Nat /\ up[i] < n
  BY <1>1, <1>2
<1>4. \A i \in Items \ {1} :
        up[i] \in Items /\ isGroup[up[i]] /\ Inside(up[i], i - 1)
  BY DEF TypeOK, WellFormed
<1>5. \A i \in Items \ {1} : up[i] < i
  BY <1>2, <1>4 DEF Inside
<1> QED BY <1>2, <1>3, <1>4, <1>5

(* An item k after w that hangs above w, but not above w's parent p, is a  *)
(* later sibling of w: the one group between them would have to contain w. *)
LEMMA HangsOnParent ==
  ASSUME TypeOK, NEW w \in Items, w # 1, NEW k \in Items, k > w,
         up[k] < w, up[k] >= up[w]
  PROVE  k \in Kids(up[w])
<1>1. PICK n \in Nat : n >= 1 /\ Items = 1..n
  BY TreeFacts
<1>2. /\ up[k] \in Items /\ Inside(up[k], k - 1)
      /\ up[w] \in Items
  BY <1>1, TreeFacts
<1>3. w \in (up[k] + 1)..(k - 1)
  BY <1>1, <1>2
<1>4. up[w] >= up[k]
  BY <1>2, <1>3 DEF Inside
<1>5. up[k] = up[w]
  BY <1>1, <1>2, <1>4
<1> QED BY <1>5 DEF Kids

(* A child is inside its parent, and what is inside the child is too. *)
LEMMA InsideParent ==
  ASSUME TypeOK, NEW w \in Items, w # 1, NEW j \in Items, Inside(w, j)
  PROVE  Inside(up[w], j)
<1>1. PICK n \in Nat : n >= 1 /\ Items = 1..n
  BY TreeFacts
<1>2. up[w] \in Items /\ up[w] < w /\ Inside(up[w], w - 1)
  BY <1>1, TreeFacts
<1>3. w <= j /\ \A k \in (w + 1)..j : up[k] >= w
  BY DEF Inside
<1>4. ASSUME NEW k \in (up[w] + 1)..j PROVE up[k] >= up[w]
  <2>1. k \in Items /\ up[k] \in Nat
    BY <1>1, <1>2, TreeFacts
  <2>2. CASE k <= w - 1
    BY <1>1, <1>2, <2>1, <2>2 DEF Inside
  <2>3. CASE k = w
    BY <1>1, <1>2, <2>3
  <2>4. CASE k > w
    BY <1>1, <1>2, <1>3, <2>1, <2>4
  <2> QED BY <1>1, <1>2, <2>1, <2>2, <2>3, <2>4
<1> QED BY <1>1, <1>2, <1>3, <1>4 DEF Inside

(* An item inside w's parent that comes after w is inside w, unless it     *)
(* comes at or after a later sibling of w.                                 *)
LEMMA InsideSibling ==
  ASSUME TypeOK, NEW w \in Items, w # 1, NEW j \in Items, w <= j,
         Inside(up[w], j), \A k \in Kids(up[w]) : k <= w \/ k > j
  PROVE  Inside(w, j)
<1>1. PICK n \in Nat : n >= 1 /\ Items = 1..n
  BY TreeFacts
<1>2. up[w] \in Items /\ up[w] < w
  BY <1>1, TreeFacts
<1>3. ASSUME NEW k \in (w + 1)..j, ~(up[k] >= w) PROVE FALSE
  <2>1. k \in Items /\ k > w /\ up[k] \in Nat
    BY <1>1, TreeFacts
  <2>2. up[k] >= up[w]
    BY <1>1, <1>2, <1>3, <2>1 DEF Inside
  <2>3. k \in Kids(up[w])
    BY <1>1, <1>3, <2>1, <2>2, HangsOnParent
  <2> QED BY <1>1, <1>3, <2>1, <2>3
<1> QED BY <1>3 DEF Inside

(* The first child of a group is the next item. *)
LEMMA FirstKid ==
  ASSUME TypeOK, NEW i \in Items, NEW j \in Kids(i), \A k \in Kids(i) : j <= k
  PROVE  j = i + 1
<1>1. PICK n \in Nat : n >= 1 /\ Items = 1..n
  BY TreeFacts
<1>2. j \in Items /\ up[j] = i
  BY DEF Kids
<1>3. j # 1
  BY <1>1, <1>2 DEF TypeOK, WellFormed
<1>4. i < j /\ Inside(i, j - 1)
  BY <1>2, <1>3, TreeFacts
<1>5. CASE i + 1 < j
  <2>1. i + 1 \in Items \ {1} /\ up[i + 1] >= i
    BY <1>1, <1>2, <1>4, <1>5 DEF Inside
  <2>2. up[i + 1] < i + 1 /\ up[i + 1] \in Nat
    BY <2>1, TreeFacts
  <2>3. i + 1 \in Kids(i)
    BY <1>1, <2>1, <2>2 DEF Kids
  <2> QED BY <1>1, <1>2, <1>5, <2>3
<1> QED BY <1>1, <1>2, <1>4, <1>5
(* Nothing is inside an item without children but the item itself. *)
LEMMA Childless ==
  ASSUME TypeOK, NEW i \in Items, Kids(i) = {}, NEW j \in Items, Inside(i, j)
  PROVE  j = i
<1>1. PICK n \in Nat : n >= 1 /\ Items = 1..n
  BY TreeFacts
<1>2. CASE i < j
  <2>1. i + 1 \in Items \ {1} /\ up[i + 1] >= i
    BY <1>1, <1>2 DEF Inside
  <2>2. up[i + 1] < i + 1 /\ up[i + 1] \in Nat
    BY <2>1, TreeFacts
  <2>3. i + 1 \in Kids(i)
    BY <1>1, <2>1, <2>2 DEF Kids
  <2> QED BY <2>3
<1> QED BY <1>1, <1>2 DEF Inside

(* Only groups have children. *)
LEMMA QuestionChildless ==
  ASSUME TypeOK, NEW i \in Questions
  PROVE  Kids(i) = {}
<1>1. ASSUME NEW j \in Kids(i) PROVE FALSE
  <2>1. j \in Items /\ up[j] = i /\ i \in Items /\ ~isGroup[i]
    BY DEF Kids, Questions
  <2>2. j # 1
    BY <2>1, TreeFacts DEF TypeOK, WellFormed
  <2> QED BY <2>1, <2>2, TreeFacts
<1> QED BY <1>1

-----------------------------------------------------------------------------
(* What each move of the walk leaves ahead of it. *)

(* The questions inside i and those beyond it. *)
From(i, back) == Beyond(i, back) \cup {j \in Questions : Inside(i, j)}

LEMMA FromForward ==
  ASSUME TypeOK, NEW i \in Items
  PROVE  From(i, FALSE) = {j \in Questions : j >= i}
<1>1. PICK n \in Nat : n >= 1 /\ Items = 1..n
  BY TreeFacts
<1>2. \A j \in Questions : j \in Items
  BY DEF Questions
<1>3. Inside(i, i)
  BY <1>1 DEF Inside
<1> QED BY <1>1, <1>2, <1>3 DEF From, Beyond, Inside

(* Climbing from a last (first) child leaves the same questions ahead. *)
LEMMA ClimbKeeps ==
  ASSUME TypeOK, NEW w \in Items, w # 1, NEW back \in BOOLEAN,
         Ahead(w, Direction(back)) = {}
  PROVE  Beyond(up[w], back) = Beyond(w, back)
<1>1. PICK n \in Nat : n >= 1 /\ Items = 1..n
  BY TreeFacts
<1> DEFINE p == up[w]
<1>2. p \in Items /\ p < w /\ Inside(p, w - 1) /\ isGroup[p] /\ w \in Kids(p)
  BY TreeFacts DEF Kids
<1>3. \A j \in Questions : j \in Items /\ j # p
  BY <1>2 DEF Questions
<1> HIDE DEF p
<1>4. CASE back
  <2>1. \A k \in Kids(up[w]) : w <= k
    BY <1>1, <1>4 DEF Ahead, Direction, Kids
  <2>2. w = p + 1
    BY <1>2, <2>1, FirstKid DEF p
  <2> QED BY <1>1, <1>2, <1>3, <1>4, <2>2 DEF Beyond, p
<1>5. CASE ~back
  <2>1. \A k \in Kids(up[w]) : k <= w
    BY <1>1, <1>5 DEF Ahead, Direction, Kids
  <2>2. ASSUME NEW j \in Questions, j > p, ~Inside(p, j)
        PROVE  j > w /\ ~Inside(w, j)
    <3>1. Inside(p, w)
      BY <1>1, <1>2 DEF Inside, p
    <3>2. j > w
      BY <1>1, <1>2, <1>3, <2>2, <3>1 DEF Inside
    <3> QED BY <1>3, <2>2, <3>2, InsideParent DEF p
  <2>3. ASSUME NEW j \in Questions, j > w, ~Inside(w, j)
        PROVE  j > p /\ ~Inside(p, j)
    <3>1. Inside(p, j) => Inside(w, j)
      BY <1>1, <1>3, <2>1, <2>3, InsideSibling DEF p
    <3> QED BY <1>1, <1>2, <1>3, <2>3, <3>1
  <2> QED BY <1>5, <2>2, <2>3 DEF Beyond, p
<1> QED BY <1>4, <1>5

(* Between an item and its nearest sibling there is nothing else. *)
LEMMA SiblingKeeps ==
  ASSUME TypeOK, NEW w \in Items, w # 1, NEW back \in BOOLEAN,
         NEW i \in Items, Nearest(i, Ahead(w, Direction(back)), back)
  PROVE  From(i, back) = Beyond(w, back)
<1>1. PICK n \in Nat : n >= 1 /\ Items = 1..n
  BY TreeFacts
<1> DEFINE p == up[w]
<1>2. p \in Items /\ p < w /\ Inside(p, w - 1)
  BY TreeFacts
<1>3. i \in Kids(p) /\ up[i] = p
  BY DEF Nearest, Ahead, Kids
<1>4. i # 1
  BY <1>2, <1>3, TreeFacts DEF TypeOK, WellFormed
<1>5. p < i /\ Inside(p, i - 1)
  BY <1>3, <1>4, TreeFacts
<1>6. \A j \in Questions : j \in Items
  BY DEF Questions
<1> HIDE DEF p
<1>7. CASE back
  <2>1. i < w /\ \A k \in Kids(p) : k <= i \/ k >= w
    BY <1>1, <1>7 DEF Nearest, Ahead, Direction, Kids, p
  <2>2. ASSUME NEW j \in Questions, j < w PROVE j < i \/ Inside(i, j)
    <3>1. CASE i <= j
      <4>1. Inside(p, j)
        BY <1>1, <1>2, <1>5, <1>6, <2>2, <3>1 DEF Inside
      <4>2. \A k \in Kids(up[i]) : k <= i \/ k > j
        BY <1>1, <1>3, <1>6, <2>1, <2>2 DEF Kids
      <4> QED BY <1>3, <1>4, <1>6, <3>1, <4>1, <4>2, InsideSibling
    <3> QED BY <1>1, <1>6, <3>1
  <2>3. ASSUME NEW j \in Questions, Inside(i, j) PROVE j < w
    <3>1. ~(w <= j)
      BY <1>1, <1>2, <1>5, <1>6, <2>1, <2>3 DEF Inside, p
    <3> QED BY <1>1, <1>6, <3>1
  <2> QED BY <1>1, <1>6, <1>7, <2>1, <2>2, <2>3 DEF From, Beyond
<1>8. CASE ~back
  <2>1. i > w /\ \A k \in Kids(p) : k <= w \/ k >= i
    BY <1>1, <1>8 DEF Nearest, Ahead, Direction, Kids, p
  <2>2. ASSUME NEW j \in Questions, j > w, ~Inside(w, j) PROVE j >= i
    <3>1. CASE j < i
      <4>1. Inside(p, j)
        BY <1>1, <1>2, <1>5, <1>6, <2>2, <3>1 DEF Inside
      <4>2. \A k \in Kids(up[w]) : k <= w \/ k > j
        BY <1>1, <1>6, <2>1, <3>1 DEF Kids, p
      <4> QED BY <1>1, <1>6, <2>2, <4>1, <4>2, InsideSibling DEF p
    <3> QED BY <1>1, <1>6, <3>1
  <2>3. ASSUME NEW j \in Questions, j >= i PROVE j > w /\ ~Inside(w, j)
    BY <1>1, <1>2, <1>3, <1>6, <2>1, <2>3 DEF Inside
  <2>4. From(i, back) = {j \in Questions : j >= i}
    BY <1>8, FromForward
  <2> QED BY <1>8, <2>2, <2>3, <2>4 DEF Beyond
<1> QED BY <1>7, <1>8

(* A group is entered by the child next to the walk. *)
LEMMA EnterKeeps ==
  ASSUME TypeOK, NEW i \in Items, NEW back \in BOOLEAN,
         NEW j \in Items, Nearest(j, Kids(i), back)
  PROVE  From(j, back) = From(i, back)
<1>1. PICK n \in Nat : n >= 1 /\ Items = 1..n
  BY TreeFacts
<1>2. j \in Kids(i) /\ up[j] = i
  BY DEF Nearest, Kids
<1>3. j # 1
  BY <1>1, <1>2 DEF TypeOK, WellFormed
<1>4. i < j /\ Inside(i, j - 1) /\ isGroup[i]
  BY <1>2, <1>3, TreeFacts
<1>5. \A q \in Questions : q \in Items /\ q # i
  BY <1>4 DEF Questions
<1>6. CASE back
  <2>1. \A k \in Kids(up[j]) : k <= j
    BY <1>2, <1>6 DEF Nearest
  <2>2. ASSUME NEW q \in Questions, q < i \/ Inside(i, q)
        PROVE  q < j \/ Inside(j, q)
    <3>1. CASE q < i
      BY <1>1, <1>4, <1>5, <3>1
    <3>2. CASE Inside(i, q) /\ j <= q
      BY <1>1, <1>2, <1>3, <1>5, <2>1, <3>2, InsideSibling
    <3> QED BY <1>1, <1>5, <2>2, <3>1, <3>2
  <2>3. ASSUME NEW q \in Questions, q < j \/ Inside(j, q)
        PROVE  q < i \/ Inside(i, q)
    <3>1. CASE Inside(j, q)
      BY <1>2, <1>3, <1>5, <3>1, InsideParent
    <3>2. CASE q < j /\ i <= q
      BY <1>1, <1>4, <1>5, <3>2 DEF Inside
    <3> QED BY <1>1, <1>5, <2>3, <3>1, <3>2
  <2> QED BY <1>6, <2>2, <2>3 DEF From, Beyond
<1>7. CASE ~back
  <2>1. \A k \in Kids(i) : j <= k
    BY <1>7 DEF Nearest
  <2>2. j = i + 1
    BY <1>2, <2>1, FirstKid
  <2>3. /\ From(i, back) = {q \in Questions : q >= i}
        /\ From(j, back) = {q \in Questions : q >= j}
    BY <1>7, FromForward
  <2> QED BY <1>1, <1>5, <2>2, <2>3
<1> QED BY <1>6, <1>7

(* An item without children is passed. *)
LEMMA PassKeeps ==
  ASSUME TypeOK, NEW i \in Items, isGroup[i], Kids(i) = {}, NEW back
  PROVE  Beyond(i, back) = From(i, back)
<1>1. \A j \in Questions : j \in Items /\ j # i
  BY DEF Questions
<1>2. \A j \in Questions : ~Inside(i, j)
  BY <1>1, Childless
<1> QED BY <1>2 DEF From

(* A question is the first of the questions from it on. *)
LEMMA QuestionFirst ==
  ASSUME TypeOK, NEW i \in Questions, NEW back \in BOOLEAN
  PROVE  Nearest(i, From(i, back), back)
<1>1. PICK n \in Nat : n >= 1 /\ Items = 1..n
  BY TreeFacts
<1>2. \A j \in Questions : j \in Items
  BY DEF Questions
<1>3. i \in Items /\ Inside(i, i)
  BY <1>1, <1>2 DEF Inside
<1>4. \A j \in Questions : Inside(i, j) => j = i
  BY <1>2, Childless, QuestionChildless
<1> QED BY <1>1, <1>2, <1>3, <1>4 DEF Nearest, From, Beyond

-----------------------------------------------------------------------------
(* The inductive invariant: the types, and what is ahead of the walk.  The *)
(* second says where the walk ends; the first gives the numbering on which *)
(* every step of the second relies.                                        *)
Inv == TypeOK /\ KeepsTarget

(* In the loop, an item looked at for itself stands for all inside it. *)
LEMMA RemainingIs ==
  Remaining = IF walk.val = "same" THEN From(walk.item, walk.back)
              ELSE Beyond(walk.item, walk.back)
  BY DEF Remaining, From

(* The sibling the walk goes to has all remaining questions from it on. *)
LEMMA SiblingRemains ==
  ASSUME Inv, walk.on, walk.item # 1, NEW i \in Ahead(walk.item, walk.val),
         Nearest(i, Ahead(walk.item, walk.val), walk.back)
  PROVE  i \in Items /\ From(i, walk.back) = Beyond(current, walk.back)
<1>1. i \in Items /\ walk.item \in Items /\ walk.back \in BOOLEAN
  BY DEF Ahead, Kids, Inv, TypeOK
<1>2. Remaining = Beyond(current, walk.back)
  BY DEF Inv, KeepsTarget
<1>3. CASE walk.val = "same"
  <2>1. i = walk.item
    BY <1>3 DEF Ahead
  <2> QED BY <1>1, <1>2, <1>3, <2>1, RemainingIs
<1>4. CASE walk.val # "same"
  <2>1. From(i, walk.back) = Beyond(walk.item, walk.back)
    BY <1>1, <1>4, SiblingKeeps DEF Inv, TypeOK
  <2> QED BY <1>1, <1>2, <1>4, <2>1, RemainingIs
<1> QED BY <1>3, <1>4

(* A question the walk comes to is the nearest of those it started out to. *)
LEMMA FoundIsNearest ==
  ASSUME Inv, walk.on, NEW q \in Questions,
         From(q, walk.back) = Beyond(current, walk.back)
  PROVE  Nearest(q, Beyond(current, walk.back), walk.back)
  BY QuestionFirst DEF Inv, TypeOK

(* The three ways a turn goes on keep what is ahead. *)
LEMMA GoOnKeeps ==
  ASSUME Inv, walk.on, NEW i \in Items, NEW val \in {"last", "same", "next"},
         GoOn(i, val), UNCHANGED tree, val \in {"same", Direction(walk.back)},
         i = 1 => val # "same",
         (IF val = "same" THEN From(i, walk.back) ELSE Beyond(i, walk.back))
           = Beyond(current, walk.back)
  PROVE  Inv'
<1>1. UNCHANGED <<up, isGroup, current, question, answer>>
  BY DEF GoOn, tree
<1>2. walk' = [walk EXCEPT !.item = i, !.val = val]
  BY DEF GoOn
<1>3. /\ walk'.on /\ walk'.item = i /\ walk'.val = val
      /\ walk'.back = walk.back
  BY <1>2 DEF Inv, TypeOK
<1>4. TypeOK'
  BY <1>1, <1>2, <1>3
    DEF Inv, TypeOK, WellFormed, Inside, Items, Questions, Direction
<1>5. KeepsTarget'
  BY <1>1, <1>3 DEF KeepsTarget, Remaining, Beyond, From, Questions, Items, Inside
<1> QED BY <1>4, <1>5 DEF Inv

(* A turn that ends the walk. *)
LEMMA FoundEnds ==
  ASSUME Inv, NEW i \in Questions, Found(i), UNCHANGED tree
  PROVE  Inv'
<1>1. i \in Items
  BY DEF Questions
<1>2. walk' = NoWalk /\ ~NoWalk.on
  BY DEF Found, NoWalk
<1>3. TypeOK'
  BY <1>1, <1>2 DEF Found, tree, NoWalk, Inv, TypeOK, WellFormed, Inside, Items,
                    Questions, Direction
<1> QED BY <1>2, <1>3 DEF Inv, KeepsTarget

(* What one visit of the next sibling may come to. *)
LEMMA EnterCases ==
  ASSUME Inv, Enter
  PROVE  \/ \E q \in Questions :
              Found(q) /\ From(q, walk.back) = Beyond(current, walk.back)
         \/ \E i \in Items : \E val \in {"same", Direction(walk.back)} :
              /\ GoOn(i, val) /\ (i = 1 => val # "same")
              /\ (IF val = "same" THEN From(i, walk.back)
                  ELSE Beyond(i, walk.back)) = Beyond(current, walk.back)
<1>1. PICK i \in Ahead(walk.item, walk.val) :
        Nearest(i, Ahead(walk.item, walk.val), walk.back) /\ Visit(i)
  BY DEF Enter
<1>2. i \in Items /\ From(i, walk.back) = Beyond(current, walk.back)
  BY <1>1, SiblingRemains DEF Enter
<1>3. CASE ~isGroup[i] /\ Found(i)
  BY <1>2, <1>3 DEF Questions
<1>4. CASE isGroup[i] /\ Kids(i) = {} /\ GoOn(i, walk.val)
  <2>1. Beyond(i, walk.back) = From(i, walk.back)
    BY <1>2, <1>4, PassKeeps DEF Inv
  <2>2. walk.val \in {"same", Direction(walk.back)}
    BY DEF Enter, Inv, TypeOK
  <2>3. i = 1 => walk.val # "same"
    BY <1>1 DEF Enter, Ahead
  <2> QED BY <1>2, <1>4, <2>1, <2>2, <2>3
<1>5. ASSUME NEW j \in Kids(i), Nearest(j, Kids(i), walk.back),
             IF isGroup[j] THEN GoOn(j, "same") ELSE Found(j)
      PROVE  \/ \E q \in Questions :
                  Found(q) /\ From(q, walk.back) = Beyond(current, walk.back)
             \/ \E k \in Items :
                  /\ GoOn(k, "same") /\ k # 1
                  /\ From(k, walk.back) = Beyond(current, walk.back)
  <2>1. j \in Items /\ j # 1
    BY <1>2, TreeFacts DEF Kids, Inv, TypeOK, WellFormed
  <2>2. From(j, walk.back) = Beyond(current, walk.back)
    BY <1>2, <1>5, <2>1, EnterKeeps DEF Inv, TypeOK
  <2> QED BY <1>5, <2>1, <2>2 DEF Questions
<1> QED BY <1>1, <1>3, <1>4, <1>5 DEF Visit

-----------------------------------------------------------------------------
LEMMA InitInv == Init => Inv
<1> SUFFICES ASSUME Init PROVE Inv
  OBVIOUS
<1>1. 1 \in Items
  BY MaxItemsAssumption DEF Init, Items
<1>2. TypeOK
  BY <1>1 DEF Init, TypeOK, NoWalk
<1>3. KeepsTarget
  BY DEF Init, KeepsTarget, NoWalk
<1> QED BY <1>2, <1>3 DEF Inv

(* What the user does between walks. *)
LEMMA UserInv ==
  ASSUME Inv, UNCHANGED tree, ~walk.on,
         NEW i \in Items, LeftClick(i) \/ Select(i) \/ ShowAnswer
  PROVE  Inv'
<1>1. UNCHANGED <<up, isGroup, walk>>
  BY DEF LeftClick, Select, ShowAnswer, tree
<1>2. /\ current' \in Items \cup {0}
      /\ {question', answer'} \subseteq Questions \cup {0, Gone}
  BY DEF LeftClick, Select, ShowAnswer, Inv, TypeOK, Questions
<1>3. TypeOK'
  BY <1>1, <1>2
    DEF Inv, TypeOK, WellFormed, Inside, Items, Questions, Direction
<1> QED BY <1>1, <1>3 DEF Inv, KeepsTarget

LEMMA PressInv ==
  ASSUME Inv, NEW back \in BOOLEAN, Press(back)
  PROVE  Inv'
<1>1. UNCHANGED <<up, isGroup, current, question, answer>> /\ current # 0
  BY DEF Press, Idle, tree
<1>2. walk' = [on |-> TRUE, item |-> current, val |-> Direction(back), back |-> back]
  BY DEF Press
<1>3. current \in Items
  BY <1>1 DEF Inv, TypeOK
<1>4. Direction(back) \in {"last", "next"}
  BY DEF Direction
<1>5. TypeOK'
  BY <1>1, <1>2, <1>3, <1>4
    DEF Inv, TypeOK, WellFormed, Inside, Items, Questions, Direction
<1>6. KeepsTarget'
  BY <1>1, <1>2, <1>4 DEF KeepsTarget, Remaining, Beyond, Questions, Items, Inside
<1> QED BY <1>5, <1>6 DEF Inv

LEMMA ClimbInv ==
  ASSUME Inv, Climb
  PROVE  Inv'
<1> DEFINE w == walk.item
<1>1. /\ w \in Items /\ w # 1 /\ walk.back \in BOOLEAN
      /\ Ahead(w, walk.val) = {} /\ walk.on
      /\ UNCHANGED tree /\ GoOn(up[w], Direction(walk.back))
  BY DEF Climb, Inv, TypeOK
<1>2. walk.val = Direction(walk.back)
  <2>1. walk.val = "same" => w \in Ahead(w, walk.val)
    BY <1>1 DEF Ahead, Kids
  <2> QED BY <1>1, <2>1 DEF Inv, TypeOK
<1>3. Direction(walk.back) \in {"last", "next"}
  BY DEF Direction
<1>4. Beyond(up[w], walk.back) = Beyond(current, walk.back)
  <2>1. Beyond(up[w], walk.back) = Beyond(w, walk.back)
    BY <1>1, <1>2, ClimbKeeps DEF Inv
  <2> QED BY <1>1, <1>2, <1>3, <2>1, RemainingIs DEF Inv, KeepsTarget
<1>5. up[w] \in Items
  BY <1>1, TreeFacts DEF Inv
<1> QED BY <1>1, <1>3, <1>4, <1>5, GoOnKeeps

LEMMA NextInv == Inv /\ [Next]_vars => Inv'
<1> SUFFICES ASSUME Inv, [Next]_vars PROVE Inv'
  OBVIOUS
<1>1. ASSUME NEW i \in Items, LeftClick(i) \/ Select(i) \/ ShowAnswer PROVE Inv'
  BY <1>1, UserInv DEF LeftClick, Select, ShowAnswer, Idle
<1>2. ASSUME ShowAnswer PROVE Inv'
  BY <1>2, <1>1 DEF ShowAnswer, Inv, TypeOK
<1>3. ASSUME NEW back \in BOOLEAN, Press(back) PROVE Inv'
  BY <1>3, PressInv
<1>4. CASE NotFound
  <2>1. UNCHANGED <<up, isGroup, current, question, answer>> /\ walk' = NoWalk
    BY <1>4 DEF NotFound
  <2>2. 1 \in Items
    BY <1>4 DEF NotFound, Inv, TypeOK
  <2>3. TypeOK'
    BY <2>1, <2>2 DEF NoWalk, Inv, TypeOK, WellFormed, Inside, Items, Questions,
                      Direction
  <2> QED BY <2>1, <2>3 DEF Inv, KeepsTarget, NoWalk
<1>5. CASE Climb
  BY <1>5, ClimbInv
<1>6. CASE Enter
  <2>1. walk.on /\ UNCHANGED tree
    BY <1>6 DEF Enter
  <2>2. ASSUME NEW q \in Questions, Found(q) PROVE Inv'
    BY <2>1, <2>2, FoundEnds
  <2>3. ASSUME NEW i \in Items, NEW val \in {"same", Direction(walk.back)},
               GoOn(i, val), i = 1 => val # "same",
               (IF val = "same" THEN From(i, walk.back)
                ELSE Beyond(i, walk.back)) = Beyond(current, walk.back)
        PROVE  Inv'
    <3>1. val \in {"last", "same", "next"}
      BY DEF Direction
    <3> QED BY <2>1, <2>3, <3>1, GoOnKeeps
  <2> QED BY <1>6, <2>2, <2>3, EnterCases
<1>7. CASE UNCHANGED vars
  BY <1>7 DEF vars, Inv, TypeOK, KeepsTarget, Remaining, Beyond, WellFormed,
              Inside, Items, Questions, Direction
<1> QED BY <1>1, <1>2, <1>3, <1>4, <1>5, <1>6, <1>7 DEF Next, Turn

(* The tree stays a tree and the walk stays on its items. *)
THEOREM TypeCorrect == Spec => []TypeOK
<1>1. Inv => TypeOK
  BY DEF Inv
<1> QED BY InitInv, NextInv, <1>1, PTL DEF Spec

(* No turn of findTreeWidgetItem's loop passes a question or goes back to  *)
(* one, in a tree of any size and shape.                                   *)
THEOREM WalkKeepsTarget == Spec => []KeepsTarget
<1>1. Inv => KeepsTarget
  BY DEF Inv
<1> QED BY InitInv, NextInv, <1>1, PTL DEF Spec

(* The top-level item has every item inside it and none before it. *)
LEMMA TopIsLast ==
  ASSUME Inv, NotFound
  PROVE  Beyond(current, walk.back) = {}
<1>1. PICK n \in Nat : n >= 1 /\ Items = 1..n
  BY TreeFacts DEF Inv
<1>2. \A j \in Items : j >= 1 /\ Inside(1, j)
  <2>1. \A k \in Items \ {1} : up[k] >= 1
    BY <1>1, TreeFacts DEF Inv
  <2> QED BY <1>1, <2>1 DEF Inside
<1>3. \A j \in Questions : j \in Items
  BY DEF Questions
<1>4. Beyond(1, walk.back) = {}
  BY <1>1, <1>2, <1>3 DEF Beyond
<1>5. walk.val # "same"
  BY DEF NotFound, Inv, TypeOK
<1> QED BY <1>4, <1>5, RemainingIs DEF NotFound, Inv, KeepsTarget

(* The step in which the walk ends, whatever ended it. *)
LEMMA EndFinds ==
  ASSUME Inv, Next, walk.on, ~walk'.on
  PROVE  IF Beyond(current, walk.back) = {}
         THEN UNCHANGED <<current, question, answer>>
         ELSE /\ Nearest(current', Beyond(current, walk.back), walk.back)
              /\ question' = current' /\ answer' = 0
<1>1. NotFound \/ Climb \/ Enter
  BY DEF Next, Turn, LeftClick, Select, ShowAnswer, Press, Idle
<1>2. CASE NotFound
  BY <1>2, TopIsLast DEF NotFound
<1>3. ASSUME NEW i, NEW val, GoOn(i, val) PROVE FALSE
  BY <1>3 DEF GoOn, Inv, TypeOK
<1>4. CASE Climb
  BY <1>3, <1>4 DEF Climb
<1>5. ASSUME NEW q \in Questions, Found(q),
             From(q, walk.back) = Beyond(current, walk.back)
      PROVE  /\ Nearest(current', Beyond(current, walk.back), walk.back)
             /\ question' = current' /\ answer' = 0
  BY <1>5, FoundIsNearest DEF Found
<1>6. CASE Enter
  <2>1. PICK q \in Questions :
          Found(q) /\ From(q, walk.back) = Beyond(current, walk.back)
    BY <1>3, <1>6, EnterCases
  <2>2. Beyond(current, walk.back) # {}
    BY <1>5, <2>1 DEF Nearest
  <2> QED BY <1>5, <2>1, <2>2
<1> QED BY <1>1, <1>2, <1>4, <1>6

(* What a button heads for, in the order shown: nothing is inside a        *)
(* question but itself, so that only the next button on a group leaves     *)
(* questions of that order out, those in the group.                        *)
LEMMA BeyondInOrder ==
  ASSUME TypeOK, NEW i \in Items, NEW back \in BOOLEAN
  PROVE  /\ back \/ ~isGroup[i] => Beyond(i, back) = InOrder(i, back)
         /\ Beyond(i, FALSE) = {j \in InOrder(i, FALSE) : ~Inside(i, j)}
<1>1. Beyond(i, TRUE) = InOrder(i, TRUE)
  BY DEF Beyond, InOrder
<1>2. Beyond(i, FALSE) = {j \in InOrder(i, FALSE) : ~Inside(i, j)}
  BY DEF Beyond, InOrder
<1>3. ASSUME ~isGroup[i] PROVE Beyond(i, FALSE) = InOrder(i, FALSE)
  <2>1. i \in Questions /\ Kids(i) = {}
    BY <1>3, QuestionChildless DEF Questions
  <2>2. PICK n \in Nat : Items = 1..n
    BY TreeFacts
  <2>3. ASSUME NEW j \in Questions, j > i PROVE ~Inside(i, j)
    <3>1. j \in Items /\ j # i
      BY <2>2, <2>3 DEF Questions
    <3> QED BY <2>1, <3>1, Childless
  <2> QED BY <2>3 DEF Beyond, InOrder
<1> QED BY <1>1, <1>2, <1>3

(* The end of a walk in the order shown. *)
LEMMA EndFindsInOrder ==
  ASSUME Inv, Next, walk.on, ~walk'.on
  PROVE  /\ walk.back \/ ~isGroup[current]
              => GoesToNearest(InOrder(current, walk.back))
         /\ ~walk.back /\ isGroup[current]
              => GoesToNearest({j \in InOrder(current, FALSE) : ~Inside(current, j)})
<1>1. GoesToNearest(Beyond(current, walk.back))
  BY EndFinds DEF GoesToNearest
<1>2. TypeOK /\ current \in Items /\ walk.back \in BOOLEAN
  BY DEF Inv, TypeOK
<1>3. ASSUME walk.back \/ ~isGroup[current]
      PROVE  GoesToNearest(InOrder(current, walk.back))
  <2>1. Beyond(current, walk.back) = InOrder(current, walk.back)
    BY <1>2, <1>3, BeyondInOrder
  <2> QED BY <1>1, <2>1
<1>4. ASSUME ~walk.back
      PROVE  GoesToNearest({j \in InOrder(current, FALSE) : ~Inside(current, j)})
  <2>1. walk.back = FALSE
    BY <1>2, <1>4
  <2>2. Beyond(current, walk.back) = {j \in InOrder(current, FALSE) : ~Inside(current, j)}
    BY <1>2, <2>1, BeyondInOrder
  <2> QED BY <1>1, <2>2
<1> QED BY <1>3, <1>4

(* From a question the two buttons take the user to the nearest question   *)
(* on that side, and so does going back from a group; they take the user   *)
(* to none only when there is none: in a tree of any size and shape.       *)
THEOREM FindsNearestQuestion == Spec => FindsNeighbour
<1>1. Inv /\ [Next]_vars =>
        [walk.on /\ ~walk'.on /\ (walk.back \/ ~isGroup[current]) =>
           GoesToNearest(InOrder(current, walk.back))]_vars
  BY EndFindsInOrder
<1> QED BY InitInv, NextInv, <1>1, PTL DEF Spec, FindsNeighbour

-----------------------------------------------------------------------------
(* A group's items are a run of numbers: all that come after it hang from  *)
(* a group before it or from one after the run.                            *)
LEMMA RunFacts ==
  ASSUME TypeOK, NEW c \in Items, NEW size \in Items, NEW last \in Items,
         EndsAt(1, size), EndsAt(c, last)
  PROVE  /\ size \in Nat /\ Items = 1..size
         /\ c \in 1..last
         /\ \A k \in (c + 1)..last : up[k] >= c
         /\ \A k \in (last + 1)..size : up[k] < c \/ up[k] > last
<1>1. PICK n \in Nat : n >= 1 /\ Items = 1..n
  BY TreeFacts
<1>2. \A k \in Items : up[k] \in Nat
  BY TreeFacts
<1>3. \A k \in Items \ {1} : up[k] >= 1
  BY <1>1, TreeFacts
<1>4. \A j \in Items : Inside(1, j)
  BY <1>1, <1>3 DEF Inside
<1>5. size = n
  BY <1>1, <1>4 DEF EndsAt
<1>6. c \in 1..last /\ \A k \in (c + 1)..last : up[k] >= c
  BY <1>1 DEF EndsAt, Inside
<1>7. ASSUME NEW k \in (last + 1)..size, ~(up[k] < c), ~(up[k] > last)
      PROVE  FALSE
  <2>1. last + 1 \in Items /\ k \in Items \ {1}
    BY <1>1, <1>5, <1>6
  <2>2. up[last + 1] < c
    <3>1. ~Inside(c, last + 1)
      BY <2>1 DEF EndsAt
    <3>2. PICK j \in (c + 1)..(last + 1) : ~(up[j] >= c)
      BY <1>1, <1>6, <3>1 DEF Inside
    <3>3. j = last + 1
      BY <1>1, <1>6, <3>2
    <3> QED BY <1>1, <1>2, <2>1, <3>2, <3>3
  <2>3. k # last + 1
    BY <1>1, <1>7, <2>2
  <2>4. Inside(up[k], k - 1)
    BY <2>1, TreeFacts
  <2>5. last + 1 \in (up[k] + 1)..(k - 1)
    BY <1>1, <1>2, <1>5, <1>7, <2>1, <2>3
  <2>6. up[last + 1] >= up[k]
    BY <2>4, <2>5 DEF Inside
  <2> QED BY <1>1, <1>2, <1>7, <2>1, <2>2, <2>6
<1> QED BY <1>1, <1>5, <1>6, <1>7

(* The tree, spelt out for a known number of items. *)
LEMMA TreeSpelt ==
  ASSUME TypeOK, NEW size \in Nat, Items = 1..size
  PROVE  /\ \A k \in 1..size : up[k] \in Nat /\ up[k] < size
         /\ \A k \in 2..size : up[k] \in 1..(k - 1) /\ isGroup[up[k]]
         /\ \A k \in 2..size : \A j \in (up[k] + 1)..(k - 1) : up[j] >= up[k]
         /\ up[1] = 0 /\ isGroup[1] /\ size >= 1
         /\ isGroup \in [1..size -> BOOLEAN]
<1>1. size >= 1
  <2>1. PICK n \in Nat : n >= 1 /\ Items = 1..n
    BY TreeFacts
  <2>2. 1 \in 1..size
    BY <2>1
  <2> QED BY <2>2
<1>2. \A k \in 1..size : up[k] \in Nat /\ up[k] < size
  <2>1. PICK n \in Nat : n >= 1 /\ Items = 1..n /\ \A k \in Items : up[k] < n
    BY TreeFacts
  <2>2. n \in 1..size /\ size \in 1..n
    BY <1>1, <2>1
  <2>3. n = size
    BY <2>1, <2>2
  <2> QED BY <2>1, <2>3, TreeFacts
<1>3. ASSUME NEW k \in 2..size
      PROVE  /\ up[k] \in 1..(k - 1) /\ isGroup[up[k]]
             /\ \A j \in (up[k] + 1)..(k - 1) : up[j] >= up[k]
  <2>1. k \in Items \ {1}
    BY <1>1
  <2>2. up[k] \in Items /\ up[k] < k /\ isGroup[up[k]] /\ Inside(up[k], k - 1)
    BY <2>1, TreeFacts
  <2> QED BY <2>2 DEF Inside
<1> QED BY <1>1, <1>2, <1>3 DEF TypeOK, WellFormed

(* The same after a step, put together. *)
LEMMA TreeBuilt ==
  ASSUME NEW m \in Nat, m >= 1, up' \in [1..m -> 0..(m - 1)],
         up'[1] = 0, isGroup'[1],
         \A i \in 2..m : up'[i] \in 1..(i - 1) /\ isGroup'[up'[i]],
         \A i \in 2..m : \A k \in (up'[i] + 1)..(i - 1) : up'[k] >= up'[i]
  PROVE  WellFormed'
<1>1. Items' = 1..m
  BY DEF Items
<1>2. ASSUME NEW i \in Items' \ {1}
      PROVE  up'[i] \in Items' /\ isGroup'[up'[i]] /\ Inside(up[i], i - 1)'
  <2>1. i \in 2..m
    BY <1>1
  <2> QED BY <1>1, <2>1 DEF Inside
<1> QED BY <1>2 DEF WellFormed

(* What a walk that is over leaves behind, and what the boxes show while   *)
(* the current item is the one they were filled from.                      *)
EditInv ==
  /\ Inv
  /\ ~walk.on => walk = NoWalk
  /\ ~strayed /\ current # 0 /\ ~isGroup[current] => question = current
  /\ AnswerFollows

(* An edit that keeps the tree keeps the rest of TypeOK and KeepsTarget. *)
LEMMA EditKeepsInv ==
  ASSUME Inv, walk = NoWalk, UNCHANGED walk,
         NEW n \in 1..MaxItems, up' \in [1..n -> 0..(n - 1)],
         isGroup' \in [1..n -> BOOLEAN], WellFormed', current' \in 1..n,
         {question', answer'} \subseteq Questions' \cup {0, Gone}
  PROVE  Inv'
<1>1. Items' = 1..n /\ 1 \in Items'
  BY MaxItemsAssumption DEF Items
<1>2. walk' = NoWalk /\ ~NoWalk.on
  BY DEF NoWalk
<1>3. TypeOK'
  BY <1>1, <1>2 DEF TypeOK, NoWalk
<1>4. KeepsTarget'
  BY <1>2 DEF KeepsTarget
<1> QED BY <1>3, <1>4 DEF Inv

-----------------------------------------------------------------------------
(* A new last child of the current group, after all that hangs from it. *)
LEMMA AddItemInv ==
  ASSUME EditInv, NEW group \in BOOLEAN, AddItem(group)
  PROVE  EditInv'
<1> DEFINE c == current
<1>1. /\ ~walk.on /\ walk = NoWalk /\ UNCHANGED <<current, walk, strayed>>
      /\ c \in Items /\ isGroup[c] /\ TypeOK /\ Inv
  BY DEF AddItem, EditInv, Inv, TypeOK
<1>2. PICK size \in Items, last \in Items :
        /\ EndsAt(1, size) /\ EndsAt(c, last) /\ size < MaxItems
        /\ up' = [i \in 1..(size + 1) |->
                    IF i = last + 1 THEN c
                    ELSE LET o == IF i < last + 1 THEN i ELSE i - 1
                         IN IF up[o] < last + 1 THEN up[o] ELSE up[o] + 1]
        /\ isGroup' = [i \in 1..(size + 1) |->
                         IF i = last + 1 THEN group
                         ELSE isGroup[IF i < last + 1 THEN i ELSE i - 1]]
        /\ question' = IF question \in Items
                       THEN IF question < last + 1 THEN question ELSE question + 1
                       ELSE question
        /\ answer' = IF answer \in Items
                     THEN IF answer < last + 1 THEN answer ELSE answer + 1
                     ELSE answer
  BY DEF AddItem, Renumber
<1>3. /\ size \in Nat /\ Items = 1..size
      /\ c \in 1..last /\ last \in 1..size
      /\ \A k \in (c + 1)..last : up[k] >= c
      /\ \A k \in (last + 1)..size : up[k] < c \/ up[k] > last
  BY <1>1, <1>2, RunFacts
<1>4. /\ \A k \in 1..size : up[k] \in Nat /\ up[k] < size
      /\ \A k \in 2..size : up[k] \in 1..(k - 1) /\ isGroup[up[k]]
      /\ \A k \in 2..size : \A j \in (up[k] + 1)..(k - 1) : up[j] >= up[k]
      /\ up[1] = 0 /\ isGroup[1]
      /\ isGroup \in [1..size -> BOOLEAN]
  BY <1>1, <1>3, TreeSpelt
<1>5. /\ \A i \in 1..last : up'[i] = up[i] /\ isGroup'[i] = isGroup[i]
      /\ up'[last + 1] = c /\ isGroup'[last + 1] = group
      /\ \A i \in (last + 2)..(size + 1) :
           /\ up'[i] = IF up[i - 1] <= last THEN up[i - 1] ELSE up[i - 1] + 1
           /\ isGroup'[i] = isGroup[i - 1]
  <2>1. ASSUME NEW i \in 1..last
        PROVE  up'[i] = up[i] /\ isGroup'[i] = isGroup[i]
    <3>1. up[i] < last + 1 /\ i \in 1..(size + 1) /\ i # last + 1 /\ i < last + 1
      BY <1>3, <1>4
    <3> QED BY <1>2, <3>1
  <2>2. up'[last + 1] = c /\ isGroup'[last + 1] = group
    BY <1>2, <1>3
  <2>3. ASSUME NEW i \in (last + 2)..(size + 1)
        PROVE  /\ up'[i] = IF up[i - 1] <= last THEN up[i - 1] ELSE up[i - 1] + 1
               /\ isGroup'[i] = isGroup[i - 1]
    <3>1. /\ i \in 1..(size + 1) /\ i # last + 1 /\ ~(i < last + 1)
          /\ i - 1 \in 1..size /\ up[i - 1] \in Nat
      BY <1>3, <1>4
    <3>2. up[i - 1] < last + 1 <=> up[i - 1] <= last
      BY <1>3, <3>1
    <3> QED BY <1>2, <3>1, <3>2
  <2> QED BY <2>1, <2>2, <2>3
<1>6. up' \in [1..(size + 1) -> 0..size] /\ Items' = 1..(size + 1)
  <2>1. DOMAIN up' = 1..(size + 1) /\ up' = [i \in 1..(size + 1) |-> up'[i]]
    BY <1>2
  <2>2. ASSUME NEW i \in 1..(size + 1) PROVE up'[i] \in 0..size
    <3>1. CASE i <= last
      BY <1>3, <1>4, <1>5, <3>1
    <3>2. CASE i = last + 1
      BY <1>3, <1>5, <3>2
    <3>3. CASE i > last + 1
      <4>1. i \in (last + 2)..(size + 1) /\ i - 1 \in 1..size
        BY <1>3, <3>3
      <4>2. up[i - 1] \in Nat /\ up[i - 1] < size
        BY <1>4, <4>1
      <4> QED BY <1>3, <1>5, <4>1, <4>2
    <3> QED BY <1>3, <3>1, <3>2, <3>3
  <2> QED BY <2>1, <2>2 DEF Items
<1>7. isGroup' \in [1..(size + 1) -> BOOLEAN]
  BY <1>2, <1>3, <1>4
<1>8. ASSUME NEW i \in 2..(size + 1)
      PROVE  /\ up'[i] \in 1..(i - 1) /\ isGroup'[up'[i]]
             /\ \A k \in (up'[i] + 1)..(i - 1) : up'[k] >= up'[i]
  <2>1. CASE i <= last
    <3>1. i \in 2..size /\ i \in 1..last
      BY <1>3, <2>1
    <3>2. up[i] \in 1..(i - 1) /\ up[i] \in 1..last
      BY <1>3, <1>4, <3>1
    <3>3. \A k \in (up[i] + 1)..(i - 1) : k \in 1..last
      BY <1>3, <3>1, <3>2
    <3> QED BY <1>4, <1>5, <3>1, <3>2, <3>3
  <2>2. CASE i = last + 1
    <3>1. up'[i] = c /\ c \in 1..(i - 1)
      BY <1>3, <1>5, <2>2
    <3>2. \A k \in (c + 1)..(i - 1) : up'[k] >= c
      BY <1>3, <1>5, <2>2
    <3> QED BY <1>1, <1>3, <1>5, <3>1, <3>2
  <2>3. CASE i > last + 1 /\ up[i - 1] <= last
    <3> DEFINE p == up[i - 1]
    <3>1. i - 1 \in (last + 1)..size /\ p < c
      BY <1>3, <1>4, <2>3
    <3>2. up'[i] = p /\ p \in 1..last /\ p < i /\ isGroup[p]
      BY <1>3, <1>4, <1>5, <2>3, <3>1
    <3>3. ASSUME NEW k \in (p + 1)..(i - 1) PROVE up'[k] >= p
      <4>1. CASE k <= last
        BY <1>3, <1>4, <1>5, <3>1, <3>2, <4>1
      <4>2. CASE k = last + 1
        BY <1>3, <1>5, <3>1, <3>2, <4>2
      <4>3. CASE k > last + 1
        <5>1. k - 1 \in (p + 1)..(i - 2) /\ k - 1 \in 1..size
          BY <1>3, <3>1, <3>2, <4>3
        <5>2. up[k - 1] >= p /\ up[k - 1] \in Nat
          BY <1>3, <1>4, <3>1, <3>2, <5>1
        <5> QED BY <1>3, <1>5, <3>1, <3>2, <4>3, <5>1, <5>2
      <4> QED BY <1>3, <3>2, <4>1, <4>2, <4>3
    <3> QED BY <1>3, <1>5, <3>1, <3>2, <3>3
  <2>4. CASE i > last + 1 /\ up[i - 1] > last
    <3> DEFINE p == up[i - 1]
    <3>1. i - 1 \in (last + 1)..size /\ p \in (last + 1)..(i - 2) /\ isGroup[p]
      BY <1>3, <1>4, <2>4
    <3>2. up'[i] = p + 1 /\ isGroup'[p + 1] = isGroup[p]
      <4>1. i \in (last + 2)..(size + 1) /\ ~(p <= last)
            /\ p + 1 \in (last + 2)..(size + 1) /\ (p + 1) - 1 = p
        BY <1>3, <2>4, <3>1
      <4> QED BY <1>5, <4>1
    <3>3. ASSUME NEW k \in (p + 2)..(i - 1) PROVE up'[k] >= p + 1
      <4>1. k - 1 \in (p + 1)..(i - 2) /\ k \in (last + 2)..(size + 1)
        BY <1>3, <3>1
      <4>2. up[k - 1] >= p /\ up[k - 1] \in Nat
        BY <1>3, <1>4, <3>1, <4>1, SMTT(30)
      <4> QED BY <1>3, <1>5, <3>1, <4>1, <4>2, SMTT(30)
    <3> QED BY <1>3, <3>1, <3>2, <3>3
  <2> QED BY <1>3, <1>4, <2>1, <2>2, <2>3, <2>4
<1>9. WellFormed'
  <2>1. up'[1] = 0 /\ isGroup'[1] /\ size + 1 \in Nat /\ size + 1 >= 1
    BY <1>3, <1>4, <1>5
  <2>2. up' \in [1..(size + 1) -> 0..((size + 1) - 1)]
    BY <1>3, <1>6
  <2> QED BY <1>8, <2>1, <2>2, TreeBuilt
<1>10. {question', answer'} \subseteq Questions' \cup {0, Gone}
  <2>1. ASSUME NEW q \in Questions
        PROVE  q < last + 1 => q \in Questions'
    BY <1>3, <1>5, <1>6, <2>1 DEF Questions
  <2>2. ASSUME NEW q \in Questions
        PROVE  ~(q < last + 1) => q + 1 \in Questions'
    BY <1>3, <1>5, <1>6, <2>2 DEF Questions
  <2>3. {question, answer} \subseteq Questions \cup {0, Gone}
    BY <1>1 DEF TypeOK
  <2>4. \A q \in Questions : q \in Items
    BY DEF Questions
  <2>5. 0 \notin Items /\ Gone \notin Items
    BY <1>2, <1>3, MaxItemsAssumption DEF Gone
  <2> QED BY <1>2, <2>1, <2>2, <2>3, <2>4, <2>5
<1>11. Inv'
  <2>1. size + 1 \in 1..MaxItems /\ c \in 1..(size + 1)
    BY <1>2, <1>3, MaxItemsAssumption
  <2>2. up' \in [1..(size + 1) -> 0..((size + 1) - 1)]
    BY <1>3, <1>6
  <2> QED BY <1>1, <1>7, <1>9, <1>10, <2>1, <2>2, EditKeepsInv
<1>12. isGroup'[current']
  BY <1>1, <1>3, <1>5
<1>13. AnswerFollows'
  <2>1. 0 \notin Items
    BY <1>3
  <2> QED BY <1>1, <1>2, <2>1 DEF EditInv, AnswerFollows
<1> QED BY <1>1, <1>11, <1>12, <1>13 DEF EditInv

(* The current item and all that hangs from it are removed; what comes     *)
(* after them moves up.                                                    *)
LEMMA RemoveItemInv ==
  ASSUME EditInv, RemoveItem
  PROVE  EditInv'
<1> DEFINE c == current
<1>1. /\ ~walk.on /\ walk = NoWalk /\ UNCHANGED walk /\ strayed' = TRUE
      /\ c \in Items /\ c # 1 /\ TypeOK /\ Inv
  BY DEF RemoveItem, EditInv, Inv, TypeOK
<1>2. PICK size \in Items, last \in Items :
        LET removed == last - c + 1
            New(i) == IF i < c THEN i
                      ELSE IF i <= last THEN Gone ELSE i - removed
            Old(i) == IF i < c THEN i ELSE i + removed
        IN /\ EndsAt(1, size) /\ EndsAt(c, last)
           /\ up' = [i \in 1..(size - removed) |-> New(up[Old(i)])]
           /\ isGroup' = [i \in 1..(size - removed) |-> isGroup[Old(i)]]
           /\ Renumber(New)
           /\ \E i \in Neighbours(c) : current' = New(i)
  BY DEF RemoveItem
<1> DEFINE removed == last - c + 1
           left == size - removed
           New(i) == IF i < c THEN i
                     ELSE IF i <= last THEN Gone ELSE i - removed
           Old(i) == IF i < c THEN i ELSE i + removed
<1>3. /\ EndsAt(1, size) /\ EndsAt(c, last)
      /\ up' = [i \in 1..left |-> New(up[Old(i)])]
      /\ isGroup' = [i \in 1..left |-> isGroup[Old(i)]]
      /\ question' = IF question \in Items THEN New(question) ELSE question
      /\ answer' = IF answer \in Items THEN New(answer) ELSE answer
      /\ \E i \in Neighbours(c) : current' = New(i)
  BY <1>2 DEF Renumber
<1>4. /\ size \in Nat /\ Items = 1..size
      /\ c \in 2..last /\ last \in 2..size
      /\ \A k \in (c + 1)..last : up[k] >= c
      /\ \A k \in (last + 1)..size : up[k] < c \/ up[k] > last
  BY <1>1, <1>3, RunFacts
<1>5. /\ \A k \in 1..size : up[k] \in Nat /\ up[k] < size
      /\ \A k \in 2..size : up[k] \in 1..(k - 1) /\ isGroup[up[k]]
      /\ \A k \in 2..size : \A j \in (up[k] + 1)..(k - 1) : up[j] >= up[k]
      /\ up[1] = 0 /\ isGroup[1]
      /\ isGroup \in [1..size -> BOOLEAN]
  BY <1>1, <1>4, TreeSpelt
<1>6. /\ removed \in Nat /\ removed >= 1 /\ last = c + removed - 1
      /\ left \in Nat /\ left >= c - 1 /\ left < size /\ size = left + removed
  BY <1>4
<1>7. ASSUME NEW i \in 1..left
      PROVE  /\ i < c => up'[i] = up[i] /\ isGroup'[i] = isGroup[i]
             /\ i >= c =>
                  /\ i + removed \in (last + 1)..size
                  /\ up'[i] = IF up[i + removed] < c THEN up[i + removed]
                              ELSE up[i + removed] - removed
                  /\ up[i + removed] < c \/ up[i + removed] > last
                  /\ isGroup'[i] = isGroup[i + removed]
  <2>1. CASE i < c
    <3>1. i \in 1..size /\ up[i] < c
      BY <1>4, <1>5, <1>6, <2>1
    <3> QED BY <1>3, <1>4, <2>1, <3>1
  <2>2. CASE i >= c
    <3>1. i + removed \in (last + 1)..size /\ i + removed \in 1..size /\ ~(i < c)
      BY <1>4, <1>6, <2>2
    <3>2. up[i + removed] \in Nat
          /\ (up[i + removed] < c \/ up[i + removed] > last)
      BY <1>4, <1>5, <3>1
    <3>3. up[i + removed] <= last => up[i + removed] < c
      BY <1>4, <3>2
    <3>4. New(up[Old(i)]) = IF up[i + removed] < c THEN up[i + removed]
                            ELSE up[i + removed] - removed
      BY <3>1, <3>3
    <3> QED BY <1>3, <1>4, <2>2, <3>1, <3>2, <3>4
  <2> QED BY <1>4, <1>6, <2>1, <2>2
<1> HIDE DEF removed, left, New, Old
<1>8. ASSUME NEW i \in 2..left
      PROVE  /\ up'[i] \in 1..(i - 1) /\ isGroup'[up'[i]]
             /\ \A k \in (up'[i] + 1)..(i - 1) : up'[k] >= up'[i]
  <2>1. CASE i < c
    <3>1. i \in 1..left /\ i \in 2..size
      BY <1>4, <1>6
    <3>2. up[i] \in 1..(i - 1) /\ up[i] \in 1..left /\ up[i] < c
      BY <1>4, <1>5, <1>6, <2>1, <3>1
    <3>3. \A k \in (up[i] + 1)..(i - 1) : k \in 1..left /\ k < c
      BY <1>4, <1>6, <2>1, <3>1, <3>2
    <3> QED BY <1>5, <1>7, <2>1, <3>1, <3>2, <3>3
  <2>2. CASE i >= c /\ up[i + removed] < c
    <3> DEFINE p == up[i + removed]
    <3>1. i \in 1..left /\ i + removed \in 2..size
      BY <1>4, <1>6, <2>2
    <3>2. /\ up'[i] = p /\ p \in 1..(i - 1) /\ p \in 1..left /\ p < c
          /\ isGroup[p]
      BY <1>4, <1>5, <1>6, <1>7, <2>2, <3>1
    <3>3. ASSUME NEW k \in (p + 1)..(i - 1) PROVE up'[k] >= p
      <4>1. k \in 1..left
        BY <1>4, <1>6, <3>1, <3>2
      <4>2. CASE k < c
        <5>1. k \in (p + 1)..((i + removed) - 1)
          BY <1>4, <1>6, <3>2
        <5>2. up[k] >= p
          BY <1>5, <3>1, <5>1
        <5> QED BY <1>7, <4>1, <4>2, <5>2
      <4>3. CASE k >= c
        <5>1. k + removed \in (p + 1)..((i + removed) - 1)
              /\ k + removed \in 1..size
          BY <1>4, <1>6, <3>1, <3>2, <4>3
        <5>2. up[k + removed] >= p /\ up[k + removed] \in Nat
          BY <1>5, <3>1, <5>1
        <5>3. CASE up[k + removed] < c
          BY <1>7, <4>1, <4>3, <5>2, <5>3
        <5>4. CASE ~(up[k + removed] < c)
          <6>1. up[k + removed] > last /\ up'[k] = up[k + removed] - removed
            BY <1>7, <4>1, <4>3, <5>4
          <6> QED BY <1>4, <1>6, <3>2, <5>2, <6>1
        <5> QED BY <5>3, <5>4
      <4> QED BY <1>4, <3>2, <4>2, <4>3
    <3>4. isGroup'[p]
      BY <1>7, <3>2
    <3> QED BY <3>2, <3>3, <3>4
  <2>3. CASE i >= c /\ ~(up[i + removed] < c)
    <3> DEFINE p == up[i + removed]
    <3>1. i \in 1..left /\ i + removed \in 2..size
      BY <1>4, <1>6, <2>3
    <3>2. /\ up'[i] = p - removed /\ p > last /\ isGroup[p]
          /\ p \in 1..((i + removed) - 1)
      BY <1>5, <1>7, <2>3, <3>1
    <3>3. /\ p - removed \in 1..(i - 1) /\ p - removed \in 1..left
          /\ p - removed >= c /\ (p - removed) + removed = p
      BY <1>4, <1>6, <3>1, <3>2
    <3>4. ASSUME NEW k \in ((p - removed) + 1)..(i - 1)
          PROVE  up'[k] >= p - removed
      <4>1. /\ k \in 1..left /\ k >= c
            /\ k + removed \in (p + 1)..((i + removed) - 1)
            /\ k + removed \in 1..size
        BY <1>4, <1>6, <3>1, <3>2, <3>3, SMTT(30)
      <4>2. up[k + removed] >= p /\ up[k + removed] \in Nat
        BY <1>5, <3>1, <4>1
      <4>3. up'[k] = up[k + removed] - removed
        BY <1>4, <1>7, <3>2, <4>1, <4>2
      <4> QED BY <1>6, <3>2, <4>2, <4>3
    <3>5. isGroup'[p - removed]
      BY <1>7, <3>2, <3>3
    <3> QED BY <3>2, <3>3, <3>4, <3>5
  <2> QED BY <1>4, <1>6, <2>1, <2>2, <2>3
<1>9. up' \in [1..left -> 0..(left - 1)] /\ Items' = 1..left
  <2>1. DOMAIN up' = 1..left /\ up' = [i \in 1..left |-> up'[i]]
    BY <1>3
  <2>2. ASSUME NEW i \in 1..left PROVE up'[i] \in 0..(left - 1)
    <3>1. CASE i = 1
      BY <1>4, <1>5, <1>6, <1>7, <3>1
    <3>2. CASE i # 1
      BY <1>6, <1>8, <3>2
    <3> QED BY <3>1, <3>2
  <2> QED BY <2>1, <2>2 DEF Items
<1>10. isGroup' \in [1..left -> BOOLEAN]
  <2>1. DOMAIN isGroup' = 1..left /\ isGroup' = [i \in 1..left |-> isGroup'[i]]
    BY <1>3
  <2>2. ASSUME NEW i \in 1..left PROVE isGroup'[i] \in BOOLEAN
    <3>1. CASE i < c
      BY <1>4, <1>5, <1>6, <1>7, <3>1
    <3>2. CASE i >= c
      BY <1>4, <1>5, <1>7, <3>2
    <3> QED BY <1>4, <3>1, <3>2
  <2> QED BY <2>1, <2>2
<1>11. WellFormed'
  <2>1. 1 \in 1..left /\ 1 < c
    BY <1>4, <1>6
  <2>2. up'[1] = 0 /\ isGroup'[1] /\ left \in Nat /\ left >= 1
    BY <1>5, <1>6, <1>7, <2>1
  <2> QED BY <1>8, <1>9, <2>2, TreeBuilt
<1>12. {question', answer'} \subseteq Questions' \cup {0, Gone}
  <2>1. ASSUME NEW q \in Questions
        PROVE  New(q) \in Questions' \cup {0, Gone}
    <3>1. q \in 1..size /\ ~isGroup[q]
      BY <1>4 DEF Questions
    <3>2. CASE q < c
      BY <1>4, <1>6, <1>7, <1>9, <3>1, <3>2 DEF New, Questions
    <3>3. CASE q >= c /\ q <= last
      BY <1>4, <3>1, <3>3 DEF New
    <3>4. CASE q > last
      <4>1. q - removed \in 1..left /\ q - removed >= c
            /\ (q - removed) + removed = q
        BY <1>4, <1>6, <3>1, <3>4
      <4>2. q - removed \in Questions'
        BY <1>7, <1>9, <3>1, <4>1 DEF Questions
      <4> QED BY <1>4, <3>1, <3>4, <4>2 DEF New
    <3> QED BY <1>4, <3>1, <3>2, <3>3, <3>4
  <2>2. {question, answer} \subseteq Questions \cup {0, Gone}
    BY <1>1 DEF TypeOK
  <2>3. \A q \in Questions : q \in Items
    BY DEF Questions
  <2>4. size <= MaxItems
    <3>1. PICK n \in 1..MaxItems : up \in [1..n -> 0..(n - 1)]
      BY <1>1 DEF TypeOK
    <3>2. size \in 1..n
      BY <1>4, <3>1 DEF Items
    <3> QED BY <3>2, MaxItemsAssumption
  <2>5. 0 \notin Items /\ Gone \notin Items
    BY <1>4, <2>4, MaxItemsAssumption DEF Gone
  <2> QED BY <1>3, <2>1, <2>2, <2>3, <2>5
<1>13. current' \in 1..left
  <2>1. PICK i \in Neighbours(c) : current' = New(i)
    BY <1>3
  <2>2. c \in 2..size
    BY <1>4
  <2>3. up[c] \in 1..(c - 1)
    BY <1>5, <2>2
  <2>4. CASE i = up[c]
    BY <1>4, <1>6, <2>1, <2>3, <2>4 DEF New
  <2>5. CASE i # up[c]
    <3>1. i \in 1..size /\ i # c /\ up[i] = up[c]
      BY <1>4, <2>1, <2>5 DEF Neighbours, Kids
    <3>2. i < c \/ i > last
      BY <1>4, <2>3, <3>1
    <3> QED BY <1>4, <1>6, <2>1, <3>1, <3>2 DEF New
  <2> QED BY <2>4, <2>5
<1>14. Inv'
  <2>1. left \in 1..MaxItems
    <3>1. PICK n \in 1..MaxItems : up \in [1..n -> 0..(n - 1)]
      BY <1>1 DEF TypeOK
    <3>2. size \in 1..n
      BY <1>4, <3>1 DEF Items
    <3> QED BY <1>4, <1>6, <3>1, <3>2, MaxItemsAssumption
  <2> QED BY <1>1, <1>9, <1>10, <1>11, <1>12, <1>13, <2>1, EditKeepsInv
<1> QED BY <1>1, <1>14 DEF EditInv, AnswerFollows

LEMMA ModifyQuestionInv ==
  ASSUME EditInv, ModifyQuestion
  PROVE  EditInv'
<1>1. /\ UNCHANGED <<up, isGroup, current, walk>> /\ strayed' = TRUE
      /\ ~walk.on /\ walk = NoWalk /\ Inv /\ TypeOK /\ current \in Items
  BY DEF ModifyQuestion, Idle, tree, EditInv, Inv, TypeOK
<1>2. PICK n \in 1..MaxItems : up \in [1..n -> 0..(n - 1)]
  BY <1>1 DEF TypeOK
<1>3. current' \in 1..n /\ isGroup' \in [1..n -> BOOLEAN] /\ WellFormed'
  BY <1>1, <1>2 DEF TypeOK, Items, WellFormed, Inside
<1>4. {question', answer'} \subseteq Questions' \cup {0, Gone}
  BY <1>1 DEF ModifyQuestion, TypeOK, Questions, Items
<1>5. Inv'
  BY <1>1, <1>2, <1>3, <1>4, EditKeepsInv
<1> QED BY <1>1, <1>5 DEF EditInv, AnswerFollows

LEMMA EditNextInv == EditInv /\ [EditNext]_editVars => EditInv'
<1> SUFFICES ASSUME EditInv, [EditNext]_editVars PROVE EditInv'
  OBVIOUS
<1>1. ASSUME NEW i \in Items, Click(i) PROVE EditInv'
  <2>1. Inv'
    BY <1>1, NextInv DEF EditInv, Click, Next
  <2>2. /\ ~walk.on /\ UNCHANGED <<up, isGroup, walk>> /\ answer' = 0
        /\ current' = i /\ (~isGroup[i] => question' = i)
    BY <1>1 DEF Click, LeftClick, Idle, tree
  <2> QED BY <2>1, <2>2 DEF EditInv, AnswerFollows
<1>2. ASSUME NEW i \in Items, MoveTo(i) PROVE EditInv'
  <2>1. Inv'
    BY <1>2, NextInv DEF EditInv, MoveTo, Next
  <2>2. /\ UNCHANGED <<up, isGroup, walk, question, answer>>
        /\ current' = i /\ (~strayed' => ~strayed /\ i = current)
    BY <1>2 DEF MoveTo, Select, Idle, tree
  <2> QED BY <2>1, <2>2 DEF EditInv, AnswerFollows
<1>3. CASE ShowAnswer /\ UNCHANGED strayed
  <2>1. Inv'
    BY <1>3, NextInv DEF EditInv, Next
  <2>2. /\ UNCHANGED <<up, isGroup, walk, question, current, strayed>>
        /\ current # 0 /\ ~isGroup[current] /\ answer' = current
    BY <1>3 DEF ShowAnswer, Idle, tree
  <2> QED BY <2>1, <2>2 DEF EditInv, AnswerFollows
<1>4. ASSUME NEW back \in BOOLEAN, Press(back), UNCHANGED strayed PROVE EditInv'
  <2>1. Inv'
    BY <1>4, NextInv DEF EditInv, Next
  <2>2. UNCHANGED <<up, isGroup, question, answer, current, strayed>> /\ walk'.on
    BY <1>4 DEF Press, Idle, tree
  <2> QED BY <2>1, <2>2 DEF EditInv, AnswerFollows
<1>5. CASE Walk
  <2>1. Inv'
    BY <1>5, NextInv DEF EditInv, Walk, Next
  <2>2. CASE NotFound
    <3>1. walk' = NoWalk /\ walk.item = 1 /\ ~NoWalk.on
          /\ UNCHANGED <<up, isGroup, question, answer, current>>
      BY <2>2 DEF NotFound, NoWalk
    <3>2. strayed' = strayed \/ (strayed' = FALSE /\ ~strayed)
      BY <1>5, <3>1 DEF Walk
    <3> QED BY <2>1, <3>1, <3>2 DEF EditInv, AnswerFollows
  <2>3. ASSUME NEW i, NEW val, GoOn(i, val), UNCHANGED tree, walk.on PROVE EditInv'
    <3>1. /\ walk'.on
          /\ UNCHANGED <<up, isGroup, question, answer, current>>
      BY <2>3 DEF GoOn, tree, EditInv, Inv, TypeOK
    <3>2. ~strayed' => ~strayed
      BY <1>5, <3>1 DEF Walk
    <3> QED BY <2>1, <3>1, <3>2 DEF EditInv, AnswerFollows
  <2>4. ASSUME NEW i, Found(i) PROVE EditInv'
    <3>1. walk' = NoWalk /\ current' = i /\ question' = i /\ answer' = 0
      BY <2>4 DEF Found
    <3> QED BY <2>1, <3>1 DEF EditInv, AnswerFollows
  <2>5. CASE Climb
    BY <2>3, <2>5 DEF Climb
  <2>6. CASE Enter
    BY <2>3, <2>4, <2>6 DEF Enter, Visit
  <2> QED BY <1>5, <2>2, <2>5, <2>6 DEF Walk, Turn
<1>6. ASSUME NEW group \in BOOLEAN, AddItem(group) PROVE EditInv'
  BY <1>6, AddItemInv
<1>7. CASE RemoveItem \/ ModifyQuestion
  BY <1>7, RemoveItemInv, ModifyQuestionInv
<1>8. CASE UNCHANGED editVars
  <2>1. Inv'
    BY <1>8, NextInv DEF editVars, EditInv
  <2>2. UNCHANGED <<up, isGroup, current, question, answer, walk, strayed>>
    BY <1>8 DEF editVars, vars
  <2> QED BY <2>1, <2>2 DEF EditInv, AnswerFollows
<1> QED BY <1>1, <1>2, <1>3, <1>4, <1>5, <1>6, <1>7, <1>8 DEF EditNext

LEMMA EditInitInv == EditInit => EditInv
<1> SUFFICES ASSUME EditInit PROVE EditInv
  OBVIOUS
<1>1. Inv
  BY InitInv DEF EditInit
<1>2. walk = NoWalk /\ current = 0 /\ answer = 0
  BY DEF EditInit, Init
<1> QED BY <1>1, <1>2 DEF EditInv, AnswerFollows

-----------------------------------------------------------------------------
(* Adding and removing items leaves a tree numbered in the order shown,    *)
(* with the current item in it and boxes that show one of its questions, a *)
(* text of none, or nothing.                                               *)
THEOREM EditsKeepTree == EditSpec => []TypeOK
<1>1. EditInv => TypeOK
  BY DEF EditInv, Inv
<1> QED BY EditInitInv, EditNextInv, <1>1, PTL DEF EditSpec

(* No turn of a walk passes a question or goes back to one, whatever was   *)
(* added and removed before the walk.                                      *)
THEOREM EditsKeepTarget == EditSpec => []KeepsTarget
<1>1. EditInv => KeepsTarget
  BY DEF EditInv, Inv
<1> QED BY EditInitInv, EditNextInv, <1>1, PTL DEF EditSpec

(* The answer box holds the answer of the question shown or nothing, until *)
(* the current item changes by other means than a left click or a walk.    *)
THEOREM AnswerFollowsQuestion == EditSpec => []AnswerFollows
<1>1. EditInv => AnswerFollows
  BY DEF EditInv
<1> QED BY EditInitInv, EditNextInv, <1>1, PTL DEF EditSpec

(* What is proved of the end of a walk holds of the ends of these walks. *)
LEMMA EditEndFinds ==
  ASSUME Inv, EditNext, walk.on, ~walk'.on
  PROVE  /\ walk.back \/ ~isGroup[current]
              => GoesToNearest(InOrder(current, walk.back))
         /\ ~walk.back /\ isGroup[current]
              => GoesToNearest({j \in InOrder(current, FALSE) : ~Inside(current, j)})
<1>1. Turn
  BY DEF EditNext, Click, LeftClick, MoveTo, Select, ShowAnswer, Press, Idle,
         Walk, AddItem, RemoveItem, ModifyQuestion
<1> QED BY <1>1, EndFindsInOrder DEF Next

(* A walk from a question, or back from a group, ends at the nearest       *)
(* question of the tree as it is by then.                                  *)
THEOREM EditsKeepNeighbour == EditSpec => FindsNeighbour
<1>1. EditInv /\ [EditNext]_editVars =>
        [walk.on /\ ~walk'.on /\ (walk.back \/ ~isGroup[current]) =>
           GoesToNearest(InOrder(current, walk.back))]_vars
  BY EditEndFinds DEF EditInv, editVars
<1> QED BY EditInitInv, EditNextInv, <1>1, PTL DEF EditSpec, FindsNeighbour

(* The next button on a group passes the questions in the group, and no    *)
(* other one.                                                              *)
THEOREM EditsPassGroup == EditSpec => PassesGroup
<1>1. EditInv /\ [EditNext]_editVars =>
        [walk.on /\ ~walk'.on /\ ~walk.back /\ isGroup[current] =>
           GoesToNearest({j \in InOrder(current, FALSE) : ~Inside(current, j)})]_vars
  BY EditEndFinds DEF EditInv, editVars
<1> QED BY EditInitInv, EditNextInv, <1>1, PTL DEF EditSpec, PassesGroup
=============================================================================
