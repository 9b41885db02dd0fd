------------------------ MODULE QuestionStoreProofs ------------------------
(***************************************************************************)
(* Proofs about QuestionStore, for every set of ids, group names and       *)
(* texts: the list stays well formed and free of repeated ids, and it      *)
(* implements the set of ItemStore.                                        *)
(***************************************************************************)
EXTENDS QuestionStore, TLAPS

-----------------------------------------------------------------------------
(* Lemmas about the repeated field. *)

(* find_if on a list that has the id returns the position that holds it. *)
LEMMA FindIsPosition ==
  ASSUME NEW S, NEW l \in Seq(S), NEW i, Has(l, i), Unique(l)
  PROVE  Find(l, i) \in DOMAIN l /\ l[Find(l, i)].id = i
<1>1. PICK k \in DOMAIN l : l[k].id = i
  BY DEF Has
<1>2. \A j \in 1..(k - 1) : l[j].id # i
  BY <1>1 DEF Unique
<1> QED BY <1>1, <1>2, Zenon DEF Find

(* SwapElements + RemoveLast yields a list of the same items but one. *)
LEMMA SwapRemoveElems ==
  ASSUME NEW S, NEW l \in Seq(S), NEW k \in DOMAIN l, Unique(l)
  PROVE  /\ SwapRemove(l, k) \in Seq(S)
         /\ Unique(SwapRemove(l, k))
         /\ Elems(SwapRemove(l, k)) = {x \in Elems(l) : x.id # l[k].id}
<1> DEFINE m == SwapRemove(l, k)
<1>1. m \in Seq(S) /\ Len(m) = Len(l) - 1 /\ DOMAIN m = 1..(Len(l) - 1)
  BY DEF SwapRemove
<1>2. \A j \in DOMAIN m : m[j] = IF j = k THEN l[Len(l)] ELSE l[j]
  BY DEF SwapRemove
<1> HIDE DEF m
<1>3. Unique(m)
  BY <1>1, <1>2 DEF Unique
<1>4. ASSUME NEW x \in Elems(m) PROVE x \in Elems(l) /\ x.id # l[k].id
  BY <1>1, <1>2 DEF Elems, Unique
<1>5. ASSUME NEW x \in Elems(l), x.id # l[k].id PROVE x \in Elems(m)
  <2>1. PICK j \in DOMAIN l : x = l[j] /\ j # k
    BY <1>5 DEF Elems
  <2>2. CASE j = Len(l)
    BY <1>1, <1>2, <2>1, <2>2 DEF Elems
  <2>3. CASE j # Len(l)
    BY <1>1, <1>2, <2>1, <2>3 DEF Elems
  <2> QED BY <2>2, <2>3
<1>6. Elems(m) = {x \in Elems(l) : x.id # l[k].id}
  BY <1>4, <1>5
<1> QED BY <1>1, <1>3, <1>6 DEF m

(* set_group/set_question/set_answer on the item found by id. *)
LEMMA ReplaceElems ==
  ASSUME NEW S, NEW l \in Seq(S), NEW k \in DOMAIN l, Unique(l),
         NEW x \in S, x.id = l[k].id
  PROVE  LET m == SetAt(l, k, x) IN
          /\ m \in Seq(S)
         /\ Unique(m)
         /\ Elems(m) = {y \in Elems(l) : y.id # x.id} \cup {x}
<1> DEFINE m == SetAt(l, k, x)
<1>1. m \in Seq(S) /\ DOMAIN m = DOMAIN l
  BY DEF SetAt
<1>2. m[k] = x /\ \A j \in DOMAIN l : j # k => m[j] = l[j]
  BY DEF SetAt
<1> HIDE DEF m
<1>3. Unique(m)
  BY <1>1, <1>2 DEF Unique
<1>4. ASSUME NEW y \in Elems(m), y # x PROVE y \in Elems(l) /\ y.id # x.id
  BY <1>1, <1>2, <1>4 DEF Elems, Unique
<1>5. ASSUME NEW y \in Elems(l), y.id # x.id PROVE y \in Elems(m)
  BY <1>1, <1>2, <1>5 DEF Elems
<1>6. x \in Elems(m)
  BY <1>1, <1>2 DEF Elems
<1>7. Elems(m) = {y \in Elems(l) : y.id # x.id} \cup {x}
  BY <1>4, <1>5, <1>6
<1> QED BY <1>1, <1>3, <1>7 DEF m

(* add_items appends an item whose id is new. *)
LEMMA AppendElems ==
  ASSUME NEW S, NEW l \in Seq(S), NEW x \in S, Unique(l), ~Has(l, x.id)
  PROVE  /\ Append(l, x) \in Seq(S)
         /\ Unique(Append(l, x))
         /\ Elems(Append(l, x)) = Elems(l) \cup {x}
<1> DEFINE m == Append(l, x)
<1>1. m \in Seq(S) /\ DOMAIN m = 1..(Len(l) + 1) /\ DOMAIN l = 1..Len(l)
  OBVIOUS
<1>2. m[Len(l) + 1] = x /\ \A j \in DOMAIN l : m[j] = l[j]
  OBVIOUS
<1> HIDE DEF m
<1>3. Unique(m)
  BY <1>1, <1>2 DEF Unique, Has
<1>4. Elems(m) = Elems(l) \cup {x}
  <2>1. ASSUME NEW y \in Elems(m) PROVE y \in Elems(l) \cup {x}
    <3>1. PICK j \in DOMAIN m : y = m[j]
      BY DEF Elems
    <3>2. CASE j = Len(l) + 1
      BY <1>2, <3>1, <3>2
    <3>3. CASE j # Len(l) + 1
      <4>1. j \in DOMAIN l
        BY <1>1, <3>3
      <4> QED BY <1>2, <3>1, <4>1 DEF Elems
    <3> QED BY <3>2, <3>3
  <2>2. ASSUME NEW y \in Elems(l) \cup {x} PROVE y \in Elems(m)
    BY <1>1, <1>2 DEF Elems
  <2> QED BY <2>1, <2>2
<1> QED BY <1>1, <1>3, <1>4 DEF m

(* A truncated file holds a prefix of the list. *)
LEMMA PrefixElems ==
  ASSUME NEW S, NEW l \in Seq(S), Unique(l), NEW n \in 0..Len(l)
  PROVE  /\ SubSeq(l, 1, n) \in Seq(S)
         /\ Unique(SubSeq(l, 1, n))
         /\ Elems(SubSeq(l, 1, n)) \subseteq Elems(l)
<1> DEFINE m == SubSeq(l, 1, n)
<1>1. m \in Seq(S) /\ DOMAIN m = 1..n /\ DOMAIN l = 1..Len(l)
  OBVIOUS
<1>2. \A j \in DOMAIN m : m[j] = l[j] /\ j \in DOMAIN l
  BY <1>1
<1> HIDE DEF m
<1>3. Unique(m) /\ Elems(m) \subseteq Elems(l)
  BY <1>1, <1>2 DEF Unique, Elems
<1> QED BY <1>1, <1>3 DEF m

(* The list of a fresh object, of a missing file and of a corrupt one. *)
LEMMA EmptyList ==
  ASSUME NEW S
  PROVE  <<>> \in Seq(S) /\ Unique(<<>>) /\ Elems(<<>>) = {}
  BY DEF Unique, Elems

(* The set of ItemStore is empty exactly when the list is. *)
LEMMA EmptyElems ==
  ASSUME NEW S, NEW l \in Seq(S)
  PROVE  /\ Elems(l) = {} <=> l = <<>>
         /\ Elems(l) \subseteq S
  BY DEF Elems

-----------------------------------------------------------------------------
(* The inductive invariant: the two invariants together, since each list   *)
(* operation needs the list to be well formed and free of repeated ids.    *)
Inv == TypeOK /\ UniqueIds

(* What each change of the list makes of it and of the set it stands for. *)
LEMMA AddItemList ==
  ASSUME Inv, NEW x \in Item, AddItem(x)
  PROVE  /\ lst' \in Seq(Item) /\ Unique(lst')
         /\ Abs!Add(x)
<1> DEFINE ok == opened /\ ~Has(lst, x.id)
<1>1. Abs!WithId(x.id) = {} <=> ~Has(lst, x.id)
  BY DEF Abs!WithId, Elems, Has
<1>2. CASE ok
  <2>1. lst' = Append(lst, x)
    BY <1>2 DEF AddItem
  <2>2. lst' \in Seq(Item) /\ Unique(lst') /\ Elems(lst') = Elems(lst) \cup {x}
    BY <1>2, <2>1, AppendElems DEF Inv, TypeOK, UniqueIds
  <2> QED BY <1>1, <1>2, <2>2 DEF AddItem, Abs!Add, Reply, Abs!Reply
<1>3. CASE ~ok
  BY <1>1, <1>3 DEF AddItem, Abs!Add, Reply, Abs!Reply, Inv, TypeOK, UniqueIds
<1> QED BY <1>2, <1>3

LEMMA DeleteItemList ==
  ASSUME Inv, NEW i, DeleteItem(i)
  PROVE  /\ lst' \in Seq(Item) /\ Unique(lst')
         /\ Abs!Delete(i)
<1> DEFINE ok == opened /\ Has(lst, i)
<1>1. Abs!WithId(i) # {} <=> Has(lst, i)
  BY DEF Abs!WithId, Elems, Has
<1>2. CASE ok
  <2>1. lst' = SwapRemove(lst, Find(lst, i))
    BY <1>2 DEF DeleteItem
  <2>2. Find(lst, i) \in DOMAIN lst /\ lst[Find(lst, i)].id = i
    BY <1>2, FindIsPosition DEF Inv, TypeOK, UniqueIds
  <2>3. /\ lst' \in Seq(Item) /\ Unique(lst')
        /\ Elems(lst') = {x \in Elems(lst) : x.id # i}
    BY <2>1, <2>2, SwapRemoveElems DEF Inv, TypeOK, UniqueIds
  <2>4. Elems(lst') = Elems(lst) \ Abs!WithId(i)
    BY <2>3 DEF Abs!WithId
  <2> QED BY <1>1, <1>2, <2>3, <2>4 DEF DeleteItem, Abs!Delete, Reply, Abs!Reply
<1>3. CASE ~ok
  BY <1>1, <1>3
    DEF DeleteItem, Abs!Delete, Reply, Abs!Reply, Inv, TypeOK, UniqueIds
<1> QED BY <1>2, <1>3

LEMMA UpdateItemList ==
  ASSUME Inv, NEW i, NEW x \in Item, UpdateItem(i, x)
  PROVE  /\ lst' \in Seq(Item) /\ Unique(lst')
         /\ Abs!Update(i, x)
<1> DEFINE ok == opened /\ i = x.id /\ Has(lst, i)
<1>1. Abs!WithId(i) # {} <=> Has(lst, i)
  BY DEF Abs!WithId, Elems, Has
<1>2. CASE ok
  <2> DEFINE k == Find(lst, i)
  <2>1. lst' = SetAt(lst, k, x)
    BY <1>2 DEF UpdateItem
  <2>2. k \in DOMAIN lst /\ x.id = lst[k].id
    BY <1>2, FindIsPosition DEF Inv, TypeOK, UniqueIds
  <2>3. /\ lst' \in Seq(Item) /\ Unique(lst')
        /\ Elems(lst') = {y \in Elems(lst) : y.id # x.id} \cup {x}
    <3>1. lst \in Seq(Item) /\ Unique(lst)
      BY DEF Inv, TypeOK, UniqueIds
    <3> QED BY <2>1, <2>2, <3>1, ReplaceElems
  <2>4. Elems(lst') = (Elems(lst) \ Abs!WithId(i)) \cup {x}
    BY <1>2, <2>3 DEF Abs!WithId
  <2> QED BY <1>1, <1>2, <2>3, <2>4 DEF UpdateItem, Abs!Update, Reply, Abs!Reply
<1>3. CASE ~ok
  BY <1>1, <1>3
    DEF UpdateItem, Abs!Update, Reply, Abs!Reply, Inv, TypeOK, UniqueIds
<1> QED BY <1>2, <1>3

LEMMA InitInv == Init => Inv
<1>1. <<>> \in Seq(Item) /\ Unique(<<>>)
  BY EmptyList, Zenon
<1> SUFFICES ASSUME Init PROVE Inv
  OBVIOUS
<1>2. lst = <<>> /\ file.items = <<>>
  BY DEF Init, Absent
<1>3. UniqueIds
  BY <1>1, <1>2, Zenon DEF UniqueIds
<1>4. TypeOK
  BY <1>1 DEF Init, TypeOK, Absent
<1> QED BY <1>3, <1>4 DEF Inv

LEMMA NextInv == Inv /\ [Next]_vars => Inv'
<1> SUFFICES ASSUME Inv, [Next]_vars PROVE Inv'
  OBVIOUS
<1> USE DEF Reply
<1>1. ASSUME NEW x \in Item, AddItem(x) PROVE Inv'
  <2>1. x.id \in Ids
    BY DEF Item, GroupItem, QuestionItem
  <2>2. lst' \in Seq(Item) /\ Unique(lst')
    BY <1>1, AddItemList
  <2> QED BY <1>1, <2>1, <2>2 DEF AddItem, Inv, TypeOK, UniqueIds, Item
<1>2. ASSUME NEW i \in Ids, DeleteItem(i) PROVE Inv'
  BY <1>2, DeleteItemList DEF DeleteItem, Inv, TypeOK, UniqueIds, Item
<1>3. ASSUME NEW i \in Ids, NEW x \in Item, UpdateItem(i, x) PROVE Inv'
  BY <1>3, UpdateItemList DEF UpdateItem, Inv, TypeOK, UniqueIds, Item
<1>4. CASE Open
  BY <1>4 DEF Open, Inv, TypeOK, UniqueIds, Item
<1>5. ASSUME NEW g \in Ids, NEW n \in Groups, AddGroup(g, n) PROVE Inv'
  BY <1>5, <1>1 DEF AddGroup, Item, GroupItem
<1>6. ASSUME NEW g \in Ids, DeleteGroup(g) PROVE Inv'
  BY <1>6, <1>2 DEF DeleteGroup
<1>7. ASSUME NEW g \in Ids, NEW n \in Groups, UpdateGroup(g, n) PROVE Inv'
  BY <1>7, <1>3 DEF UpdateGroup, Item, GroupItem
<1>8. ASSUME NEW q \in QuestionItem, AddQuestion(q) PROVE Inv'
  BY <1>8, <1>1 DEF AddQuestion, Item
<1>9. ASSUME NEW i \in Ids, DeleteQuestion(i) PROVE Inv'
  BY <1>9, <1>2 DEF DeleteQuestion
<1>10. ASSUME NEW i \in Ids, NEW q \in QuestionItem, UpdateQuestion(i, q)
       PROVE  Inv'
  BY <1>10, <1>3 DEF UpdateQuestion, Item
<1>11. ASSUME NEW i \in Ids, QueryQuestion(i) PROVE Inv'
  <2>1. opened /\ Has(lst, i) => lst[Find(lst, i)] \in Item
    BY FindIsPosition DEF Inv, TypeOK, UniqueIds
  <2> QED BY <1>11, <2>1 DEF QueryQuestion, Inv, TypeOK, UniqueIds, Item
<1>12. CASE GetAll
  BY <1>12, EmptyElems DEF GetAll, Inv, TypeOK, UniqueIds, Item
<1>13. CASE Close
  BY <1>13, EmptyList
    DEF Close, Gone, Absent, Stored, Inv, TypeOK, UniqueIds, Item
<1>14. CASE Crash
  BY <1>14, EmptyList DEF Crash, Gone, Inv, TypeOK, UniqueIds, Item
<1>15. CASE CrashInClose
  <2>1. CASE file' = Corrupt
    BY <1>15, <2>1, EmptyList
      DEF CrashInClose, Gone, Corrupt, Inv, TypeOK, UniqueIds, Item
  <2>2. ASSUME NEW n \in 0..Len(lst), file' = Stored(SubSeq(lst, 1, n))
        PROVE  Inv'
    <3>1. SubSeq(lst, 1, n) \in Seq(Item) /\ Unique(SubSeq(lst, 1, n))
      BY PrefixElems DEF Inv, TypeOK, UniqueIds
    <3> QED BY <1>15, <2>2, <3>1, EmptyList
          DEF CrashInClose, Gone, Stored, Inv, TypeOK, UniqueIds, Item
  <2> QED BY <1>15, <2>1, <2>2 DEF CrashInClose
<1>16. CASE UNCHANGED vars
  BY <1>16 DEF vars, Inv, TypeOK, UniqueIds, Item
<1> QED
  BY <1>4, <1>5, <1>6, <1>7, <1>8, <1>9, <1>10, <1>11, <1>12, <1>13, <1>14,
     <1>15, <1>16 DEF Next

(* Type correctness of CQuestionAnswerImpl's lists, file and replies. *)
THEOREM TypeCorrect == Spec => []TypeOK
<1>1. Inv => TypeOK
  BY DEF Inv
<1> QED BY InitInv, NextInv, <1>1, PTL DEF Spec

(* No list and no file ever holds two items with one id: addGroup and      *)
(* addQuestion check, and no removal, update, restart or torn write can    *)
(* bring a second one in.                                                  *)
THEOREM IdsStayUnique == Spec => []UniqueIds
<1>1. Inv => UniqueIds
  BY DEF Inv
<1> QED BY InitInv, NextInv, <1>1, PTL DEF Spec

-----------------------------------------------------------------------------
(* Refinement: every step of the list is a step of the set of ItemStore. *)

LEMMA InitRefines == Init => Abs!Init
<1>1. Elems(<<>>) = {}
  BY EmptyList, Zenon
<1> SUFFICES ASSUME Init PROVE Abs!Init
  OBVIOUS
<1>2. lst = <<>> /\ file.items = <<>> /\ file.state = "absent"
  BY DEF Init, Absent
<1>3. Elems(lst) = {} /\ Elems(file.items) = {}
  BY <1>1, <1>2, Zenon
<1> QED BY <1>2, <1>3 DEF Init, Abs!Init, Abs!Absent

LEMMA NextRefines == Inv /\ [Next]_vars => [Abs!Next]_(Abs!vars)
<1> SUFFICES ASSUME Inv, Next PROVE Abs!Next
  <2>1. UNCHANGED vars => UNCHANGED Abs!vars
    BY DEF vars, Abs!vars
  <2> QED BY <2>1
<1> USE DEF Reply, Abs!Reply
<1>0. Abs!Item = Item
  BY DEF Abs!Item, Item
<1>1. CASE Open
  <2>1. Abs!Open
    BY <1>1 DEF Open, Abs!Open
  <2> QED BY <2>1 DEF Abs!Next
<1>2. ASSUME NEW g \in Ids, NEW n \in Groups, AddGroup(g, n) PROVE Abs!Next
  <2> DEFINE x == [id |-> g, group |-> n]
  <2>1. x \in Item /\ AddItem(x)
    BY <1>2 DEF AddGroup, Item, GroupItem
  <2>2. Abs!Add(x)
    BY <2>1, AddItemList
  <2> QED BY <1>0, <2>1, <2>2 DEF Abs!Next
<1>3. ASSUME NEW g \in Ids, DeleteGroup(g) PROVE Abs!Next
  <2>1. Abs!Delete(g)
    BY <1>3, DeleteItemList DEF DeleteGroup
  <2> QED BY <2>1 DEF Abs!Next
<1>4. ASSUME NEW g \in Ids, NEW n \in Groups, UpdateGroup(g, n)
      PROVE  Abs!Next
  <2> DEFINE x == [id |-> g, group |-> n]
  <2>1. x \in Item /\ UpdateItem(g, x)
    BY <1>4 DEF UpdateGroup, Item, GroupItem
  <2>2. Abs!Update(g, x)
    BY <2>1, UpdateItemList
  <2> QED BY <1>0, <2>1, <2>2 DEF Abs!Next
<1>5. ASSUME NEW q \in QuestionItem, AddQuestion(q) PROVE Abs!Next
  <2>1. q \in Item /\ AddItem(q)
    BY <1>5 DEF AddQuestion, Item
  <2>2. Abs!Add(q)
    BY <2>1, AddItemList
  <2> QED BY <1>0, <2>1, <2>2 DEF Abs!Next
<1>6. ASSUME NEW i \in Ids, DeleteQuestion(i) PROVE Abs!Next
  <2>1. Abs!Delete(i)
    BY <1>6, DeleteItemList DEF DeleteQuestion
  <2> QED BY <2>1 DEF Abs!Next
<1>7. ASSUME NEW i \in Ids, NEW q \in QuestionItem, UpdateQuestion(i, q)
      PROVE  Abs!Next
  <2>1. q \in Item /\ UpdateItem(i, q)
    BY <1>7 DEF UpdateQuestion, Item
  <2>2. Abs!Update(i, q)
    BY <2>1, UpdateItemList
  <2> QED BY <1>0, <2>1, <2>2 DEF Abs!Next
<1>8. ASSUME NEW i \in Ids, QueryQuestion(i) PROVE Abs!Next
  <2>1. Abs!WithId(i) = IF Has(lst, i) THEN {lst[Find(lst, i)]} ELSE {}
    <3>1. CASE Has(lst, i)
      <4>1. Find(lst, i) \in DOMAIN lst /\ lst[Find(lst, i)].id = i
        BY <3>1, FindIsPosition DEF Inv, TypeOK, UniqueIds
      <4> QED BY <3>1, <4>1 DEF Abs!WithId, Elems, Inv, UniqueIds, Unique
    <3>2. CASE ~Has(lst, i)
      BY <3>2 DEF Has, Abs!WithId, Elems
    <3> QED BY <3>1, <3>2
  <2>2. Abs!Query(i)
    BY <1>8, <2>1 DEF QueryQuestion, Abs!Query
  <2> QED BY <2>2 DEF Abs!Next
<1>9. CASE GetAll
  <2>1. Abs!GetAll
    BY <1>9 DEF GetAll, Abs!GetAll
  <2> QED BY <2>1 DEF Abs!Next
<1>10. ASSUME Gone PROVE Abs!Gone
  BY <1>10, EmptyList DEF Gone, Abs!Gone
<1>11. Elems(lst) = {} <=> lst = <<>>
  BY EmptyElems DEF Inv, TypeOK
<1>12. CASE Close
  <2>1. Abs!Close
    BY <1>10, <1>11, <1>12, EmptyList
      DEF Close, Abs!Close, Absent, Abs!Absent, Stored, Abs!Stored
  <2> QED BY <2>1 DEF Abs!Next
<1>13. CASE Crash
  <2>1. Abs!Crash
    BY <1>10, <1>13 DEF Crash, Abs!Crash
  <2> QED BY <2>1 DEF Abs!Next
<1>14. CASE CrashInClose
  <2>1. ASSUME NEW n \in 0..Len(lst), file' = Stored(SubSeq(lst, 1, n))
        PROVE  Abs!CrashInClose
    <3>1. Elems(SubSeq(lst, 1, n)) \in SUBSET Elems(lst)
      BY PrefixElems DEF Inv, TypeOK, UniqueIds
    <3> QED BY <1>10, <1>11, <1>14, <2>1, <3>1
          DEF CrashInClose, Abs!CrashInClose, Stored, Abs!Stored
  <2>2. ASSUME file' = Corrupt PROVE Abs!CrashInClose
    BY <1>10, <1>11, <1>14, <2>2, EmptyList
      DEF CrashInClose, Abs!CrashInClose, Corrupt, Abs!Corrupt
  <2> QED BY <1>14, <2>1, <2>2 DEF CrashInClose, Abs!Next
<1> QED
  BY <1>1, <1>2, <1>3, <1>4, <1>5, <1>6, <1>7, <1>8, <1>9, <1>12, <1>13,
     <1>14 DEF Next

(* CQuestionAnswerImpl implements the keyed set of ItemStore: what the     *)
(* bank may rely on is the set, not the order swap-removal scrambles.      *)
THEOREM StoreRefinesItemStore == Spec => ImplementsItemStore
<1>1. Spec => []Inv
  BY InitInv, NextInv, PTL DEF Spec
<1> QED BY <1>1, InitRefines, NextRefines, PTL
      DEF Spec, ImplementsItemStore, Abs!Spec
=============================================================================
