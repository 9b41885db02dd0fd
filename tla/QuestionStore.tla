--------------------------- MODULE QuestionStore ---------------------------
(***************************************************************************)
(* CQuestionAnswerImpl (src/src/question_answer_impl.cpp): the object that *)
(* keeps one file's items in a protobuf repeated field.  The same class    *)
(* holds either the groups of ids.dat (m_lstGroups, opened with flag =     *)
(* false) or the questions of one group (m_lstQuestions, flag = true); an  *)
(* object only ever uses the list its flag selects, which is lst here.     *)
(*                                                                         *)
(* An object lives from open() to close(): the bank drops its pointer      *)
(* right after close().  Nothing is saved in between.                      *)
(***************************************************************************)
EXTENDS Naturals, Sequences

CONSTANTS
  Ids,        \* uuids
  Groups,     \* group names (ids.dat) or group ids (a question's group)
  Questions,  \* question texts
  Answers     \* answer texts

GroupItem == [id : Ids, group : Groups]
QuestionItem ==
  [id : Ids, group : Groups, question : Questions, answer : Answers]

VARIABLES
  flag,       \* which of the two lists the file holds
  opened,     \* m_strPath is not empty
  lst,        \* m_lstGroups or m_lstQuestions
  file,       \* the file on disk: [state, items]
  ret         \* the last call: the id it was for, its result, what it handed out

vars == <<flag, opened, lst, file, ret>>

Item == IF flag THEN QuestionItem ELSE GroupItem

(***************************************************************************)
(* The repeated field.                                                     *)
(***************************************************************************)
Elems(l) == {l[k] : k \in DOMAIN l}

Has(l, i) == \E k \in DOMAIN l : l[k].id = i

(* std::find_if: the first element with this id. *)
Find(l, i) ==
  CHOOSE k \in DOMAIN l : l[k].id = i /\ \A j \in 1..(k - 1) : l[j].id # i

(* Mutant: the last element is removed without the swap. *)
SwapRemoveNoSwap(l, k) == [j \in 1..(Len(l) - 1) |-> l[j]]

(* SwapElements(k, size - 1), then RemoveLast(). *)
SwapRemove(l, k) ==
  [j \in 1..(Len(l) - 1) |-> IF j = k THEN l[Len(l)] ELSE l[j]]

(* set_group(), or set_question() and set_answer(), on the k-th element. *)
SetAt(l, k, x) == [l EXCEPT ![k] = x]

Absent == [state |-> "absent", items |-> <<>>]
Corrupt == [state |-> "corrupt", items |-> <<>>]
Stored(l) == [state |-> "stored", items |-> l]

(* What was asked for, by id, and the answer. *)
Reply(of, ok, out) == ret' = [of |-> of, ok |-> ok, out |-> out]

Init ==
  /\ flag \in BOOLEAN
  /\ opened = FALSE
  /\ lst = <<>>
  /\ file = Absent
  /\ ret = [of |-> {}, ok |-> TRUE, out |-> {}]

(* open(): a missing file is an empty list; one that does not parse leaves *)
(* the fresh object unopened, and the caller throws it away.               *)
Open ==
  /\ ~opened
  /\ opened' = (file.state # "corrupt")
  /\ lst' = file.items
  /\ Reply({}, file.state # "corrupt", {})
  /\ UNCHANGED <<flag, file>>

(* Mutant: the search for a repeated id is dropped. *)
AddItemNoCheck(x) ==
  /\ lst' = IF opened THEN Append(lst, x) ELSE lst
  /\ Reply({x.id}, opened, {})
  /\ UNCHANGED <<flag, opened, file>>

AddItem(x) ==
  LET ok == opened /\ ~Has(lst, x.id)
  IN /\ lst' = IF ok THEN Append(lst, x) ELSE lst
     /\ Reply({x.id}, ok, {})
     /\ UNCHANGED <<flag, opened, file>>

DeleteItem(i) ==
  LET ok == opened /\ Has(lst, i)
  IN /\ lst' = IF ok THEN SwapRemove(lst, Find(lst, i)) ELSE lst
     /\ Reply({i}, ok, {})
     /\ UNCHANGED <<flag, opened, file>>

UpdateItem(i, x) ==
  LET ok == opened /\ i = x.id /\ Has(lst, i)
  IN /\ lst' = IF ok THEN SetAt(lst, Find(lst, i), x) ELSE lst
     /\ Reply({i}, ok, {})
     /\ UNCHANGED <<flag, opened, file>>

AddGroup(gid, name) == ~flag /\ AddItem([id |-> gid, group |-> name])
DeleteGroup(gid) == ~flag /\ DeleteItem(gid)
UpdateGroup(gid, name) ==
  ~flag /\ UpdateItem(gid, [id |-> gid, group |-> name])

AddQuestion(qap) == flag /\ AddItem(qap)
DeleteQuestion(qid) == flag /\ DeleteItem(qid)
UpdateQuestion(qid, dst) == flag /\ UpdateItem(qid, dst)

(* queryQuestion() hands out the answer of the question it finds; the item *)
(* stands for it.                                                          *)
QueryQuestion(qid) ==
  LET ok == opened /\ Has(lst, qid)
  IN /\ flag
     /\ Reply({qid}, ok, IF ok THEN {lst[Find(lst, qid)]} ELSE {})
     /\ UNCHANGED <<flag, opened, lst, file>>

(* getGroups() and getQuestions(). *)
GetAll ==
  /\ Reply({}, opened, IF opened THEN Elems(lst) ELSE {})
  /\ UNCHANGED <<flag, opened, lst, file>>

(* Mutant: the object is reused with the items it had. *)
GoneKeepsItems == opened' = FALSE /\ UNCHANGED <<flag, lst>>

(* The object is destroyed, after close() or with the process. *)
Gone ==
  /\ opened' = FALSE
  /\ lst' = <<>>
  /\ UNCHANGED flag

(* close(): an empty list removes the file, any other one replaces it. *)
Close ==
  /\ opened
  /\ file' = IF lst = <<>> THEN Absent ELSE Stored(lst)
  /\ Gone
  /\ UNCHANGED ret

Crash ==
  /\ opened
  /\ Gone
  /\ UNCHANGED <<file, ret>>

(* The process dies between the truncation of the file by std::ofstream    *)
(* and the end of SerializeToOstream: the bytes that got out end between   *)
(* two items or inside one.                                                *)
CrashInClose ==
  /\ opened
  /\ lst # <<>>
  /\ \/ \E n \in 0..Len(lst) : file' = Stored(SubSeq(lst, 1, n))
     \/ file' = Corrupt
  /\ Gone
  /\ UNCHANGED ret

Next ==
  \/ Open
  \/ \E g \in Ids, n \in Groups : AddGroup(g, n)
  \/ \E g \in Ids : DeleteGroup(g)
  \/ \E g \in Ids, n \in Groups : UpdateGroup(g, n)
  \/ \E q \in QuestionItem : AddQuestion(q)
  \/ \E i \in Ids : DeleteQuestion(i)
  \/ \E i \in Ids, q \in QuestionItem : UpdateQuestion(i, q)
  \/ \E i \in Ids : QueryQuestion(i)
  \/ GetAll
  \/ Close
  \/ Crash
  \/ CrashInClose

Spec == Init /\ [][Next]_vars

-----------------------------------------------------------------------------
(* The shape of the object's fields and of the file. *)
TypeOK ==
  /\ flag \in BOOLEAN
  /\ opened \in BOOLEAN
  /\ lst \in Seq(Item)
  /\ file \in [state : {"absent", "stored", "corrupt"}, items : Seq(Item)]
  /\ ret \in [of : SUBSET Ids, ok : BOOLEAN, out : SUBSET Item]
  /\ ~opened => lst = <<>>
  /\ file.state # "stored" => file.items = <<>>

Unique(l) == \A j, k \in DOMAIN l : l[j].id = l[k].id => j = k

(* No two items of an object, nor of the file it is saved to, ever share   *)
(* an id, whatever the order of adds, swap-removals, updates and restarts: *)
(* addGroup/addQuestion refuse a repeated id, and find_if on the others    *)
(* would otherwise reach only the first of the two.                        *)
UniqueIds == Unique(lst) /\ Unique(file.items)

Abs == INSTANCE ItemStore WITH
  items <- Elems(lst),
  file <- [state |-> file.state, items |-> Elems(file.items)]

(* The list with its swap-with-last removal behaves as a set of items      *)
(* keyed by id: deleteGroup/deleteQuestion remove the item asked for and   *)
(* no other, update replaces one item, close() followed by open() gives    *)
(* back the same set, and a crash gives back that of the last close().     *)
ImplementsItemStore == Abs!Spec
=============================================================================
