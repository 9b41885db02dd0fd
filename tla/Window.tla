------------------------------- MODULE Window -------------------------------
(***************************************************************************)
(* The editing side of the main window (src/ui/notebook.cpp) over the bank *)
(* of QuestionBank.tla.  The window has a tree of items of its own, built  *)
(* from the bank once, at the start.  A menu action calls the bank with    *)
(* the ids its items carry and then, when the bank returns true, makes the *)
(* same change to the items.  Nothing else keeps the two trees together:   *)
(* an operation that fails half way, or that reaches another group than    *)
(* the one that was meant, leaves the window with ids the bank may no      *)
(* longer have, and it goes on calling with them.                          *)
(***************************************************************************)
EXTENDS QuestionBank

VARIABLES
  items,      \* the group items: position -> [name, id, questions], where
              \* questions is id -> text
  picked      \* the selected item of the call that is under way

winVars == <<vars, items, picked>>

GroupItem(name, id) == [name |-> name, id |-> id, questions |-> <<>>]

(* m_ptrQuestion alone; its label is not looked at. *)
NoItems == [p \in {<<>>} |-> GroupItem(RootName, NoId)]

-----------------------------------------------------------------------------
(* initQuestionTree(): the items of the groups and their questions. *)
ItemsOf(t) ==
  [p \in DOMAIN t |->
     [name |-> t[p].name, id |-> t[p].id, questions |-> ItemsAt(t, p)]]

(* Mutant: the result of the operation is not looked at. *)
MirrorAlways(changed) ==
  /\ items' = IF run' = "off" THEN NoItems ELSE changed
  /\ picked' = <<>>

(* After the bank's operation: an aborted process has no window, a refused *)
(* operation leaves the items as they are.                                 *)
Mirror(changed) ==
  /\ items' = IF run' = "off" THEN NoItems
              ELSE IF refused' = "none" THEN changed
              ELSE items
  /\ picked' = <<>>

WinInit == Init /\ items = NoItems /\ picked = <<>>

(* The constructor: initQuestionBank(). *)
Show ==
  /\ Start
  /\ items' = IF run' = "on" THEN ItemsOf(tree') ELSE NoItems
  /\ UNCHANGED picked

(* The destructor, with a bank and without one, or the death of the        *)
(* process.  That is also what an editing click comes to in a window       *)
(* without a bank: it dereferences a null m_ptrBank.                       *)
Leave ==
  \/ Quit /\ UNCHANGED <<items, picked>>
  \/ (QuitFailed \/ Killed) /\ items' = NoItems /\ picked' = <<>>

(* What the parent of the item at p is called by. *)
Pid(p) == IF p = <<>> THEN NoId ELSE items[Front(p)].id

(* onBtnClickedAddGroup() *)
ClickAddGroup(p, name, id) ==
  /\ AddGroup(items[p].id, name, id)
  /\ Mirror(WithSubgroup(items, p, GroupItem(name, id)))

(* onBtnClickedDeleteGroup(), which ignores the top-level item. *)
ClickDeleteGroup(p, mayFail) ==
  /\ DeleteGroup(Pid(p), items[p].id, mayFail)
  /\ picked' = p
  /\ UNCHANGED items

(* onBtnClickedModifyGroup() *)
ClickModifyGroup(p, name, mayFail) ==
  /\ UpdateGroup(Pid(p), items[p].id, name, mayFail)
  /\ picked' = p
  /\ UNCHANGED items

(* The two slots once their call has returned. *)
Deleted == WithoutGroup(items, picked)
Modified == [items EXCEPT ![picked].name = call.name]

Work ==
  /\ GoOn
  /\ IF run' = "off" \/ (call # NoCall /\ call' = NoCall)
     THEN Mirror(IF call.op = "deleteGroup" THEN Deleted ELSE Modified)
     ELSE UNCHANGED <<items, picked>>

(* onBtnClickedAddQuestion() *)
ClickAddQuestion(p, q, t) ==
  /\ AddQuestion(items[p].id, q, t)
  /\ Mirror([items EXCEPT ![p].questions = With(@, q, t)])

(* onBtnClickedDeleteQuestion() *)
ClickDeleteQuestion(p, q) ==
  /\ DeleteQuestion(items[p].id, q)
  /\ Mirror([items EXCEPT ![p].questions = Without(@, {q})])

(* onBtnClickedModifyQuestion() *)
ClickModifyQuestion(p, q, t) ==
  /\ UpdateQuestion(items[p].id, q, t)
  /\ Mirror([items EXCEPT ![p].questions[q] = t])

(* What the window still shows is in use, though the bank may have lost it. *)
NewIds == FreshIds \ {items[p].id : p \in DOMAIN items}
NewQids == FreshQids \ UNION {DOMAIN items[p].questions : p \in DOMAIN items}

ClickGroup ==
  \/ \E p \in DOMAIN items, n \in Names, id \in NewIds : ClickAddGroup(p, n, id)
  \/ \E p \in DOMAIN items \ {<<>>}, mayFail \in BOOLEAN :
       ClickDeleteGroup(p, mayFail)
  \/ \E p \in DOMAIN items, n \in Names, mayFail \in BOOLEAN :
       ClickModifyGroup(p, n, mayFail)

ClickQuestion ==
  \/ \E p \in DOMAIN items, q \in NewQids, t \in Texts : ClickAddQuestion(p, q, t)
  \/ \E p \in DOMAIN items : \E q \in DOMAIN items[p].questions :
       ClickDeleteQuestion(p, q)
  \/ \E p \in DOMAIN items, t \in Texts : \E q \in DOMAIN items[p].questions :
       ClickModifyQuestion(p, q, t)

WinNext == Show \/ Leave \/ Work \/ ClickGroup \/ ClickQuestion

WinSpec == WinInit /\ [][WinNext]_winVars

-----------------------------------------------------------------------------
(* Where a group is, by the ids on the way to it. *)
Way(t, p) == [k \in DOMAIN p |-> t[SubSeq(p, 1, k)].id]

(* The groups and the questions of a tree, each with its place. *)
Places(t) == {Way(t, p) : p \in DOMAIN t}

ShownQuestions ==
  UNION {{<<Way(items, p), q, items[p].questions[q]>> :
            q \in DOMAIN items[p].questions} : p \in DOMAIN items}

HeldQuestions ==
  UNION {{<<Way(tree, p), q, ItemsAt(tree, p)[q]>> :
            q \in DOMAIN ItemsAt(tree, p)} : p \in DOMAIN tree}

(* The window shows all that the bank holds, at the place where the bank   *)
(* holds it: what will be saved can be seen and reached.                   *)
Covers ==
  Places(tree) \subseteq Places(items) /\ HeldQuestions \subseteq ShownQuestions

(* Every group has an id of its own. *)
Told(t) ==
  /\ \A p \in DOMAIN t \ {<<>>} : t[p].id # NoId
  /\ \A p, q \in DOMAIN t : t[p].id = t[q].id => p = q

(* No question is in two of the files that a group has open.  A file saved *)
(* under a stale path can leave a copy, which the next start opens in the  *)
(* same group: the window then lists the question twice under one id, of   *)
(* which items has the first, the one that calls with the id reach.        *)
NoCopies ==
  \A p \in DOMAIN tree : \A i, j \in DOMAIN tree[p].ctx :
    i # j => DOMAIN tree[p].ctx[i].items \cap DOMAIN tree[p].ctx[j].items = {}

(* No click hides a part of the bank while every group the window shows    *)
(* has an id of its own and no question a copy.  Failed deletions and      *)
(* renames, and calls with ids the bank has already dropped, leave the     *)
(* window with more than the bank holds, never with less.                  *)
NothingHidden == [][Told(items) /\ NoCopies /\ Covers => Covers']_winVars

(* How much of the bounds is used up. *)
Mishaps ==
  (MaxRenames - budget.renames) + (MaxCrashes - budget.crashes)
    + (MaxFaults - budget.faults)

(* As long as nothing was renamed, no deletion failed and the process did  *)
(* not die, the two trees show the same, names included, whenever the user *)
(* can click.                                                              *)
ShowsBank ==
  Mishaps = 0 /\ run # "closing" /\ call = NoCall =>
    /\ {<<Way(tree, p), tree[p].name>> : p \in DOMAIN tree \ {<<>>}}
         = {<<Way(items, p), items[p].name>> : p \in DOMAIN items \ {<<>>}}
    /\ HeldQuestions = ShownQuestions
=============================================================================
