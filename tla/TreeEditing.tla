---------------------------- MODULE TreeEditing ----------------------------
(***************************************************************************)
(* The reading side of the main window while the tree is edited: the slots *)
(* of the context menu (src/ui/notebook.cpp) add, remove and change items  *)
(* between the walks of TreeNavigation.  They touch neither the question   *)
(* nor the answer box, which may go on showing what no item says any more, *)
(* and a removal makes another item current without a click.               *)
(*                                                                         *)
(* An operation the bank refuses leaves the tree as it is.  Items keep the *)
(* numbers of the order shown, so an edit renumbers those that follow.     *)
(***************************************************************************)
EXTENDS TreeNavigation

VARIABLE
  strayed     \* history: since the boxes were last filled together, another
              \* item became current or the question shown was edited

editVars == <<vars, strayed>>

(* Item last is the last one of those that i consists of, i and below. *)
EndsAt(i, last) ==
  Inside(i, last) /\ (last + 1 \in Items => ~Inside(i, last + 1))

(* What the boxes show, under the new numbers of the items. *)
Renumber(New(_)) ==
  /\ question' = IF question \in Items THEN New(question) ELSE question
  /\ answer' = IF answer \in Items THEN New(answer) ELSE answer

EditInit == Init /\ strayed = FALSE

-----------------------------------------------------------------------------
(* onBtnClickedAddGroup() and onBtnClickedAddQuestion(), which the menu    *)
(* has for groups: a new last child of the current item.                   *)
AddItem(group) ==
  /\ ~walk.on
  /\ current # 0 /\ isGroup[current]
  /\ \E size, last \in Items :
       LET new == last + 1
           New(i) == IF i < new THEN i ELSE i + 1
           Old(i) == IF i < new THEN i ELSE i - 1
       IN /\ EndsAt(1, size) /\ EndsAt(current, last)
          /\ size < MaxItems
          /\ up' = [i \in 1..(size + 1) |->
                      IF i = new THEN current ELSE New(up[Old(i)])]
          /\ isGroup' = [i \in 1..(size + 1) |->
                           IF i = new THEN group ELSE isGroup[Old(i)]]
          /\ Renumber(New)
  /\ UNCHANGED <<current, walk, strayed>>

(* Qt makes a neighbour or the parent of a removed item current. *)
Neighbours(i) == {up[i]} \cup (Kids(up[i]) \ {i})

(* onBtnClickedDeleteGroup() and onBtnClickedDeleteQuestion(); the first   *)
(* ignores the top-level item and the second is not offered there.         *)
RemoveItem ==
  /\ ~walk.on
  /\ current \notin {0, 1}
  /\ \E size, last \in Items :
       LET removed == last - current + 1
           New(i) == IF i < current THEN i
                     ELSE IF i <= last THEN Gone ELSE i - removed
           Old(i) == IF i < current THEN i ELSE i + removed
       IN /\ EndsAt(1, size) /\ EndsAt(current, last)
          /\ up' = [i \in 1..(size - removed) |-> New(up[Old(i)])]
          /\ isGroup' = [i \in 1..(size - removed) |-> isGroup[Old(i)]]
          /\ Renumber(New)
          /\ \E i \in Neighbours(current) : current' = New(i)
  /\ strayed' = TRUE
  /\ UNCHANGED walk

(* onBtnClickedModifyQuestion(): the text, the answer, both or neither are *)
(* other ones now.  onBtnClickedModifyGroup() changes nothing seen here.   *)
ModifyQuestion ==
  /\ Idle
  /\ current # 0 /\ ~isGroup[current]
  /\ question' \in {question, IF question = current THEN Gone ELSE question}
  /\ answer' \in {answer, IF answer = current THEN Gone ELSE answer}
  /\ strayed' = TRUE
  /\ UNCHANGED <<current, walk>>

-----------------------------------------------------------------------------
Click(i) == LeftClick(i) /\ strayed' = FALSE

MoveTo(i) == Select(i) /\ strayed' = (strayed \/ i # current)

Walk ==
  /\ Turn
  /\ strayed' = (strayed /\ (walk'.on \/ walk.item = 1))

EditNext ==
  \/ \E i \in Items : Click(i)
  \/ \E i \in Items : MoveTo(i)
  \/ ShowAnswer /\ UNCHANGED strayed
  \/ \E back \in BOOLEAN : Press(back) /\ UNCHANGED strayed
  \/ Walk
  \/ \E group \in BOOLEAN : AddItem(group)
  \/ RemoveItem
  \/ ModifyQuestion

EditSpec == EditInit /\ [][EditNext]_editVars /\ WF_editVars(Walk)

-----------------------------------------------------------------------------
(* The answer shown is that of the question shown, or none is, as long as  *)
(* the current item is the one a left click or one of the two buttons      *)
(* chose and its question was not edited: every way to fill the question   *)
(* box empties the answer box, whatever was added meanwhile.               *)
AnswerFollows == ~strayed => answer \in {0, question}
=============================================================================
