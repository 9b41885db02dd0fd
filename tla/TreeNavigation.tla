--------------------------- MODULE TreeNavigation ---------------------------
(***************************************************************************)
(* The reading side of the main window (src/ui/notebook.cpp): the tree of  *)
(* items, the current item, the question and answer boxes, and the walk    *)
(* findTreeWidgetItem() takes from the current item to the previous or the *)
(* next question.  One turn of its loop is one step here: the walk need    *)
(* not end, and while it lasts the window does nothing else.               *)
(*                                                                         *)
(* The items are numbered 1, 2, ... in the order the tree shows them, so   *)
(* that an item comes before its children and these before the item's next *)
(* sibling.  Item 1 is the top-level item, the bank itself.                *)
(***************************************************************************)
EXTENDS Naturals

CONSTANT MaxItems  \* bound on the number of items of a tree

ASSUME MaxItemsAssumption == MaxItems \in Nat \ {0}

VARIABLES
  up,         \* up[i] is the parent of item i, 0 for the top-level item
  isGroup,    \* Qt::UserRole: is the item a group or a question?
  current,    \* the tree's current item, 0 while there is none
  question,   \* the item whose text the question box shows, 0 if empty
  answer,     \* the item whose answer the answer box shows, 0 if empty
              \* (both Gone when no item has the text any more)
  walk        \* findTreeWidgetItem's locals: [on, item, val, back]

tree == <<up, isGroup>>
vars == <<up, isGroup, current, question, answer, walk>>

-----------------------------------------------------------------------------
Items == DOMAIN up
Questions == {i \in Items : ~isGroup[i]}
Kids(i) == {j \in Items : up[j] = i}

(* What a box shows when the item was removed or has another text by now;  *)
(* only the edits of TreeEditing bring that about.                         *)
Gone == MaxItems + 1

(* Item j is i or below it: no item from i on to j hangs above i. *)
Inside(i, j) == i <= j /\ \A k \in (i + 1)..j : up[k] >= i

(* The numbering: an item's parent is a group, one of those around the     *)
(* item before it or that item itself.                                     *)
WellFormed ==
  /\ up[1] = 0 /\ isGroup[1]
  /\ \A i \in Items \ {1} :
       up[i] \in Items /\ isGroup[up[i]] /\ Inside(up[i], i - 1)

-----------------------------------------------------------------------------
(* The siblings of an item on the side the walk looks at; val = 0 asks for *)
(* the item itself.                                                        *)
Ahead(i, val) ==
  {j \in Kids(up[i]) : \/ val = "same" /\ j = i
                       \/ val = "last" /\ j < i
                       \/ val = "next" /\ j > i}

(* The one of a set of items that is met first. *)
Nearest(i, S, back) ==
  i \in S /\ \A j \in S : IF back THEN j <= i ELSE i <= j

Direction(back) == IF back THEN "last" ELSE "next"

NoWalk == [on |-> FALSE, item |-> 1, val |-> "next", back |-> FALSE]

Init ==
  /\ \E n \in 1..MaxItems : up \in [1..n -> 0..(n - 1)]
  /\ isGroup \in [Items -> BOOLEAN]
  /\ WellFormed
  /\ current = 0 /\ question = 0 /\ answer = 0
  /\ walk = NoWalk

Idle == ~walk.on /\ UNCHANGED tree

(* Mutant: a click leaves the answer box as it is. *)
LeftClickKeepsAnswer(i) ==
  /\ Idle
  /\ current' = i
  /\ question' = IF isGroup[i] THEN 0 ELSE i
  /\ UNCHANGED <<answer, walk>>

(* onTreeWidgetItemClicked() with the left button. *)
LeftClick(i) ==
  /\ Idle
  /\ current' = i
  /\ question' = IF isGroup[i] THEN 0 ELSE i
  /\ answer' = 0
  /\ UNCHANGED walk

(* The keyboard and the right button make an item current as well; the     *)
(* boxes stay as they are.                                                 *)
Select(i) ==
  /\ Idle
  /\ current' = i
  /\ UNCHANGED <<question, answer, walk>>

(* onBtnClickedShowAnswer(): a group has no answer, and a question need    *)
(* not have one; then a message is all that is shown.                      *)
ShowAnswer ==
  /\ Idle
  /\ current # 0 /\ ~isGroup[current]
  /\ answer' = current
  /\ UNCHANGED <<current, question, walk>>

(* onBtnClickedLastQuestion() and onBtnClickedNextQuestion() up to the     *)
(* loop; without a current item nothing happens.                           *)
Press(back) ==
  /\ Idle
  /\ current # 0
  /\ walk' = [on |-> TRUE, item |-> current, val |-> Direction(back), back |-> back]
  /\ UNCHANGED <<current, question, answer>>

(* The walk ends at the question i, which becomes current and is shown. *)
Found(i) ==
  /\ walk' = NoWalk
  /\ current' = i /\ question' = i /\ answer' = 0

(* The top-level item has no siblings: nullptr, and a message. *)
NotFound ==
  /\ walk.on /\ walk.item = 1
  /\ walk' = NoWalk
  /\ UNCHANGED <<up, isGroup, current, question, answer>>

GoOn(i, val) ==
  /\ walk' = [walk EXCEPT !.item = i, !.val = val]
  /\ UNCHANGED <<current, question, answer>>

(* Mutant: the walk stays on the parent instead of going past it. *)
ClimbOnto ==
  /\ walk.on /\ walk.item # 1
  /\ Ahead(walk.item, walk.val) = {}
  /\ GoOn(up[walk.item], "same")
  /\ UNCHANGED tree

(* No sibling is left on this side: on with the parent. *)
Climb ==
  /\ walk.on /\ walk.item # 1
  /\ Ahead(walk.item, walk.val) = {}
  /\ GoOn(up[walk.item], Direction(walk.back))
  /\ UNCHANGED tree

(* Mutant: a group is entered by its first child, whatever the direction. *)
VisitFirst(i) ==
  \/ ~isGroup[i] /\ Found(i)
  \/ isGroup[i] /\ Kids(i) = {} /\ GoOn(i, walk.val)
  \/ \E j \in Kids(i) :
       /\ Nearest(j, Kids(i), FALSE)
       /\ IF isGroup[j] THEN GoOn(j, "same") ELSE Found(j)

(* What the walk does with the sibling i, which may be a question, an      *)
(* empty group, or a group with the child j at its near end.  The next     *)
(* turn looks at j itself when that is a group.                            *)
Visit(i) ==
  \/ ~isGroup[i] /\ Found(i)
  \/ isGroup[i] /\ Kids(i) = {} /\ GoOn(i, walk.val)
  \/ \E j \in Kids(i) :
       /\ Nearest(j, Kids(i), walk.back)
       /\ IF isGroup[j] THEN GoOn(j, "same") ELSE Found(j)

(* On to the next sibling. *)
Enter ==
  /\ walk.on /\ walk.item # 1
  /\ \E i \in Ahead(walk.item, walk.val) :
       Nearest(i, Ahead(walk.item, walk.val), walk.back) /\ Visit(i)
  /\ UNCHANGED tree

Turn == NotFound \/ Climb \/ Enter

Next ==
  \/ \E i \in Items : LeftClick(i)
  \/ \E i \in Items : Select(i)
  \/ ShowAnswer
  \/ \E back \in BOOLEAN : Press(back)
  \/ Turn

(* The loop is computation: nothing it waits for can keep it from going on. *)
Spec == Init /\ [][Next]_vars /\ WF_vars(Turn)

-----------------------------------------------------------------------------
(* The shape of the tree, of what the window shows and of the walk. *)
TypeOK ==
  /\ \E n \in 1..MaxItems : up \in [1..n -> 0..(n - 1)]
  /\ isGroup \in [Items -> BOOLEAN]
  /\ WellFormed
  /\ current \in Items \cup {0}
  /\ {question, answer} \subseteq Questions \cup {0, Gone}
  /\ walk \in [on : BOOLEAN, item : Items, val : {"last", "same", "next"},
              back : BOOLEAN]
  /\ walk.on => /\ current # 0
                /\ walk.val \in {"same", Direction(walk.back)}
                /\ walk.item = 1 => walk.val # "same"

(* The questions shown before the item i, or after it. *)
InOrder(i, back) == {j \in Questions : IF back THEN j < i ELSE j > i}

(* The step in which a walk ends goes to the nearest of these questions, or *)
(* to nothing when there are none.                                         *)
GoesToNearest(S) ==
  IF S = {} THEN UNCHANGED <<current, question, answer>>
  ELSE Nearest(current', S, walk.back) /\ question' = current' /\ answer' = 0

(* From a question either button, and from a group the one that goes back, *)
(* leads to the question nearest to it in the order in which the tree      *)
(* shows them, however deep either of them is, and to nullptr only when    *)
(* there is none on that side.                                             *)
FindsNeighbour ==
  [][walk.on /\ ~walk'.on /\ (walk.back \/ ~isGroup[current]) =>
       GoesToNearest(InOrder(current, walk.back))]_vars

(* The next button does not go into the group it is pressed on: it leads   *)
(* to the nearest question after all that is in the group, and to nullptr  *)
(* when there is none there, however many questions the group has.         *)
PassesGroup ==
  [][walk.on /\ ~walk'.on /\ ~walk.back /\ isGroup[current] =>
       GoesToNearest({j \in InOrder(current, FALSE) : ~Inside(current, j)})]_vars

(* "已到最后一个！", "已到第一个！": the messages shown for nullptr say that *)
(* this was the last question, or the first one.                           *)
SaysEndAtEnd ==
  [][NotFound => InOrder(current, walk.back) = {}]_vars

(* The questions the walk of a button heads for when it starts at i. *)
Beyond(i, back) ==
  {j \in Questions : IF back THEN j < i ELSE j > i /\ ~Inside(i, j)}

(* The questions the walk can still come to. *)
Remaining ==
  Beyond(walk.item, walk.back) \cup
    {j \in Questions : walk.val = "same" /\ Inside(walk.item, j)}

(* No turn of the loop passes a question or goes back to one: what is      *)
(* ahead of the walk is what was ahead of the item it started from.        *)
KeepsTarget == walk.on => Remaining = Beyond(current, walk.back)

(* A group whose first child (last, going back) is an empty group. *)
HasTrap(back) ==
  \E g, i \in Items : Nearest(i, Kids(g), back) /\ isGroup[i] /\ Kids(i) = {}

(* A walk through a tree without such a group ends, however deep the tree. *)
WalkEnds == (walk.on /\ ~HasTrap(walk.back)) ~> ~walk.on

(* "获取上一个/下一个item": the function gets an item, or finds that there *)
(* is none, and returns.                                                   *)
WalkReturns == walk.on ~> ~walk.on

(* "显示题解": what the answer box shows answers the question in the       *)
(* question box.                                                           *)
AnswerBelongs == answer # 0 => answer = question
=============================================================================
