-------------------------------- MODULE Bank --------------------------------
(***************************************************************************)
(* What the window relies on when it talks to CQuestionBankImpl: a tree of *)
(* named groups with questions in them, kept from one session to the next. *)
(* Closing the program and starting it again changes nothing.              *)
(* QuestionBank.tla is shown to implement this as long as no group is      *)
(* renamed and nothing fails or crashes; what happens otherwise is         *)
(* examined there.                                                         *)
(***************************************************************************)
CONSTANTS
  Ids,        \* group ids
  RootId,     \* the parent of the top groups
  GroupNames, \* group names
  Qids,       \* question ids
  Texts       \* question and answer texts

VARIABLES
  on,         \* a session is running
  groups,     \* group id -> [parent, name]
  questions,  \* group id -> (question id -> text)
  refused     \* the operation that was refused, or "none"

vars == <<on, groups, questions, refused>>

With(f, x, y) == [z \in DOMAIN f \cup {x} |-> IF z = x THEN y ELSE f[z]]
Without(f, S) == [x \in DOMAIN f \ S |-> f[x]]

(* g and every group below it: the least set that holds g and the children *)
(* of its members.                                                         *)
Subtree(g) ==
  LET Closed(S) == /\ g \in S
                   /\ \A h \in DOMAIN groups : groups[h].parent \in S => h \in S
  IN {h \in DOMAIN groups : \A S \in SUBSET DOMAIN groups : Closed(S) => h \in S}

Done == on /\ refused' = "none" /\ UNCHANGED on

Init ==
  /\ on = FALSE
  /\ groups = <<>>
  /\ questions = <<>>
  /\ refused = "none"

Start == ~on /\ on' = TRUE /\ refused' = "none" /\ UNCHANGED <<groups, questions>>
Quit == on /\ on' = FALSE /\ refused' = "none" /\ UNCHANGED <<groups, questions>>

(* Group names are unique in the whole bank. *)
AddGroup(p, g, n) ==
  /\ Done
  /\ p \in DOMAIN groups \cup {RootId}
  /\ g \notin DOMAIN groups
  /\ \A h \in DOMAIN groups : groups[h].name # n
  /\ groups' = With(groups, g, [parent |-> p, name |-> n])
  /\ questions' = With(questions, g, <<>>)

DeleteGroup(g) ==
  /\ Done
  /\ g \in DOMAIN groups
  /\ groups' = Without(groups, Subtree(g))
  /\ questions' = Without(questions, Subtree(g))

UpdateGroup(g, n) ==
  /\ Done
  /\ g \in DOMAIN groups
  /\ \A h \in DOMAIN groups \ {g} : groups[h].name # n
  /\ groups' = [groups EXCEPT ![g].name = n]
  /\ UNCHANGED questions

AddQuestion(g, q, t) ==
  /\ Done
  /\ g \in DOMAIN groups
  /\ \A h \in DOMAIN groups : q \notin DOMAIN questions[h]
  /\ questions' = [questions EXCEPT ![g] = With(@, q, t)]
  /\ UNCHANGED groups

UpdateQuestion(g, q, t) ==
  /\ Done
  /\ g \in DOMAIN groups /\ q \in DOMAIN questions[g]
  /\ questions' = [questions EXCEPT ![g][q] = t]
  /\ UNCHANGED groups

DeleteQuestion(g, q) ==
  /\ Done
  /\ g \in DOMAIN groups /\ q \in DOMAIN questions[g]
  /\ questions' = [questions EXCEPT ![g] = Without(@, {q})]
  /\ UNCHANGED groups

QueryQuestion(g, q) ==
  /\ Done
  /\ g \in DOMAIN groups /\ q \in DOMAIN questions[g]
  /\ UNCHANGED <<groups, questions>>

(* A refused operation leaves the bank as it was.  Deleting a group, and   *)
(* changing or deleting a question that is there, are never refused.       *)
Refuse ==
  /\ on
  /\ refused' \in {"addGroup", "updateGroup", "addQuestion", "queryQuestion"}
  /\ UNCHANGED <<on, groups, questions>>

Next ==
  \/ Start
  \/ Quit
  \/ \E p \in Ids \cup {RootId}, g \in Ids, n \in GroupNames : AddGroup(p, g, n)
  \/ \E g \in Ids : DeleteGroup(g)
  \/ \E g \in Ids, n \in GroupNames : UpdateGroup(g, n)
  \/ \E g \in Ids, q \in Qids, t \in Texts :
       AddQuestion(g, q, t) \/ UpdateQuestion(g, q, t)
  \/ \E g \in Ids, q \in Qids : DeleteQuestion(g, q) \/ QueryQuestion(g, q)
  \/ Refuse

Spec == Init /\ [][Next]_vars

-----------------------------------------------------------------------------
(* Groups form a tree: a group's parent is a group of the bank or the      *)
(* root, whatever subtrees deleteGroup() removes.                          *)
ParentsExist ==
  groups \in [DOMAIN groups -> [parent : DOMAIN groups \cup {RootId},
                               name : GroupNames]]

(* A name is enough to know a group by, which is how init() knows them.    *)
NamesUnique ==
  \A g, h \in DOMAIN groups : groups[g].name = groups[h].name => g = h

(* Every group has questions, a question is in one group only, and none is *)
(* left of a group that is gone.                                           *)
QuestionsPlaced ==
  /\ DOMAIN questions = DOMAIN groups
  /\ \A g, h \in DOMAIN questions : \A q \in DOMAIN questions[g] :
       q \in DOMAIN questions[h] => g = h

BankSound == ParentsExist /\ NamesUnique /\ QuestionsPlaced
=============================================================================
