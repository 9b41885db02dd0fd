------------------------ MODULE QuestionDialogProofs ------------------------
(***************************************************************************)
(* Proofs about QuestionDialog, for every set of question texts.  That a   *)
(* user who waits can ask again is a liveness property and left to TLC.    *)
(***************************************************************************)
EXTENDS QuestionDialog, TLAPS

(* The client's requests were asked by the dialog that owns it, end with   *)
(* it, and are out only after the last reply was overwritten: what         *)
(* OneRequest needs when the next dialog is opened, and ReplyReachesAsker  *)
(* when a reply comes or the dialog goes.  A question that was not edited  *)
(* is the one asked, which is what makes AnswersQuestion inductive.        *)
OwnsRequests ==
  /\ requests \subseteq asked
  /\ phase = "closed" => requests = {}
  /\ requests # {} => answer.from # "reply"
  /\ ~edited => requests \subseteq {question}

Inv == TypeOK /\ OneRequest /\ OwnsRequests /\ AnswersQuestion

(* A waiting text is in the box while the request is out, or because the   *)
(* stored answer, which the dialog was opened with, already is one.        *)
WaitingTextHeld ==
  phase # "closed" /\ answer.from = "waiting"
    => requests # {} \/ item.answer.from = "waiting"

(* A text that is asked for is one of the questions. *)
LEMMA TrimmedIsQuestion ==
  ASSUME NEW text \in Texts, Trimmed(text) # Empty
  PROVE  text \in Questions /\ Trimmed(text) = text
  BY TextsAssumption DEF Texts, Trimmed

(* Message boxes pile up and come off the top. *)
LEMMA ShowType ==
  ASSUME TypeOK, NEW box \in Boxes, Show(box)
  PROVE  boxes' \in Seq(Boxes)
<1>1. boxes \in Seq(Boxes)
  BY DEF TypeOK
<1>2. boxes' = Append(boxes, box)
  BY DEF Show
<1> QED BY <1>1, <1>2

LEMMA DismissType ==
  ASSUME TypeOK, Dismiss
  PROVE  boxes' \in Seq(Boxes)
<1>1. boxes \in Seq(Boxes) /\ boxes # <<>>
  BY DEF TypeOK, Dismiss
<1>2. boxes' = SubSeq(boxes, 1, Len(boxes) - 1)
  BY DEF Dismiss
<1>3. Len(boxes) - 1 \in Nat
  BY <1>1
<1> QED BY <1>1, <1>2, <1>3

LEMMA InitInv == Init => Inv
  BY DEF Init, Inv, TypeOK, OneRequest, OwnsRequests, AnswersQuestion, NoItem,
         From, Texts, AnswerTexts, Sources

(* A message box alone changes nothing else. *)
LEMMA ShowInv ==
  ASSUME Inv, NEW box \in Boxes, Show(box),
         UNCHANGED <<phase, dialog, requests, history, item>>
  PROVE  Inv'
<1>1. boxes' \in Seq(Boxes)
  BY ShowType DEF Inv
<1>2. TypeOK'
  BY <1>1 DEF dialog, history, Inv, TypeOK
<1>3. (OneRequest /\ OwnsRequests /\ AnswersQuestion)'
  BY DEF dialog, history, Inv, OneRequest, OwnsRequests, AnswersQuestion
<1> QED BY <1>2, <1>3 DEF Inv

LEMMA OpenInv ==
  ASSUME Inv, NEW x \in {NoItem, item}, Open(x)
  PROVE  Inv'
<1>1. x.question \in Texts /\ x.answer \in AnswerTexts
  BY DEF NoItem, From, Inv, TypeOK, Texts, AnswerTexts, Sources
<1>2. requests = {}
  BY DEF Open, Inv, OwnsRequests
<1>3. TypeOK'
  BY <1>1 DEF Open, Inv, TypeOK
<1>4. (OneRequest /\ OwnsRequests /\ AnswersQuestion)'
  BY <1>2 DEF Open, OneRequest, OwnsRequests, AnswersQuestion
<1> QED BY <1>3, <1>4 DEF Inv

LEMMA AskInv ==
  ASSUME Inv, Ask
  PROVE  Inv'
<1>1. CASE Trimmed(question) = Empty
  <2>1. Show("no question") /\ "no question" \in Boxes
        /\ UNCHANGED <<phase, dialog, requests, history, item>>
    BY <1>1 DEF Ask, dialog, Boxes
  <2> QED BY <2>1, ShowInv
<1>2. CASE Trimmed(question) # Empty
  <2>1. question \in Questions /\ Trimmed(question) = question
    BY <1>2, TrimmedIsQuestion DEF Inv, TypeOK
  <2>2. requests = {} /\ phase # "closed"
    BY DEF Ask, Reachable, Inv, OneRequest
  <2>3. From("waiting") \in AnswerTexts
    BY DEF From, AnswerTexts, Sources, Texts
  <2>4. From("waiting").from # "reply"
    BY DEF From
  <2>5. TypeOK'
    BY <1>2, <2>1, <2>3 DEF Ask, Inv, TypeOK
  <2>6. OneRequest'
    BY <1>2, <2>2 DEF Ask, OneRequest
  <2>7. (OwnsRequests /\ AnswersQuestion)'
    BY <1>2, <2>1, <2>2, <2>4 DEF Ask, Inv, OwnsRequests, AnswersQuestion
  <2> QED BY <2>5, <2>6, <2>7 DEF Inv
<1> QED BY <1>1, <1>2

LEMMA FinishedInv ==
  ASSUME Inv, NEW q \in requests, NEW reply \in Replies, OnReplyFinished(q, reply)
  PROVE  Inv'
<1>1. q \in Questions /\ requests' = {} /\ phase # "closed"
  BY DEF OnReplyFinished, Inv, TypeOK, OneRequest, OwnsRequests
<1>2. ReplyTo(q) \in AnswerTexts /\ From("error") \in AnswerTexts
  BY <1>1 DEF ReplyTo, From, AnswerTexts, Sources, Texts
<1>3. CASE OnRecvAnswer(q)
  <2>1. TypeOK'
    BY <1>1, <1>2, <1>3 DEF OnRecvAnswer, OnReplyFinished, history, Inv, TypeOK
  <2>2. (OneRequest /\ OwnsRequests)'
    BY <1>1, <1>3 DEF OnRecvAnswer, OnReplyFinished, history, Inv, OneRequest,
                      OwnsRequests
  <2>3. AnswersQuestion'
    BY <1>3 DEF OnRecvAnswer, ReplyTo, OnReplyFinished, history, Inv,
                OwnsRequests, AnswersQuestion
  <2> QED BY <2>1, <2>2, <2>3 DEF Inv
<1>4. CASE OnRecvError
  <2>1. boxes' \in Seq(Boxes)
    BY <1>4, ShowType DEF OnRecvError, Boxes, Inv
  <2>2. TypeOK'
    BY <1>1, <1>2, <1>4, <2>1
      DEF OnRecvError, OnReplyFinished, history, Inv, TypeOK
  <2>3. (OneRequest /\ OwnsRequests /\ AnswersQuestion)'
    BY <1>1, <1>4 DEF OnRecvError, From, OnReplyFinished, history, Inv,
                      OneRequest, OwnsRequests, AnswersQuestion
  <2> QED BY <2>2, <2>3 DEF Inv
<1> QED BY <1>3, <1>4 DEF OnReplyFinished

LEMMA DestroyInv ==
  ASSUME Inv, Destroy, boxes' \in Seq(Boxes),
         item' \in [question : Texts, answer : AnswerTexts]
  PROVE  Inv'
  BY DEF Destroy, dialog, history, Inv, TypeOK, OneRequest, OwnsRequests,
         AnswersQuestion

LEMMA NextInv == Inv /\ [Next]_vars => Inv'
<1> SUFFICES ASSUME Inv, [Next]_vars PROVE Inv'
  OBVIOUS
<1>1. CASE OpenForNew \/ OpenForOld
  BY <1>1, OpenInv DEF OpenForNew, OpenForOld
<1>2. ASSUME NEW text \in Texts, TypeQuestion(text) PROVE Inv'
  BY <1>2 DEF TypeQuestion, Inv, TypeOK, OneRequest, OwnsRequests,
              AnswersQuestion
<1>3. CASE TypeAnswer
  BY <1>3 DEF TypeAnswer, history, From, Inv, TypeOK, OneRequest, OwnsRequests,
              AnswersQuestion, AnswerTexts, Sources, Texts
<1>4. CASE Ask
  BY <1>4, AskInv
<1>5. CASE Finished
  BY <1>5, FinishedInv DEF Finished
<1>6. CASE Confirm
  <2>1. CASE Destroy /\ UNCHANGED boxes
                     /\ item' = [question |-> question, answer |-> answer]
    BY <2>1, DestroyInv DEF Inv, TypeOK
  <2>2. CASE Show("no question")
              /\ UNCHANGED <<phase, dialog, requests, history, item>>
    BY <2>2, ShowInv DEF Boxes
  <2>3. CASE phase' = "refused" /\ Show("refused")
              /\ UNCHANGED <<dialog, requests, history, item>>
    <3>1. boxes' \in Seq(Boxes)
      BY <2>3, ShowType DEF Boxes, Inv
    <3>2. TypeOK'
      BY <2>3, <3>1 DEF dialog, history, Inv, TypeOK
    <3>3. (OneRequest /\ OwnsRequests /\ AnswersQuestion)'
      BY <1>6, <2>3 DEF Confirm, Reachable, dialog, history, Inv, OneRequest,
                        OwnsRequests, AnswersQuestion
    <3> QED BY <3>2, <3>3 DEF Inv
  <2> QED BY <1>6, <2>1, <2>2, <2>3 DEF Confirm
<1>7. CASE Cancel
  BY <1>7, DestroyInv DEF Cancel, Inv, TypeOK
<1>8. CASE Dismiss
  <2>1. boxes' \in Seq(Boxes)
    BY <1>8, DismissType DEF Inv
  <2>2. CASE Destroy
    BY <1>8, <2>1, <2>2, DestroyInv DEF Dismiss, Inv, TypeOK
  <2>3. CASE UNCHANGED <<phase, dialog, requests, history>>
    BY <1>8, <2>1, <2>3 DEF Dismiss, dialog, history, Inv, TypeOK, OneRequest,
                            OwnsRequests, AnswersQuestion
  <2> QED BY <1>8, <2>2, <2>3 DEF Dismiss
<1>9. CASE UNCHANGED vars
  BY <1>9 DEF vars, dialog, history, Inv, TypeOK, OneRequest, OwnsRequests,
              AnswersQuestion
<1> QED BY <1>1, <1>2, <1>3, <1>4, <1>5, <1>6, <1>7, <1>8, <1>9 DEF Next

(* The dialog's fields, its requests and its message boxes keep their      *)
(* types.                                                                  *)
THEOREM TypeCorrect == Spec => []TypeOK
<1>1. Inv => TypeOK
  BY DEF Inv
<1> QED BY InitInv, NextInv, <1>1, PTL DEF Spec

(* The ask button is disabled exactly while the one request is out, in     *)
(* every order of typing, asking, replies and message boxes.               *)
THEOREM AtMostOneRequest == Spec => []OneRequest
<1>1. Inv => OneRequest
  BY DEF Inv
<1> QED BY InitInv, NextInv, <1>1, PTL DEF Spec

(* A reply to the question asked last is the only one that can come: what  *)
(* is shown answers the question that is shown, unless that was edited.    *)
THEOREM RepliesAnswerQuestion == Spec => []AnswersQuestion
<1>1. Inv => AnswersQuestion
  BY DEF Inv
<1> QED BY InitInv, NextInv, <1>1, PTL DEF Spec

(* A reply is shown only by the dialog that asked for it. *)
THEOREM RepliesReachAskers == Spec => ReplyReachesAsker
<1>1. Inv /\ [Next]_vars =>
        [requests' # requests /\ answer'.from = "reply" /\ phase # "closed"
           => answer'.to \in asked]_vars
  <2> SUFFICES ASSUME Inv, Next, requests' # requests, answer'.from = "reply",
                      phase # "closed"
               PROVE  answer'.to \in asked
    OBVIOUS
  <2>1. requests \subseteq asked /\ (\A q, r \in requests : q = r)
    BY DEF Inv, OneRequest, OwnsRequests, AnswersQuestion
  <2>2. CASE Ask
    <3>1. answer' = From("waiting") \/ UNCHANGED requests
      BY <2>2 DEF Ask
    <3> QED BY <3>1 DEF From
  <2>3. CASE Finished
    BY <2>1, <2>3 DEF Finished, OnReplyFinished, OnRecvAnswer, OnRecvError,
                      ReplyTo, From
  <2>4. ASSUME requests # {}, UNCHANGED answer PROVE FALSE
    BY <2>4 DEF Inv, OwnsRequests
  <2>5. CASE Confirm \/ Cancel \/ Dismiss
    BY <2>4, <2>5 DEF Confirm, Cancel, Dismiss, Destroy, dialog
  <2>6. ASSUME UNCHANGED requests PROVE FALSE
    BY <2>6
  <2> QED BY <2>2, <2>3, <2>5, <2>6
        DEF Next, OpenForNew, OpenForOld, Open, TypeQuestion, TypeAnswer
<1> QED BY InitInv, NextInv, <1>1, PTL DEF Spec, ReplyReachesAsker

(* The waiting text goes when the request does: the same argument with     *)
(* WaitingTextHeld, one step per action that touches the box, the requests *)
(* or the stored item.                                                     *)
LEMMA WaitingTextStays ==
  ASSUME Inv, WaitingTextHeld, [Next]_vars
  PROVE  WaitingTextHeld'
<1>1. CASE OpenForNew \/ OpenForOld
  BY <1>1 DEF OpenForNew, OpenForOld, Open, NoItem, From, WaitingTextHeld
<1>2. CASE (\E text \in Texts : TypeQuestion(text)) \/ TypeAnswer
  BY <1>2 DEF TypeQuestion, TypeAnswer, From, WaitingTextHeld
<1>3. CASE Ask
  <2>1. \/ requests' # {}
        \/ UNCHANGED <<phase, answer, requests, item>>
    BY <1>3 DEF Ask
  <2> QED BY <2>1 DEF WaitingTextHeld
<1>4. CASE Finished
  BY <1>4 DEF Finished, OnReplyFinished, OnRecvAnswer, OnRecvError, ReplyTo,
              From, WaitingTextHeld
<1>5. CASE Confirm \/ Cancel \/ Dismiss
  BY <1>5 DEF Confirm, Reachable, Cancel, Dismiss, Destroy, dialog,
              WaitingTextHeld
<1>6. CASE UNCHANGED vars
  BY <1>6 DEF vars, dialog, WaitingTextHeld
<1> QED BY <1>1, <1>2, <1>3, <1>4, <1>5, <1>6 DEF Next

(* Only confirming while a request is out stores the waiting text. *)
THEOREM WaitingTextNotKept == Spec => WaitingTextEnds
<1>1. Init => WaitingTextHeld
  BY DEF Init, WaitingTextHeld
<1>2. Inv /\ WaitingTextHeld /\ [Next]_vars =>
        [item'.answer.from = "waiting"
           => item.answer.from = "waiting" \/ requests # {}]_vars
  <2> SUFFICES ASSUME WaitingTextHeld, Next, item' # item,
                      item'.answer.from = "waiting"
               PROVE  requests # {} \/ item.answer.from = "waiting"
    OBVIOUS
  <2>1. Confirm
    BY DEF Next, OpenForNew, OpenForOld, Open, TypeQuestion, TypeAnswer, Ask,
           Finished, OnReplyFinished, Cancel, Dismiss
  <2>2. Reachable /\ item' = [question |-> question, answer |-> answer]
    BY <2>1 DEF Confirm
  <2>3. item'.answer = answer
    BY <2>2
  <2> QED BY <2>2, <2>3 DEF Reachable, WaitingTextHeld
<1> QED BY InitInv, NextInv, WaitingTextStays, <1>1, <1>2, PTL
      DEF Spec, WaitingTextEnds
=============================================================================
