--------------------------- MODULE QuestionDialog ---------------------------
(***************************************************************************)
(* The question dialog (src/ui/question_dashboard.cpp), its QwenClient     *)
(* (src/ui/qwenclient.cpp) and the slots of the window that open it and    *)
(* store what it returns (src/ui/notebook.cpp).                            *)
(*                                                                         *)
(* A request to the language model is answered while the user goes on      *)
(* typing, confirms, cancels, or reads a message box: message boxes are    *)
(* modal and run an event loop of their own, in which replies still        *)
(* arrive.  The dialog object, and with it the client and its outstanding  *)
(* requests, lives until the window's slot returns.                        *)
(*                                                                         *)
(* A text in the answer box is told apart by where it comes from.          *)
(***************************************************************************)
EXTENDS Naturals, Sequences

CONSTANTS
  Questions,  \* question texts
  Empty,      \* the empty text
  Blank       \* a text of white space only

ASSUME TextsAssumption ==
  Empty # Blank /\ Empty \notin Questions /\ Blank \notin Questions

VARIABLES
  phase,      \* of the dialog: "closed", "open", or "refused", which is
              \* after Confirm, while the window says that storing failed
  question,   \* m_edtQuestion
  answer,     \* m_edtAnswer: [from, to], to being the question answered
  askEnabled, \* m_btnAnswer
  requests,   \* the questions posted and not yet finished
  boxes,      \* the message boxes that are open, the last one on top
  asked,      \* history: the questions this dialog has posted
  edited,     \* history: the question was typed or set after the last post
  item        \* what the bank stores of the question edited last

dialog == <<question, answer, askEnabled>>
history == <<asked, edited>>
vars == <<phase, dialog, requests, boxes, history, item>>

Texts == Questions \cup {Empty, Blank}

From(source) == [from |-> source, to |-> Empty]
ReplyTo(q) == [from |-> "reply", to |-> q]
NoItem == [question |-> Empty, answer |-> From("nobody")]

(* Mutant: the text is not trimmed. *)
Untrimmed(text) == text

(* QString::trimmed() *)
Trimmed(text) == IF text = Blank THEN Empty ELSE text

Init ==
  /\ phase = "closed"
  /\ question = Empty /\ answer = From("nobody") /\ askEnabled = TRUE
  /\ requests = {} /\ boxes = <<>> /\ asked = {} /\ edited = TRUE
  /\ item = NoItem

(* The user can reach the dialog: it is open and no message box is. *)
Reachable == phase = "open" /\ boxes = <<>>

Show(box) == boxes' = Append(boxes, box)

-----------------------------------------------------------------------------
(* A dialog for a new question, or for the one edited last. *)
Open(x) ==
  /\ phase = "closed"
  /\ phase' = "open"
  /\ question' = x.question /\ answer' = x.answer /\ askEnabled' = TRUE
  /\ asked' = {} /\ edited' = TRUE
  /\ UNCHANGED <<requests, boxes, item>>

OpenForNew == Open(NoItem)
OpenForOld == item # NoItem /\ Open(item)

TypeQuestion(text) ==
  /\ Reachable
  /\ question' = text /\ edited' = TRUE
  /\ UNCHANGED <<phase, answer, askEnabled, requests, boxes, asked, item>>

TypeAnswer ==
  /\ Reachable
  /\ answer' = From("user")
  /\ UNCHANGED <<phase, question, askEnabled, requests, boxes, history, item>>

(* Mutant: the button is left enabled. *)
AskAndAskAgain ==
  /\ Reachable /\ askEnabled
  /\ IF Trimmed(question) = Empty
     THEN Show("no question") /\ UNCHANGED <<answer, requests, history>>
     ELSE /\ answer' = From("waiting")
          /\ requests' = requests \cup {Trimmed(question)}
          /\ asked' = asked \cup {Trimmed(question)} /\ edited' = FALSE
          /\ UNCHANGED boxes
  /\ UNCHANGED <<phase, question, askEnabled, item>>

(* onBtnClickedAnswer() and askQuestion() *)
Ask ==
  /\ Reachable /\ askEnabled
  /\ IF Trimmed(question) = Empty
     THEN Show("no question") /\ UNCHANGED <<answer, askEnabled, requests, history>>
     ELSE /\ answer' = From("waiting")
          /\ askEnabled' = FALSE
          /\ requests' = requests \cup {Trimmed(question)}
          /\ asked' = asked \cup {Trimmed(question)} /\ edited' = FALSE
          /\ UNCHANGED boxes
  /\ UNCHANGED <<phase, question, item>>

OnRecvAnswer(q) ==
  /\ askEnabled' = TRUE
  /\ answer' = ReplyTo(q)
  /\ UNCHANGED boxes

(* Mutant: only a good answer enables the button again. *)
OnRecvErrorNoEnable ==
  /\ answer' = From("error")
  /\ Show("error")
  /\ UNCHANGED askEnabled

(* Mutant: the error is only reported in a message box. *)
OnRecvErrorBoxOnly ==
  /\ askEnabled' = TRUE
  /\ Show("error")
  /\ UNCHANGED answer

OnRecvError ==
  /\ askEnabled' = TRUE
  /\ answer' = From("error")
  /\ Show("error")

(* What the service's reply may be: no reply at all, a body with a message *)
(* in its first choice, or any other body.                                 *)
Replies == {"network error", "message", "other body"}

Signal(reply) == IF reply = "message" THEN "answerReceived" ELSE "requestError"

(* onReplyFinished() emits one of the two signals, to slots called at once. *)
OnReplyFinished(q, reply) ==
  /\ q \in requests
  /\ requests' = requests \ {q}
  /\ \/ Signal(reply) = "answerReceived" /\ OnRecvAnswer(q)
     \/ Signal(reply) = "requestError" /\ OnRecvError
  /\ UNCHANGED <<phase, question, history, item>>

(* Mutant: a client that outlives the dialog. *)
DestroyKeepsClient ==
  /\ phase' = "closed"
  /\ UNCHANGED <<dialog, requests, history>>

(* The dialog, the client and the replies it waits for are gone. *)
Destroy ==
  /\ phase' = "closed"
  /\ requests' = {}
  /\ UNCHANGED <<dialog, history>>

(* onBtnClickedConfirm(): the text is tested as it is, blanks included.    *)
(* The bank then stores what the two boxes hold, or refuses.               *)
Confirm ==
  /\ Reachable
  /\ \/ /\ question = Empty
        /\ Show("no question")
        /\ UNCHANGED <<phase, dialog, requests, history, item>>
     \/ /\ question # Empty
        /\ item' = [question |-> question, answer |-> answer]
        /\ Destroy
        /\ UNCHANGED boxes
     \/ /\ question # Empty
        /\ phase' = "refused"
        /\ Show("refused")
        /\ UNCHANGED <<dialog, requests, history, item>>

Cancel ==
  /\ Reachable
  /\ Destroy
  /\ UNCHANGED <<boxes, item>>

(* The box on top is closed; after "refused" the window's slot returns. *)
Dismiss ==
  /\ boxes # <<>>
  /\ boxes' = SubSeq(boxes, 1, Len(boxes) - 1)
  /\ IF boxes[Len(boxes)] = "refused"
     THEN Destroy
     ELSE UNCHANGED <<phase, dialog, requests, history>>
  /\ UNCHANGED item

Finished == \E q \in requests, reply \in Replies : OnReplyFinished(q, reply)

Next ==
  \/ OpenForNew
  \/ OpenForOld
  \/ \E text \in Texts : TypeQuestion(text)
  \/ TypeAnswer
  \/ Ask
  \/ Finished
  \/ Confirm
  \/ Cancel
  \/ Dismiss

(* The network layer finishes every request that is not abandoned: with a  *)
(* reply of the service, or with an error when the connection is lost.     *)
Spec == Init /\ [][Next]_vars /\ WF_vars(Finished)

-----------------------------------------------------------------------------
(* The shape of the dialog, its requests and its message boxes. *)
Sources == {"nobody", "user", "waiting", "reply", "error"}
Boxes == {"no question", "refused", "error"}
AnswerTexts == [from : Sources, to : Texts]

TypeOK ==
  /\ phase \in {"closed", "open", "refused"}
  /\ question \in Texts
  /\ answer \in AnswerTexts
  /\ askEnabled \in BOOLEAN /\ edited \in BOOLEAN
  /\ requests \subseteq Questions /\ asked \subseteq Questions
  /\ boxes \in Seq(Boxes)
  /\ item \in [question : Texts, answer : AnswerTexts]

(* While a dialog exists there is at most one request of it, and the ask   *)
(* button is disabled exactly while there is one: every way a request can  *)
(* end enables it, and no message box, confirmation or refused store comes *)
(* in between.                                                             *)
OneRequest ==
  phase # "closed" =>
    /\ askEnabled <=> requests = {}
    /\ \A q, r \in requests : q = r

(* A reply goes into the answer box of the dialog that asked, never into   *)
(* that of a dialog opened after it was cancelled or confirmed.            *)
ReplyReachesAsker ==
  [][requests' # requests /\ answer'.from = "reply" /\ phase # "closed"
       => answer'.to \in asked]_vars

(* A reply that is shown answers the question that is shown, unless the    *)
(* question was edited after asking: no reply to an earlier question can   *)
(* come after a later question was asked.                                  *)
AnswersQuestion == answer.from = "reply" /\ ~edited => answer.to = question

(* The waiting text is stored as an answer only by a dialog that is        *)
(* confirmed while it waits: no way in which a request ends leaves the     *)
(* text behind, to be stored later.                                        *)
WaitingTextEnds ==
  [][item'.answer.from = "waiting"
       => item.answer.from = "waiting" \/ requests # {}]_vars

(* A user who waits can ask again: whatever the service replies, a         *)
(* disabled ask button is enabled again or the dialog is closed.           *)
AsksAgain == ~askEnabled ~> askEnabled \/ phase = "closed"

(* "获取答案": the text that is stored as the answer is one, and not what  *)
(* the dialog says while it waits or when the service fails.               *)
StoresAnswers == item.answer.from \notin {"waiting", "error"}
=============================================================================
