CONSTANTS
  Questions = {q1, q2}
  Empty = Empty
  Blank = Blank
SPECIFICATION Spec
INVARIANTS TypeOK OneRequest AnswersQuestion
PROPERTIES ReplyReachesAsker WaitingTextEnds AsksAgain
