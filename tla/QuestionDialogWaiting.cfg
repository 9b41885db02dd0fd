CONSTANTS
  Questions = {q1, q2}
  Empty = Empty
  Blank = Blank
SPECIFICATION Spec
INVARIANT StoresAnswers
