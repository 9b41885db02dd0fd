CONSTANTS
  Ids = {g1}
  NoId = NoId
  NameOrder <- ThreeNames
  BadNames = {}
  RootName = "QuestionBank"
  Qids = {q1, q2}
  Texts = {t1, t2}
  CheckedIterators = FALSE
  MaxRenames = 1
  MaxCrashes = 1
  MaxFaults = 1
SPECIFICATION WinSpec
PROPERTY NothingHidden
