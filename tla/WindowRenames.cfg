CONSTANTS
  Ids = {g1, g2}
  NoId = NoId
  NameOrder <- TwoNames
  BadNames = {}
  RootName = "QuestionBank"
  Qids = {q1}
  Texts = {t1}
  CheckedIterators = FALSE
  MaxRenames = 1
  MaxCrashes = 0
  MaxFaults = 0
SPECIFICATION WinSpec
SYMMETRY IdSymmetry
PROPERTY NothingHidden
