CONSTANTS
  Ids = {g1, g2}
  NoId = NoId
  NameOrder <- TwoNames
  BadNames = {}
  RootName = "QuestionBank"
  Qids = {q1}
  Texts = {t1}
  CheckedIterators = FALSE
  MaxRenames = 0
  MaxCrashes = 0
  MaxFaults = 1
SYMMETRY IdSymmetry
SPECIFICATION WinSpec
INVARIANT ShowsBank
PROPERTY NothingHidden
