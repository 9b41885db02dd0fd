CONSTANTS
  Ids = {g1, g2}
  NoId = NoId
  NameOrder <- TwoNames
  BadNames = {}
  RootName = "QuestionBank"
  Qids = {q1}
  Texts = {t1}
  CheckedIterators = FALSE
  MaxRenames = 0
  MaxCrashes = 1
  MaxFaults = 0
SYMMETRY IdSymmetry
SPECIFICATION WinSpec
INVARIANT Covers
