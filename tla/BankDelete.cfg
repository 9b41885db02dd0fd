CONSTANTS
  Ids = {g1, g2, g3}
  NoId = NoId
  NameOrder <- ThreeNames
  BadNames = {}
  RootName = "QuestionBank"
  Qids = {q1}
  Texts = {t1, t2}
  CheckedIterators = FALSE
  MaxRenames = 0
  MaxCrashes = 0
  MaxFaults = 0
SYMMETRY IdSymmetry
SPECIFICATION Spec
INVARIANTS NoIdLeaks
