CONSTANTS
  Ids = {g1, g2}
  NoId = NoId
  NameOrder <- NamesWithBad
  BadNames = {"?"}
  RootName = "QuestionBank"
  Qids = {}
  Texts = {t1}
  CheckedIterators = TRUE
  MaxRenames = 1
  MaxCrashes = 0
  MaxFaults = 1
SYMMETRY IdSymmetry
SPECIFICATION Spec
INVARIANTS TypeOK IdsInSync
PROPERTY ImplementsRegistry
