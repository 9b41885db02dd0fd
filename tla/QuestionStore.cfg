CONSTANTS
  Ids <- MCIds
  Groups <- MCGroups
  Questions <- MCQuestions
  Answers <- MCAnswers
  VarintBase = 8
  IsUtf8 <- MCIsUtf8
  XPLAYER_BUFF_MAX_LEN = 4
  Formats <- MCFormats
SPECIFICATION Spec
INVARIANTS TypeOK UniqueIds TornFilesRead ErrorTextsShown
PROPERTY ImplementsItemStore
