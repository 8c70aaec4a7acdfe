SPECIFICATION LiveSpec
CONSTANTS
  MAXARGS = 3
  Slots = {1, 2, 3, 4, 5}
  NFD = 6
  Tokens = {"a", "|", "&", ";", "(", ")", "<", ">"}
  MaxTokens = 5
  Lines <- Entered
  MaxLines = 2
CHECK_DEADLOCK FALSE
INVARIANTS StandardDescriptors PromptAfterForeground ParsesTheGrammar
PROPERTIES PromptReturns
