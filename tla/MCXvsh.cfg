SPECIFICATION LiveSpec
CONSTANTS
  Kids = {1, 2}
  NOFILE = 6
  MAXTOKENS = 3
  Chars = {"a", "x", " ", "|", ">", "&"}
  MaxLine = 5
  MaxTyped = 7
CHECK_DEADLOCK FALSE
INVARIANTS RunsAsTyped ChildrenAccounted
PROPERTIES PromptReturns
