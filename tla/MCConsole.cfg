SPECIFICATION Spec
CONSTANTS
  Procs = {p1, p2}
  Killable = {p1}
  Letters = {"a"}
  INPUT_BUF = 3
  UINT = 6
  COLS = 2
  ROWS = 2
  Sizes = {4}
CHECK_DEADLOCK FALSE
INVARIANTS ReaderNotForgotten CursorOnScreen
PROPERTIES IsLineInput
