SPECIFICATION Spec
CONSTANTS
  FbtSize = 256
  Counts = {1, 2, 3}
  Lengths = {1, 2, 7, 8, 9, 16}
  Widths = {1, 3, 4, 70}
  Sizes = {5, 16, 300}
  RowLengths = {0, 8}
  Calls <- MCCalls
  MaxWeight = 4
INVARIANTS TypeOK InStep OwnPointers StringsWhole AnswerRight
CHECK_DEADLOCK FALSE
