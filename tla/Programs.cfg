SPECIFICATION Spec
CONSTANTS
  Block = 2
  Asked = {0, 1, 3, 4, 5, 7}
  MaxWritten = 12
INVARIANT BudgetKept
PROPERTY ProgramEnds
CHECK_DEADLOCK FALSE
