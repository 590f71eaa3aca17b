SPECIFICATION Spec
CONSTANTS
  Macro = {"X", "Y"}
  Body <- MCBody
  Literal <- MCLiteral
  Condition <- MCCondition
  TextLine <- MCTextLine
  MaxLines = 3
  kMaxExpansionDepth = 2
  kMaxParsers = 2
INVARIANTS
  
  RecursionReportedExactly
  
  
CHECK_DEADLOCK FALSE
