SPECIFICATION FairSpec
CONSTANTS
  File = {main, inc}
  Root = main
  Alias = alias
  NoPath = NoPath
  Macro = {M}
  Body = {"0", "1"}
  LineNo = {9}
  Missing = missing
  MaxIncludeDepth = 3
  MaxLines = 4
  Quirks = {"reinclude"}
INVARIANTS
  SeamPositions
  AbortsOnReinclusionOnly
PROPERTIES
  OneBranch
  Terminates
