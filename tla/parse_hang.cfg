SPECIFICATION FairSpec
CONSTANTS
  Free = 6
  Narrow = 0
  Kinds <- Inputs
PROPERTY
  Ends
