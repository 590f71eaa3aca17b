SPECIFICATION FairSpec
CONSTANTS
  Free = 6
  Narrow = 4
  Kinds <- Inputs
INVARIANTS
  NoSilentFailure
  WholeInputRead
  DrainedIsOwn
PROPERTIES
  TopKeywordsKept
  EndsOrStuck
