CONSTANTS
  Units <- MCUnits
  Runs <- MCRuns
  BadNames <- MCBadNames
  Spliced <- MCSpliced
SPECIFICATION CompSpec
INVARIANTS
  ResolvesLexically
  OutputSound
  NetworkMatchesSource
  GenerateUnrolled
  MachineFollowsProc
PROPERTIES
  UsesSymbolTable
  SymbolsOutlive
