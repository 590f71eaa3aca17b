CONSTANTS
  Units <- GotoUnits
  Runs <- GotoRuns
  BadNames <- MCBadNames
  Spliced <- MCSpliced
SPECIFICATION CompSpec
INVARIANT GotosKept
