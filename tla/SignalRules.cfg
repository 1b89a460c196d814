CONSTANTS
  Undefined = Undefined
  BarCounts <- MCBarCounts
  RsiValues <- MCRsiValues
  Volumes <- MCVolumes
  Ranges <- MCRanges

SPECIFICATION RulesSpec

INVARIANTS
  MirrorImage
  EntryIsConfirmed
  QuietNeedsLongHistory

PROPERTIES
  NoDirectReversal
