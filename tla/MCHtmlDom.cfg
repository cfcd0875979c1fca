CONSTANTS
  div = div
  para = para
  br = br
  script = script
  a = a
  href = href
  None <- MCNone
  Name <- MCName
  Void <- MCVoid
  RawText <- MCRawText
  Verbatim <- MCRawText
  Script <- MCScript
  MaxNodes = 5
  MaxAttrs = 1
  Arena = 2
  MaxDepth = 3
  MaxText = 1
  MaxTagAttrs = 1
  MaxTokens = 8
  Unit <- MCUnit
  Inputs <- MCInputs
  Letter <- MCLetter
  Href <- MCHref
  TagMax = 2
  MaxRecorded = 2
  HrefMax = 1
  FreeNames <- MCFreeNames
  MaxFree = 5
SPECIFICATION SourceSpec
SYMMETRY Plain
INVARIANT TypeOK
INVARIANT TreeLinked
INVARIANT DocumentOrder
INVARIANT WarningsTellLosses
INVARIANT TokensTellSource
PROPERTY OnlyGrowsAtTop
