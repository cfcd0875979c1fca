CONSTANTS
  Documents <- MCDocuments
  Cap = 9
  TitleMax = 2
  MaxLinks = 2
  LabelMax = 3
  ListMax = 2
  NestMax = 3
SPECIFICATION Spec
INVARIANT CutsAreClean
INVARIANT PlainTextCollapses
INVARIANT MarkersMatchLinks
INVARIANT ItemsAreNumbered
INVARIANT RawTextInPlace
