CONSTANTS
  a = a
  img = img
  script = script
  None = None
  Name <- MCName
  Void = {img}
  RawText = {script}
  Verbatim = {script}
  Script = script
  Hidden = {script}
  MaxNodes = 5
  MaxAttrs = 4
  Arena = 8
  MaxDepth = 3
  MaxText = 1
  MaxTagAttrs = 0
  MaxTokens = 4
  MaxBoxes = 4
  MaxLayoutDepth = 3
  Img = img
  Anchor = a
  MaxDlNodes = 3
  DlArena = 5
  Looks <- MCLooks
SPECIFICATION PageSpec
INVARIANT HiddenTextHasNoBox
