CONSTANTS
  a = a
  b = b
  long = long
  plain = plain
  None = None
  Url <- MCUrl
  Https <- MCHttps
  Overlong <- MCOverlong
  Status <- MCStatus
  ContentType = {html}
  Disposition = {named, other}
  Cap = 2
  MaxBody = 4
  MaxRedirs = 1
SPECIFICATION Spec
INVARIANT DispositionIsOfFinalResponse
