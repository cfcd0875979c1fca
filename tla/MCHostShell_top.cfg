CONSTANTS
  p = p
  q = q
  far = far
  raw = raw
  odd = odd
  plain = plain
  flat = flat
  near_origin = near_origin
  far_origin = far_origin
  no_origin = no_origin
  None = None
  Garbled = Garbled
  Page <- MCPage
  Ref <- MCRef
  Https <- MCHttps
  Prepare <- MCPrepare
  Origin <- MCOrigin
  LinkSets <- MCLinkSets
  Cap = 1
  ContentType = {html, zip}
  Textual = {html}
  Disposition = {}
  MaxHistory = 2
  MaxTrail = 3
SPECIFICATION Spec
INVARIANT TopIsCurrent
