CONSTANTS
  x1 = x1
  x2 = x2
  x3 = x3
  x4 = x4
  p1 = p1
  p2 = p2
  Content = {x1, x2, x3, x4}
  Prefix = {p1, p2}
  PrefixOf <- ThirdApart
  Size <- TwoOneNone
  InitialWindow = 1
  MaxWindow = 2
  Configs <- AsItIs
  NoContent = NoContent
  NoTag = NoTag
  NoPrefix = NoPrefix
SPECIFICATION Spec
PROPERTIES
  SendsValidTags
CHECK_DEADLOCK FALSE
