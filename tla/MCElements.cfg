SPECIFICATION MCSpec
CONSTANTS
  Null = Null
  Classes <- MCClasses
  Strangers <- MCStrangers
  Repeat = 2
  MaxCalls = 2
  MaxFirst = 1
  Calls = {}
  Element = {u1, u2}
  Document = {d1, d2, d3, d4}
  Nil = Nil
  Given <- MCGiven
  TemplateSize = 6
  XMLObject = {x1, x2, x3}
  Prefix = {"", "p", "xsi"}
  URI = {"", "u", "v", "XSI"}
  NoPrefix = ""
  NoURI = ""
  Nowhere = Nowhere
  Xsi <- MCXsi
  ElementNames <- MCElementNames
  AttributeNames <- MCAttributeNames
  ValueNames <- MCValueNames
  MaxNames = 4
  NameCalls = {}
  StatusCodes = {200, 300, 404}
  BodySize = 5
  ReadSize = 3
INVARIANTS
  InStep
  CopySame
  SchemaKept
  UnknownKept
  RendersNested
  NamesKept
  StreamFaithful
SYMMETRY MCSymmetry
CHECK_DEADLOCK FALSE
