\* Two contexts: the abstract service is implemented, expired records go.
SPECIFICATION Spec
CONSTANTS
  Context = {c1, c2}
  Key = {k1}
  Data = {d1, d2}
  NoData = NoData
  MaxTime = 1
  MaxVersion = 2
  Caller = {p1}
PROPERTIES
  Refinement
  ExpiredPurged
