SPECIFICATION FairSpec
CONSTANTS
    a = a
    b = b
    m1 = m1
    m2 = m2
    Thread = {t1, t2}
    Name = {a, b}
    Material = {m1, m2}
    NoKey = NoKey
    Wrap = Wrap
    Gone = Gone
    NoName = NoName
    Spoilt = Spoilt
    Contents <- MCContents
    Data <- MCData
    MaxEdits = 2
INVARIANTS
  NoStaleKey
PROPERTIES
  KeysStable
  EventuallyCurrent
CHECK_DEADLOCK FALSE
