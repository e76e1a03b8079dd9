SPECIFICATION Spec
CONSTANTS
  Null = Null
  Thread = {t1, t2}
  Parser = {p1, p2}
  Schema = {s1}
  LateSchemas = FALSE
  Handle = {h1, h2}
  Address <- MCAddress
  ConnPoolMax = 1
  Calls = {}
  Library = {e1}
  IntMax = 2
  MaxInits = 2
  RuntimeCalls = {}
INVARIANTS
  PoolsSound
  AuthenticatedHonest
  WholeOrGone
PROPERTIES
  LocksReturned
CHECK_DEADLOCK FALSE
