SPECIFICATION Spec
CONSTANTS
  Null = Null
  Freed = Freed
  Obj = {o1, o2, o3, o4}
  Value = {v1, v2}
  LibDoc = {l1, l2, l3}
  CallerDoc = {c1}
  Calls = {}
  AnyClass = FALSE
SYMMETRY Symmetry
CONSTRAINT MCBound
INVARIANTS
  CacheFaithful
  NoDangling
  DocOwned
PROPERTIES
  Refinement
  DOMPreserved
