\* A file or a polled resource, changed twice, and two readers.
SPECIFICATION Spec
CONSTANTS
  Reader = {r1, r2}
  MaxEdits = 2
PROPERTIES
  ConfigStable
  EventuallyCurrent
  ShutdownNoticed
