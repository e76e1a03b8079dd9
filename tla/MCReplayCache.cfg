\* Two threads and two values.
SPECIFICATION ReplaySpec
CONSTANTS
  Context = {replays}
  Replays = replays
  Key = {k1, k2}
  Data = {x}
  NoData = NoData
  MaxTime = 1
  MaxVersion = 1
  Caller = {t1, t2}
SYMMETRY Symmetry
PROPERTIES
  NoReplayAfter
