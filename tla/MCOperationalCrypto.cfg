SPECIFICATION Spec
CONSTANTS
  Procs = {p1, p2, p3}
  Ids = {k1, k2, k3}
  Dotted = {}
  Keys = {a, b}
  Slots = {s1, s2}
  Plaintexts = {text, EmptyText}
  EmptyText = EmptyText
  NoKey = NoKey
  NoBlob = NoBlob
  NotLoaded = NotLoaded
  MaxEntries = 3
SYMMETRY Symmetry
INVARIANTS
  RunningProcessesCanRead
  RestartedProcessesCanRead
  OneKeyPerId
