\* One order, two overlapping sweeps, no fault.
CONSTANTS
  Orders = {o1}
  Sweeps = {w1, w2}
  Client = client
  BatchSize = 1
  Requesters = {"customer", "provider", "operator"}
  MaxFaults = 0
SYMMETRY SweepSymmetry
SPECIFICATION Spec
CHECK_DEADLOCK FALSE
INVARIANT TypeOK
INVARIANT LiveTimer
INVARIANT HistoryIsPath
INVARIANT FiredHasEffect
INVARIANT SettledOnce
PROPERTY ImplementsLifecycle
