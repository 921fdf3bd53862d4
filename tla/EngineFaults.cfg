\* One order, one sweep, one fault; those ask who can.
CONSTANTS
  Orders = {o1}
  Sweeps = {w1}
  Client = client
  BatchSize = 1
  Requesters = {"customer", "provider"}
  MaxFaults = 1
SPECIFICATION FairSpec
CHECK_DEADLOCK FALSE
INVARIANT BooksAreBacked
INVARIANT OneTransfer
INVARIANT AnnouncedOnce
PROPERTY PointOfNoReturn
PROPERTY TimersFire
