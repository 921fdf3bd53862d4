\* One order event, one piece of news, the reminders of one show for two users, one shared device.
CONSTANTS
  u1 = u1
  u2 = u2
  Users = {u1, u2}
  Events <- MCEvents
  News <- MCNews
  Reminders <- MCReminders
  Devices = {d1}
  Maps = {empty, m1}
  Empty = empty
  MaxRows = 2
  MaxTime = 1
  None = none
SPECIFICATION FairSpec
INVARIANT TypeOK
INVARIANT OneOfEach
PROPERTY ReadIsForever
PROPERTY DueIsShown
