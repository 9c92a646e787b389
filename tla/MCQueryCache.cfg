\* Three workers, two faults at any step.
SPECIFICATION FairSpec
CONSTANTS
  Procs = {p1, p2, p3}
  Texts = {t1, t2}
  NoProc = NoProc
  MaxFaults = 2
INVARIANTS
  WriterHoldsLock
PROPERTIES
  EntriesNeverLost
  StaleLockFreezesCache
  RequestsEnd
