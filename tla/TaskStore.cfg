\* Two processes, two payloads, three events, any call failing, power losses.
CONSTANTS
  Proc = {p1, p2}
  NoProc = NoProc
  Payload = {a, b}
  MaxEvents = 3
  SyncErrorDropsPages = FALSE
SPECIFICATION StoreSpec
INVARIANTS AckedSurvives SnapshotNotAhead
PROPERTY ImplementsDurableLog
