\* Each part with bounds of its own; the task store in six ways, the commits in five.
SPECIFICATION Workflow
CONSTANTS
  Off = Off
  Tasks = {t1, t2, t3}
  Windows = {w1, w2}
  Procs = {p1}
  None = None
  Uses <- StoreUses
  Pairs = {w1, w2}
  CommitUses <- TheCommitUses
  MaxEdits = 5
  Sizes = {2, 6}
  Header = 1
  MaxLines = 6
  MaxSessions = 3
  MaxFiles = 3
  Errands = {e1, e2}
  TTL = 0
  MaxTickets = 2
SYMMETRY Symmetry
INVARIANTS
  PartTypes
  PointersLive
  MissingChildIsDone
  ParentIsActive
  LinksAgree
  ListEnds
  ArchiveCommitted
  CommittedOnce
  JournalSound
  RightSession
  RightTask
PROPERTIES
  NothingBundled
CHECK_DEADLOCK FALSE
