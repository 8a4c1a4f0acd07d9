SPECIFICATION MCSpec
CONSTANTS
  COLS = 2
  OS_LOWEST_PRIO = 5
  Task = {t1, t2, t3}
  Idle = idle
  Event = {e1, e2, e3}
  FlagGrp = {g1, g2}
  NULL = NULL
  RESERVED = RESERVED
  NONE = NONE
  SEM_MAX = 2
  QSIZE = 2
  OS_MAX_QS = 1
  OS_TICKS_PER_SEC = 1000
  t1 = t1
  t2 = t2
  t3 = t3
  e1 = e1
  e2 = e2
  e3 = e3
  g1 = g1
  g2 = g2
  m1 = m1
  m2 = m2
  Message = {m1, m2}
  Timer = {x1, x2, x3}
  WHEEL = 2
  TIME = 3
  Kind <- MCKind
  Part = {p1, p2}
  Caller = {c1, c2}
  Area <- MCArea
  DATA = DATA
  CELLS = 5
  LENMAX = 8
  Letter = {65, 97}
  MAXU = 255
  MAXDIG = 9
  Number = {0, 1, 7, 8, 9, 10, 99, 100, 127, 128, 129, 199, 255}
  Base = {2, 8, 10, 16, 36}
  Text <- MCText
  Scenarios <- MCScenarios
  Setup <- MCSetup
INVARIANTS
  ListsAgree
  ReadyIffRunnable
  NothingLost
  MutualExclusion
  OwnerInherits
  HighestRuns
  FlagWaitersUnsatisfied
  FlagListsWhole
  NumbersRoundTrip
  TextsAsNamed
PROPERTIES
  ImplementsQueues
  TimedWaitEnds
  ImplementsTimers
  ImplementsPools
