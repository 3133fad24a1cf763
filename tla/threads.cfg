SPECIFICATION ThreadsSpec
CONSTANTS
  Batch <- FourBatches
  Content <- OfEachSort
  Record <- ThreeRecords
  Malformed = {"b4"}
  Asker = {"import"}
  Depth = 1
  MaxPosts = 3
  MaxBursts = 1
  MaxPauses = 1
  MaxFaults = 1
  MaxPanics = 1
  MaxExits = 1
  MaxTroubles = 1
  Model = {"m1", "m2"}
  CallId <- TwoCalls
  BATCH = 2
  WRITE_EVERY = 2
  LIVE_QUEUE = 1
  LIVE_SEEN_MAX = 3
  MaxStarts = 2
  Courses <- ThreeCourses
  Commands <- SomeCommands
  Prefix = 2
  N_CTX = 12
  PREFILL_CHUNK = 4
  MAX_ANSWER_TOKENS = 5
  COMMAND_LIMIT = 6
  SUMMARY_LIMIT = 3
  MaxAsks = 2
INVARIANT QueueInv
INVARIANT AnswersAreKept
PROPERTY NobodyWaitsForever
PROPERTY QueuedIsStored
INVARIANT ExaminationKept
PROPERTY EveryCallExamined
PROPERTY StoppedEnds
INVARIANT AnswersKept
INVARIANT WholeOrRefused
CHECK_DEADLOCK FALSE
