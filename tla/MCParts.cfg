SPECIFICATION Spec
CONSTANTS
  Off = off
  Adapters = {"gemini", "gemini_streaming", "anthropic", "openai"}
  Names = {n}
  NoId = noId
  MaxChunks = 4
  Stores = {"memory", "database"}
  MaxStreams = 3
  Branch <- MCBranch
  VendorOf <- MCVendorOf
  MaxActive = 2
  MaxEntries = 4
  MaxBorn = 2
  Managers = {m1, m2}
  MaxIds = 3
  MaxFaults = 1
  Runs = {r1, r2, r3}
  MaxAttempts = 2
  MaxPauses = 2
  MaxSignals = 1
  MaxMessages = 2
  MaxTurns = 1
  MaxRuns = 2
  SessionIds = {s1, s2}
  None = none
  MaxTexts = 3
  MaxAsked = 3
  Calls = {c1, c2}
  NestedCalls = {n1, n2}
  Kinds = {"plain", "approval", "own", "agent", "guarded agent"}
  NestedKinds = {"plain", "approval", "own"}
  Callers = {p, q}
  MaxSessions = 3
  Pages = 2
  Sayings <- MCSayings
  CallIds = {i, j}
  MaxConverted = 3
  ContentTypes = {"text", "thinking", "image", "toolCall"}
  MaxContents = 2
  MaxResults = 2
  Extensions = 2
  MaxStarts = 3
  MaxSpoken = 2
INVARIANTS
  TypeOK StreamSaysWhatIsSaid RequestIsAcceptable SnapshotIsPrefix
  NothingIsLeft ContextIsWhatWasTold RunsOnAnswersOnly CheckpointIsThePause
  QueuedAreShown ShownAreAnswered DecisionsFitTheCheckpoint LastWordsStay
  PauseIsPersisted CallersDoNotDisturb PartsSayTheEntries
  ReadsWhatWasSaid HooksDecide
PROPERTIES ExecutionEnds
CHECK_DEADLOCK FALSE
