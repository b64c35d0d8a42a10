\* The chronometer runs long enough for an intermediate time to be held and released
\* after a carry.  The benchmark has one warm-up second of two samples.  The ring
\* has the tasks and the rounds of the code.  A message of the scrambler has two or
\* three words of three bits.
CONSTANTS
  Start <- Edges
  MaxUnits = 330
  Period = 2
  Samples = 2
  WarmupLoops = 1
  Sizes = {0, 2}
  BucketSize = 2
  Far = 12
  Latencies <- SomeLatencies
  MaxLoops = 3
  COUNT = 3
  NUM_TASKS = 4
  ROUNDS = 5
  LONG = 2
  WordSize = 8
  Key = 5
  PORTWORD = 1
  MaxWords = 3
  Words = {0, 1, 6, 7}
  SHORT_MAX = 3
  CtlMnb = 4
  MaxQbytes = 5
  PermModes = {0, 6}
SPECIFICATION DemoSpec
INVARIANTS
  DemosTypeOK
  ShownRight
  ClosedIsQuiet
  HistogramHeld
  ResultsOrdered
  HistogramsComplete
  InTurn
  
  RingOrder
  TokensMeant
  Restored
  CopyLeadsBack
PROPERTIES
  TimeExact
  NextDateAhead
  
