SPECIFICATION FairSpec
CONSTANT MaxConcurrent = 3
INVARIANTS CounterIsExact AtMostTwice
PROPERTY KeepsPolling
