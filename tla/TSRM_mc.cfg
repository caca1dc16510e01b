\* A server module with two workers and the timeout thread of a Windows build, which
\* fetches on their behalf; ids are allocated at startup only.
SPECIFICATION FairSpec
CONSTANTS
  Threads = {1, 2, 3}
  Main = 1
  Timers = {3}
  Nobody = Nobody
  Dangling = Dangling
  TableSize = 1
  MaxResources = 2
  LateAllocation = FALSE
INVARIANTS SoundRead Chains QuiescentComplete
PROPERTY FetchReturns
