\* Two POSTs by one client; the uninitialised flag may be either.
CONSTANTS
  Configs = {a, b}
  NoConfig = NoConfig
  Handlers = {h}
  FlagAtStart = {TRUE, FALSE}
  MaxPosts = 2
  MaxDeletes = 0
SPECIFICATION FairSpec
INVARIANTS OwnCommissioner ServedUnlessLate TimeoutMeansStopped
PROPERTIES UnloadEnds FlagHandled
