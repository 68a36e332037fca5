\* One client, which sends a POST and a DELETE in either order.
CONSTANTS
  Configs = {a}
  NoConfig = NoConfig
  Handlers = {h}
  FlagAtStart = {FALSE}
  MaxPosts = 1
  MaxDeletes = 1
SPECIFICATION FairSpec
INVARIANTS ThreadsNest OneManager 
PROPERTY DeleteEnds
