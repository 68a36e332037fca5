\* Two network names and two extended PAN ids; up to three changes by wpantund or
\* restarts of it, and two failing calls, lost daemons or name collisions.
SPECIFICATION Spec
CONSTANTS
  Names = {home, guest}
  Xpanids = {x1, x2}
  Empty = Empty
  Junk = Junk
  MaxChanges = 3
  MaxFaults = 2
INVARIANTS ShowsWhatIsKnown NeverStale
PROPERTY Converges
\* The agent rests when wpantund and the daemon do.
CHECK_DEADLOCK FALSE
