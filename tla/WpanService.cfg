\* Two users, two networks, room for two scan results; three requests in all.
SPECIFICATION Spec
CONSTANTS
  Users = {ann, bob}
  home = home
  guest = guest
  Nets <- MCNets
  Heard <- MCHeard
  Zero = Zero
  Buffer = 2
  MaxRequests = 3
INVARIANT OwnSettings
PROPERTIES JoinsSeen SuccessIsReal EveryoneAnswered
\* The server rests when no request comes.
CHECK_DEADLOCK FALSE
