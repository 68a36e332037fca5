CONSTANTS
  Joiners = {j, k}
  Listed = {j, k}
  Default = Default
  NoJoiner = NoJoiner
  Ids = {1, 2, 3, 4, 5, 6, 7}
  MaxFaults = 1
SPECIFICATION FairSpec
INVARIANTS PskOfOpener ReadyIsCurrent RightRouter 
 
