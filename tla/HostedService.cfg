SPECIFICATION FairSpec
CONSTANTS
  Late = 2
  MaxTicks = 7
INVARIANTS TypeOK LoopEndsFirst GracefulUnlessHeld
 
