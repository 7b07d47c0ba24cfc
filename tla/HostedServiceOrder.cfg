SPECIFICATION FairSpec
CONSTANTS
  Late = 2
  MaxTicks = 7
PROPERTIES TicksBeforeCompleted
