SPECIFICATION FairSpec
CONSTANTS
  Writers = {w1, w2}
  Readers = {r1, r2}
  MaxWrites = 2
  NoItem = NoItem
INVARIANTS TypeOK GotOne NoStrandedItem ExactlyOnceInOrder
PROPERTY IsBuffer
