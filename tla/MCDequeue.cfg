CONSTANTS
  p1 = p1
  p2 = p2
  c1 = c1
  c2 = c2
  d1 = d1
  d2 = d2
  none = none
  Producers <- MCProducers
  Consumers <- MCConsumers
  Data <- MCData
  NoData = none
  MaxPush = 3
  MaxWakes = 1
SPECIFICATION FairSpec
INVARIANTS TypeOK Fifo ListIsUntaken TokenBalance NoLostWakeup NullOnlyByWake
PROPERTIES ImplementsFifo EveryPushIsPopped
CHECK_DEADLOCK FALSE
