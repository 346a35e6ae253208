SPECIFICATION FairSpec
CONSTANTS
  t1 = t1
  e1 = e1
  e2 = e2
  Tx <- MCTx
  Engine <- MCEngine
  ReorgBuffer = 2
  DeepBlocks = 3
  MaxReorg = 1
  MaxHeight = 4
  MaxFailures = 1
  MaxReorgs = 1
INVARIANTS CheckpointSound
PROPERTIES MinedIsRecorded
