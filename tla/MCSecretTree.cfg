CONSTANTS
  LeafWidth = 4
  RetainKeysForGenerations = 2
  MaximumForwardRatchetSteps = 2
  OwnLeaf = 0
  Streams <- Exchange
  MaxGeneration = 3
SPECIFICATION Spec
INVARIANT TypeOK
INVARIANT OneSourcePerLeaf
INVARIANT ConsumedNotHeld
INVARIANT RetentionWindow
INVARIANT RatchetUntilIsTheLoop
PROPERTY DroppedIsConsumed
PROPERTY ImplementsReplayWindow
