\* Nodes of three bytes of four bits, integers of eight bits.
CONSTANTS
  BaseSize = 3
  ByteBits = 4
  IntBits = 8
  Values = {5, 8, 128}
  Texts <- SomeTexts
  Fills = {0, 9}
  MaxCapacity = 9
  MaxOps = 4
SPECIFICATION Spec
INVARIANTS CurFollowsPosition ReadsBack
PROPERTIES IsFlatBuffer DumpsTheRest
CHECK_DEADLOCK FALSE
