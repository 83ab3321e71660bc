SPECIFICATION Spec
CONSTANTS
  W = 3
  H = 2
  Black = black
  red = red
  Color <- MCColor
  Sources <- MCSources
  Offsets <- MCOffsets
INVARIANTS TypeOK LoopsPaint
PROPERTIES KeepsPromise
