SPECIFICATION Spec
CONSTANTS
  W = 3
  H = 2
  t1 = t1
  t2 = t2
  IoThreads = {t1}
  RenderThread = rt
  Black = black
  Color = {black, red}
  Ops <- PaintOps
  Turns <- Rotations
  Glyphs <- MCShapes
  Offsets <- MCOffsets
  Pixels <- MCPixels
  MaxInt = 6
INVARIANTS StrayOnlyIfMisplaced
PROPERTIES PaintStaysInside ClearPaintsAll DrawShowsImage
