SPECIFICATION Spec
CONSTANTS
  W = 3
  H = 2
  t1 = t1
  t2 = t2
  IoThreads = {t1, t2}
  RenderThread = rt
  Black = black
  Color = {black}
  Ops <- RotateOps
  Turns <- TwoTurns
  Glyphs <- MCWide
  Offsets <- AtEdge
  Pixels <- MCPixels
  MaxInt = 4
SYMMETRY Symmetry
INVARIANTS TypeOK GeometryAgrees StrayOnlyByMisuse Support
