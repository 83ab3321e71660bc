SPECIFICATION FairSpec
CONSTANTS
  W = 2
  H = 1
  t1 = t1
  t2 = t2
  IoThreads = {t1, t2}
  RenderThread = rt
  Black = black
  Color = {black}
  Ops <- ReturnOps
  Turns <- TwoTurns
  Glyphs <- MCWide
  Offsets <- AtEnds
  Pixels <- NoPixels
  MaxInt = 4
PROPERTIES HandlersReturn
