SPECIFICATION FairSpec
CONSTANTS
  W = 2
  H = 1
  t1 = t1
  t2 = t2
  IoThreads = {t1, t2}
  RenderThread = rt
  Black = black
  Color = {black, red}
  Ops <- AutoOps
  Turns <- TwoTurns
  Glyphs <- MCDots
  Offsets <- AtOrigin
  Pixels <- AnyPixel
  MaxInt = 4
PROPERTIES AutoRenderShows FrameFaithful
