SPECIFICATION ClientSpec
CONSTANTS
  W = 2
  H = 4
  Connection = io
  IoThreads = {io}
  RenderThread = rt
  Black = black
  Blue = blue
  Red = red
  Color = {black, blue, red}
  Ops <- Calls
  Turns <- ClientTurns
  Glyphs <- Texts
  Hello <- Letter
  World <- Letter
  Offsets <- ClientOffsets
  Pixels <- NoPixels
  MaxInt = 8
INVARIANTS HelloDrawn
