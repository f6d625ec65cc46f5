\* Collections from two nested calls, and the last one of main.
CONSTANTS
  o1 = o1
  o2 = o2
  s1 = s1
  Null = Null
  Num = Num
  Wild = Wild
  Obj = {o1, o2}
  Slot = {s1}
  MarkMask = 15
  Junk = {0}
  Unwritten = {Null, Wild}
  MaxCnt = 9
  Static = {}
  MaxDepth = 2
  MaxStack = 2
  MaxLocals = 1
  MaxScrub = 255
  Ops = {"object", "oarray", "local", "call", "class", "error", "native"}
  MaxCollects = 2
  CoreCollects = TRUE
SYMMETRY Symmetry
SPECIFICATION Spec
INVARIANTS TypeOK FramesLive CountExact
PROPERTIES StartsFromFrames OnlyHeldRemains
