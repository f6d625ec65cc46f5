\* Every opcode that touches a reference, every kind of object, every native, a call.
CONSTANTS
  o1 = o1
  o2 = o2
  o3 = o3
  o4 = o4
  s1 = s1
  x1 = x1
  Null = Null
  Num = Num
  Wild = Wild
  Obj = {o1, o2, o3, o4}
  MaxSize = 5
  MaxCallSize = 4
  Slot = {s1}
  MarkMask = 15
  Junk = {0}
  Unwritten = {Null, Wild}
  MaxCnt = 9
  Static = {x1}
  MaxDepth = 2
  MaxStack = 3
  MaxLocals = 1
  MaxScrub = 255
  Ops = {"local", "call", "static", "object", "class", "string", "oarray", "parray", "dup", "enum", "native", "error"}
SYMMETRY Symmetry
SPECIFICATION InterpSpec
CONSTRAINT Small
INVARIANTS InterpTypeOK CountExact
