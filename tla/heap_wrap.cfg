\* The sixteenth collection uses mark 0, the mark of a new object.
CONSTANTS
  o1 = o1
  o2 = o2
  o3 = o3
  s1 = s1
  Null = Null
  Num = Num
  Wild = Wild
  Obj = {o1, o2, o3}
  Slot = {s1}
  MarkMask = 15
  Junk = {0}
  Unwritten = {Null, Wild}
  MaxCnt = 1
  MaxCollects = 16
  Static = {}
  Uses = {"object"}
SYMMETRY Symmetry
SPECIFICATION Spec
PROPERTIES FreedUnreferenced
