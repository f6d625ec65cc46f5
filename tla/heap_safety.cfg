\* Every kind of object, no mark used twice.
CONSTANTS
  o1 = o1
  o2 = o2
  o3 = o3
  s1 = s1
  Null = Null
  Num = Num
  Wild = Wild
  Obj = {o1, o2, o3}
  Slot = {s1}
  MarkMask = 3
  Junk = {0}
  Unwritten = {Null, Wild}
  MaxCnt = 2
  MaxCollects = 3
  Static = {}
  Uses = {"object", "held", "oarray", "parray", "nested"}
SYMMETRY Symmetry
SPECIFICATION Spec
INVARIANTS TypeOK NoDangling MarkClosed
PROPERTIES SweepExact ImplementsAbstract
