\* Two objects with two slots each; the marks 1 and 0; the allocator runs out.
CONSTANTS
  o1 = o1
  o2 = o2
  s1 = s1
  s2 = s2
  x1 = x1
  Null = Null
  Num = Num
  Wild = Wild
  Obj = {o1, o2}
  Slot = {s1, s2}
  MarkMask = 1
  Junk = {0}
  Unwritten = {Null, Wild}
  MaxCnt = 1
  MaxCollects = 2
  Static = {x1}
  Uses = {"object", "oarray", "parray"}
  Memory = 7
SPECIFICATION FairSpec
INVARIANTS TypeOK OnlyFieldsLeak
PROPERTIES ImplementsHeap CollectReturns
