\* Up to five classes, in different orders, with one left out or given twice.
CONSTANTS
  CommandLines <- Lines
  Core <- MCCore
  Entry = "B"
  MaxObjects = 2
  MaxDepth = 2
SPECIFICATION Spec
INVARIANTS TypeOK RightMethod ReadsRight EndsWithReason
