\* The same command lines; what is asked is whether <clinit> was executed.
CONSTANTS
  CommandLines <- Lines
  Core <- MCCore
  Entry = "B"
  MaxObjects = 2
  MaxDepth = 2
SPECIFICATION Spec
INVARIANTS Initialised
