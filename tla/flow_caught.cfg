\* Methods of three instructions and a return.
CONSTANTS
  Methods <- MCMethods
  Keys <- MCKeys
  Operands <- MCOperands
  Tables <- MCTables
  More <- MCMore
  Sizes = {118, 240}
  Bases = {1}
  Items = 2
  MaxDepth = 2
SPECIFICATION Spec

PROPERTIES Caught
