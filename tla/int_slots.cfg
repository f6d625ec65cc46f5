\* Bytes of two bits, shorts of three, words of four and slots of eight.
CONSTANTS
  a = a
  b = b
  Reg = {a, b}
  ByteBits = 2
  ShortBits = 3
  WordBits = 4
  LongBits = 8
  Lengths = {2, 9}
SYMMETRY Symmetry
SPECIFICATION IntSpec
INVARIANTS IntTypeOK Exact
 
