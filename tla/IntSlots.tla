------------------------------ MODULE IntSlots ------------------------------
(***************************************************************************)
(* What the opcodes on int values make of the 64 bit slots that operand    *)
(* stacks and locals are made of (src/src/exec.c).  An int lives in the    *)
(* low word of a slot.  Some opcodes cast to int32 and extend the sign     *)
(* over the rest, others work on the whole slot, others again put zeros    *)
(* above the word, and what is above it shows when a later opcode looks.   *)
(*                                                                         *)
(* Next to each slot goes the value that the instruction set gives it, and *)
(* two marks: raw, that the slot may hold something else than the sign     *)
(* above its word, and off, that the value is known to be wrong.  The      *)
(* opcodes say in so many words when they set these marks; Exact is that   *)
(* nothing else goes wrong.  The widths are scaled down.                   *)
(***************************************************************************)
EXTENDS Integers

CONSTANTS
  ByteBits, ShortBits, WordBits, LongBits, \* 8, 16, 32 and 64 in the code
  Reg,     \* places for a value: operands and locals
  Lengths  \* the lengths of the arrays the program makes

ASSUME WidthAssumption ==
  /\ {ByteBits, ShortBits, WordBits, LongBits} \subseteq Nat \ {0}
  /\ ByteBits < ShortBits /\ ShortBits < WordBits /\ WordBits < LongBits
  /\ Lengths \subseteq Nat

VARIABLES
  slot,   \* the bits of each place, as a number that is not negative
  java,   \* history: the value of the instruction set
  raw,    \* history: what is above the word may not be its sign
  off,    \* history: the value is wrong
  outcome  \* "running", or how the process ended

intVars == <<slot, java, raw, off, outcome>>

-----------------------------------------------------------------------------
(* The last n bits of v as a signed number: the casts int8 to int64. *)
Signed(v, n) ==
  LET low == v % 2^n IN IF low >= 2^(n - 1) THEN low - 2^n ELSE low

Int32(v) == Signed(v, WordBits)
Int64(v) == Signed(v, LongBits)

(* jvm_StackPush takes an int64: the bits of a number in a slot. *)
Bits(v) == v % 2^LongBits

(* A slot as the set of its bits that are set, and the slot with these. *)
Places == 0..(LongBits - 1)
Slots == 0..(2^LongBits - 1)
Ones == [s \in Slots |-> {i \in Places : (s \div 2^i) % 2 = 1}]
WithOnes == [B \in SUBSET Places |-> CHOOSE s \in Slots : Ones[s] = B]

And(s, t) == WithOnes[Ones[s] \cap Ones[t]]
Or(s, t) == WithOnes[Ones[s] \cup Ones[t]]
Xor(s, t) == WithOnes[(Ones[s] \ Ones[t]) \cup (Ones[t] \ Ones[s])]

Bytes == -(2^(ByteBits - 1))..(2^(ByteBits - 1) - 1)
Shorts == -(2^(ShortBits - 1))..(2^(ShortBits - 1) - 1)
Ints == -(2^(WordBits - 1))..(2^(WordBits - 1) - 1)

(* Division of C and of Java, towards zero. *)
Quotient(n, d) ==
  LET q == (IF n < 0 THEN -n ELSE n) \div (IF d < 0 THEN -d ELSE d)
  IN  IF (n < 0) = (d < 0) THEN q ELSE -q

(* A place gets new bits s for the value v; the marks as said. *)
Put(r, s, v, israw, isoff) ==
  /\ slot' = [slot EXCEPT ![r] = s]
  /\ java' = [java EXCEPT ![r] = v]
  /\ raw' = [raw EXCEPT ![r] = israw]
  /\ off' = [off EXCEPT ![r] = isoff]
  /\ UNCHANGED outcome

(* Wrong values are not followed any further. *)
Usable(r) == outcome = "running" /\ ~off[r]

-----------------------------------------------------------------------------
IntInit ==
  /\ slot = [r \in Reg |-> 0]
  /\ java = [r \in Reg |-> 0]
  /\ raw = [r \in Reg |-> FALSE]
  /\ off = [r \in Reg |-> FALSE]
  /\ outcome = "running"

(* iconst_xx, bipush and sipush: signed values. *)
Const(r) ==
  /\ outcome = "running"
  /\ \E v \in Shorts : Put(r, Bits(v), v, FALSE, FALSE)

(* ldc of an Integer: the constant is a uint32 and its sign is not extended. *)
Ldc(r) ==
  /\ outcome = "running"
  /\ \E v \in Ints : Put(r, v % 2^WordBits, v, v < 0, FALSE)

(* Loads and stores of locals, dup.  The opcodes below put their result in the *)
(* place of their first operand.                                           *)
Copy(r, a) ==
  /\ Usable(a)
  /\ Put(r, slot[a], java[a], raw[a], FALSE)

(* Wrong on purpose: the sum is taken of the slots. *)
IaddWide(a, b) ==
  /\ Usable(a) /\ Usable(b)
  /\ Put(a, Bits(Int64(slot[a]) + Int64(slot[b])), Int32(java[a] + java[b]), FALSE, FALSE)

(* Both operands and the result are cast to int32 (which wraps). *)
Iadd(a, b) ==
  /\ Usable(a) /\ Usable(b)
  /\ Put(a, Bits(Int32(Int32(slot[a]) + Int32(slot[b]))),
         Int32(java[a] + java[b]), FALSE, FALSE)

Isub(a, b) ==
  /\ Usable(a) /\ Usable(b)
  /\ Put(a, Bits(Int32(Int32(slot[a]) - Int32(slot[b]))),
         Int32(java[a] - java[b]), FALSE, FALSE)

Imul(a, b) ==
  /\ Usable(a) /\ Usable(b)
  /\ Put(a, Bits(Int32(Int32(slot[a]) * Int32(slot[b]))),
         Int32(java[a] * java[b]), FALSE, FALSE)

(* The machine instruction traps where the quotient is no int. *)
Traps(n, d) == d = 0 \/ (n = -(2^(WordBits - 1)) /\ d = -1)

Idiv(a, b) ==
  LET n == Int32(slot[a])
      d == Int32(slot[b])
  IN  /\ Usable(a) /\ Usable(b)
      /\ ~Traps(n, d)
      /\ Put(a, Bits(Quotient(n, d)), Quotient(java[a], java[b]), FALSE, FALSE)

Irem(a, b) ==
  LET n == Int32(slot[a])
      d == Int32(slot[b])
  IN  /\ Usable(a) /\ Usable(b)
      /\ ~Traps(n, d)
      /\ Put(a, Bits(n - d * Quotient(n, d)),
             java[a] - java[b] * Quotient(java[a], java[b]), FALSE, FALSE)

(* No test for a zero divisor comes before idiv and irem. *)
Trap(a, b) ==
  /\ Usable(a) /\ Usable(b)
  /\ Traps(Int32(slot[a]), Int32(slot[b]))
  /\ outcome' = "trap"
  /\ UNCHANGED <<slot, java, raw, off>>

(* The whole slots are joined; the word of the result is right. *)
IandOrXor(a, b) ==
  LET sa == slot[a]
      sb == slot[b]
      word(v) == v % 2^WordBits
      ja == word(java[a])
      jb == word(java[b])
      israw == raw[a] \/ raw[b]
  IN  /\ Usable(a) /\ Usable(b)
      /\ \/ Put(a, And(sa, sb), Int32(And(ja, jb)), israw, FALSE)
         \/ Put(a, Or(sa, sb), Int32(Or(ja, jb)), israw, FALSE)
         \/ Put(a, Xor(sa, sb), Int32(Xor(ja, jb)), israw, FALSE)

(* ineg is ~y. *)
Ineg(a) ==
  /\ Usable(a)
  /\ Put(a, Bits(-Int64(slot[a]) - 1), Int32(-java[a]), raw[a], TRUE)

(* The distance: the machine looks at as many bits as a slot has places for,  *)
(* the instruction set at as many as a word has.                           *)
Far(b) == slot[b] % LongBits
Distance(b) == java[b] % WordBits
TooFar(b) == Far(b) # Distance(b)

(* What is shifted out of the word stays in the slot. *)
Ishl(a, b) ==
  /\ Usable(a) /\ Usable(b)
  /\ Put(a, Bits(slot[a] * 2^Far(b)), Int32(java[a] * 2^Distance(b)),
         raw[a] \/ java[a] * 2^Far(b) \notin Ints, TooFar(b))

(* The whole slot is shifted, so what is above the word comes into it. *)
Ishr(a, b) ==
  /\ Usable(a) /\ Usable(b)
  /\ Put(a, Bits(Int64(slot[a]) \div 2^Far(b)), java[a] \div 2^Distance(b),
         raw[a], TooFar(b) \/ (raw[a] /\ Far(b) > 0))

(* ~0 >> w is -1 at any distance, so iushr is the shift of ishr. *)
Iushr(a, b) ==
  /\ Usable(a) /\ Usable(b)
  /\ Put(a, Bits(Int64(slot[a]) \div 2^Far(b)),
         Int32((java[a] % 2^WordBits) \div 2^Distance(b)),
         raw[a], TooFar(b) \/ ((raw[a] \/ java[a] < 0) /\ Far(b) > 0))

(* Wrong on purpose: the sum is kept without its width. *)
IincWide(r) ==
  /\ Usable(r)
  /\ \E c \in Bytes : Put(r, slot[r] + c, java[r] + c, TRUE, FALSE)

(* iinc adds to the whole local. *)
Iinc(r) ==
  /\ Usable(r)
  /\ \E c \in Bytes :
       Put(r, Bits(slot[r] + c), Int32(java[r] + c),
           raw[r] \/ java[r] + c \notin Ints, FALSE)

(* i2b and i2c both cast to uint8, i2s to int16, i2l leaves the slot. *)
I2b(a) ==
  /\ Usable(a)
  /\ Put(a, slot[a] % 2^ByteBits, Signed(java[a], ByteBits), FALSE,
         Signed(java[a], ByteBits) < 0)

I2c(a) ==
  /\ Usable(a)
  /\ Put(a, slot[a] % 2^ByteBits, java[a] % 2^ShortBits, FALSE,
         java[a] % 2^ShortBits >= 2^ByteBits)

I2s(a) ==
  /\ Usable(a)
  /\ Put(a, Bits(Signed(slot[a], ShortBits)), Signed(java[a], ShortBits), FALSE, FALSE)

(* Stored into an array and loaded again: elements of a byte and of an int  *)
(* array are loaded as unsigned numbers, those of a short array as signed. *)
ThroughArray(a) ==
  /\ Usable(a)
  /\ \/ Put(a, slot[a] % 2^ByteBits, Signed(java[a], ByteBits), FALSE,
            Signed(java[a], ByteBits) < 0)
     \/ Put(a, slot[a] % 2^ShortBits, java[a] % 2^ShortBits, FALSE, FALSE)
     \/ Put(a, Bits(Signed(slot[a], ShortBits)), Signed(java[a], ShortBits), FALSE, FALSE)
     \/ Put(a, slot[a] % 2^WordBits, java[a], java[a] < 0, FALSE)

(* fieldCnt, in which the length of an array is kept, is a uint16. *)
fieldCnt(n) == n % 2^ShortBits

ArrayLength(r) ==
  /\ outcome = "running"
  /\ \E n \in Lengths : n \in Ints /\ Put(r, fieldCnt(n), n, FALSE, n # fieldCnt(n))

(* A load from an array of n elements: the index is compared as a signed    *)
(* number.  Elements are 0 here.                                           *)
Load(r, n) ==
  /\ Usable(r)
  /\ CASE Int64(slot[r]) >= fieldCnt(n) -> outcome' = "exit3" /\ UNCHANGED <<slot, java, raw, off>>
       [] Int64(slot[r]) < 0 -> outcome' = "outside" /\ UNCHANGED <<slot, java, raw, off>>
       [] OTHER -> Put(r, 0, 0, FALSE, FALSE)

(* Wrong on purpose: the index of a store is compared as a signed number. *)
StoreSigned(r, n) ==
  /\ Usable(r)
  /\ IF Int64(slot[r]) >= fieldCnt(n)
       THEN outcome' = "exit3" /\ UNCHANGED <<slot, java, raw, off>>
       ELSE Put(r, 0, 0, FALSE, FALSE)

(* A store: the comparison is unsigned.  The value that was in the place is *)
(* gone.                                                                   *)
Store(r, n) ==
  /\ Usable(r)
  /\ IF slot[r] >= fieldCnt(n)
       THEN outcome' = "exit3" /\ UNCHANGED <<slot, java, raw, off>>
       ELSE Put(r, 0, 0, FALSE, FALSE)

-----------------------------------------------------------------------------
IntNext ==
  \/ \E r \in Reg :
       \/ Const(r) \/ Ldc(r) \/ Iinc(r) \/ ArrayLength(r)
       \/ \E n \in Lengths : Load(r, n) \/ Store(r, n)
       \/ Ineg(r) \/ I2b(r) \/ I2c(r) \/ I2s(r) \/ ThroughArray(r)
  \/ \E a, b \in Reg :
       \/ Copy(a, b)
       \/ Iadd(a, b) \/ Isub(a, b) \/ Imul(a, b)
       \/ Idiv(a, b) \/ Irem(a, b) \/ Trap(a, b)
       \/ IandOrXor(a, b)
       \/ Ishl(a, b) \/ Ishr(a, b) \/ Iushr(a, b)
  \/ outcome # "running" /\ UNCHANGED intVars

IntSpec == IntInit /\ [][IntNext]_intVars

-----------------------------------------------------------------------------
IntTypeOK ==
  /\ slot \in [Reg -> Slots]
  /\ java \in [Reg -> Ints]
  /\ raw \in [Reg -> BOOLEAN] /\ off \in [Reg -> BOOLEAN]
  /\ outcome \in {"running", "exit3", "outside", "trap"}

(***************************************************************************)
(* Whatever the opcodes (exec.c:557 to 834) are combined to, the word of a *)
(* slot is the value of the instruction set unless an opcode marked it as  *)
(* off, and the sign stands above it unless an opcode marked it as raw:    *)
(* casts in some opcodes and none in others lose nothing else.             *)
(***************************************************************************)
Exact ==
  \A r \in Reg : ~off[r] =>
    /\ Int32(slot[r]) = java[r]
    /\ ~raw[r] => slot[r] = Bits(java[r])

(***************************************************************************)
(* An element is used only when the instruction set allows its index       *)
(* (exec.c:877, 953).  An index it allows is refused, and a load reads     *)
(* before the array with one it refuses, in two cases only: a negative     *)
(* index of a load, and a slot without the sign of its word above it.      *)
(***************************************************************************)
IndexJudged ==
  [][\A r \in Reg, n \in Lengths :
       LET inside == java[r] \in 0..(fieldCnt(n) - 1)
           signed == slot[r] = Bits(java[r])
       IN  /\ Load(r, n) => CASE outcome' = "running" -> inside
                              [] outcome' = "exit3" -> ~(inside /\ signed)
                              [] outcome' = "outside" -> java[r] < 0 \/ ~signed
           /\ Store(r, n) => IF outcome' = "running" THEN inside ELSE ~(inside /\ signed)
    ]_intVars
=============================================================================
