---------------------------- MODULE OpcodeProofs ----------------------------
(***************************************************************************)
(* Proofs about the opcodes of jvm_ExecuteObjectMethod: where control goes *)
(* (CodeFlow), for every method a verifier accepts, of any length, with    *)
(* any operands; and what the opcodes on int values compute (IntSlots),    *)
(* for words and slots of any width.                                       *)
(***************************************************************************)
EXTENDS CodeFlow, IntSlots, FiniteSetTheorems, TLAPS

-----------------------------------------------------------------------------
(* Induction, as far as a prover without variables for predicates can do   *)
(* it: a set of numbers has a least one, and so the least counterexample   *)
(* is one that its predecessor is not.                                     *)

LEMMA Least ==
  ASSUME NEW T \in SUBSET Nat, T # {}
  PROVE  \E n \in T : \A k \in T : n <= k
<1>. DEFINE Below == {0..n : n \in T}
<1>1. Below \subseteq FiniteSubsetsOf(Nat)
  <2>1. ASSUME NEW n \in T PROVE 0..n \in FiniteSubsetsOf(Nat)
    <3>1. IsFiniteSet(0..n)
      BY FS_Interval
    <3>2. 0..n \in SUBSET Nat
      OBVIOUS
    <3>3. QED
      BY <3>1, <3>2 DEF FiniteSubsetsOf
  <2>2. QED
    BY <2>1
<1>2. IsWellFoundedOn(StrictSubsetOrdering(Nat), FiniteSubsetsOf(Nat))
  BY FS_StrictSubsetOrderingWellFounded
<1>3. Below # {}
  OBVIOUS
<1>4. PICK B \in Below : \A C \in Below : ~ (<<C, B>> \in StrictSubsetOrdering(Nat))
  <2>. HIDE DEF Below
  <2>1. QED
    BY <1>1, <1>2, <1>3, WFMin, Zenon
<1>5. PICK n \in T : B = 0..n
  BY <1>4
<1>6. ASSUME NEW k \in T, k < n PROVE FALSE
  <2>1. 0..k \in Below
    OBVIOUS
  <2>2. n \notin 0..k /\ n \in 0..n
    BY <1>6
  <2>3. 0..k \subseteq Nat /\ 0..n \subseteq Nat /\ 0..k \subseteq 0..n /\ 0..k # 0..n
    BY <1>6, <2>2
  <2>4. <<0..k, 0..n>> \in StrictSubsetOrdering(Nat)
    BY <2>3 DEF StrictSubsetOrdering
  <2>5. QED
    BY <1>4, <1>5, <2>1, <2>4
<1>7. QED
  BY <1>6

-----------------------------------------------------------------------------
(* The instructions.                                                       *)

LEMMA SeqElements ==
  ASSUME NEW S, NEW s \in Seq(S)
  PROVE  Len(s) \in Nat /\ \A j \in 1..Len(s) : s[j] \in S
  OBVIOUS

LEMMA Align4Bounds ==
  ASSUME NEW n \in Nat
  PROVE  /\ Align4(n) \in Nat /\ Align4(n) >= n
         /\ Align4(4 + n) = 4 + Align4(n)
  BY DEF Align4

LEMMA InstructionType ==
  ASSUME NEW n \in Nat, NEW instr \in Instruction(n)
  PROVE  /\ instr.op \in {"nop", "risky", "throw", "enter", "exit", "call", "return", "body",
                          "goto", "if", "ifeq", "table", "lookup"}
         /\ instr.op = "body" => instr.size \in Nat \ {0}
         /\ instr.op \in {"goto", "if", "ifeq"} => instr.to \in 1..n
         /\ instr.op = "table" =>
              instr.low \in Int /\ instr.to \in Seq(1..n) /\ instr.dflt \in 1..n
         /\ instr.op = "lookup" =>
              /\ instr.keys \in Seq(Int) /\ instr.to \in Seq(1..n)
              /\ instr.more \in Nat /\ instr.dflt \in 1..n
  BY DEF Instruction

LEMMA SizeType ==
  ASSUME NEW n \in Nat, NEW instr \in Instruction(n), NEW pos \in Nat
  PROVE  Size(instr, pos) \in Nat \ {0}
<1>. DEFINE op == instr.op
<1>1. CASE op = "body"
  BY <1>1, InstructionType DEF Size
<1>2. CASE op \in {"goto", "if", "ifeq", "risky", "call"}
  BY <1>2 DEF Size
<1>3. CASE op \in {"nop", "throw", "return", "enter", "exit"}
  BY <1>3 DEF Size
<1>4. Align4(pos + 1) \in Nat /\ Align4(pos + 1) >= pos + 1
  BY Align4Bounds
<1>5. CASE op = "table"
  <2>1. Size(instr, pos) = Align4(pos + 1) - pos + 4 * (3 + Len(instr.to))
    BY <1>5 DEF Size
  <2>2. Len(instr.to) \in Nat
    BY <1>5, InstructionType
  <2>3. QED
    BY <1>4, <2>1, <2>2
<1>6. CASE op = "lookup"
  <2>1. Size(instr, pos) =
          Align4(pos + 1) - pos + 4 * (2 + 2 * (Len(instr.to) + instr.more))
    BY <1>6 DEF Size
  <2>2. Len(instr.to) \in Nat /\ instr.more \in Nat
    BY <1>6, InstructionType
  <2>3. QED
    BY <1>4, <2>1, <2>2
<1>7. QED
  BY <1>1, <1>2, <1>3, <1>5, <1>6, InstructionType

-----------------------------------------------------------------------------
(* The layout: the recursive function exists, and its values grow.         *)

(* The function f is the layout of the first instructions of c, up to k. *)
LayoutTo(f, c, k) ==
  f = [j \in 1..k |-> IF j = 1 THEN 0 ELSE LET p == f[j - 1] IN p + Size(c[j - 1], p)]

LEMMA LayoutExists ==
  ASSUME NEW c, NEW n \in Nat
  PROVE  \E f : LayoutTo(f, c, n + 1)
<1>. DEFINE Bad == {k \in Nat : ~ \E f : LayoutTo(f, c, k + 1)}
<1>1. SUFFICES ASSUME Bad # {} PROVE FALSE
  OBVIOUS
<1>2. PICK k \in Bad : \A l \in Bad : k <= l
  BY <1>1, Least
<1>3. CASE k = 0
  <2>. DEFINE f == [j \in 1..1 |-> 0]
  <2>1. LayoutTo(f, c, 1)
    BY DEF LayoutTo
  <2>2. QED
    BY <1>2, <1>3, <2>1
<1>4. CASE k # 0
  <2>1. k - 1 \in Nat /\ k - 1 \notin Bad /\ (k - 1) + 1 = k
    BY <1>2, <1>4
  <2>2. PICK f : LayoutTo(f, c, k)
    BY <2>1
  <2>. DEFINE F(j) == IF j = k + 1 THEN f[k] + Size(c[k], f[k]) ELSE f[j]
              g == [j \in 1..(k + 1) |-> F(j)]
  <2>3. \A j \in 1..k : g[j] = f[j]
    OBVIOUS
  <2>4. \A j \in 1..(k + 1) :
          g[j] = IF j = 1 THEN 0 ELSE LET p == g[j - 1] IN p + Size(c[j - 1], p)
    <3>1. TAKE j \in 1..(k + 1)
    <3>2. CASE j = k + 1
      <4>1. g[j] = f[k] + Size(c[k], f[k]) /\ j # 1 /\ j - 1 = k /\ g[k] = f[k]
        BY <1>4, <2>3, <3>2
      <4>. HIDE DEF g
      <4>2. QED
        BY <4>1
    <3>3. CASE j # k + 1
      <4>1. j \in 1..k /\ g[j] = f[j] /\ (j # 1 => j - 1 \in 1..k /\ g[j - 1] = f[j - 1])
        BY <3>3
      <4>2. f[j] = IF j = 1 THEN 0 ELSE LET p == f[j - 1] IN p + Size(c[j - 1], p)
        BY <2>2, <4>1 DEF LayoutTo
      <4>. HIDE DEF g
      <4>3. QED
        BY <4>1, <4>2
    <3>4. QED
      BY <3>2, <3>3
  <2>5. g = [j \in 1..(k + 1) |-> g[j]]
    OBVIOUS
  <2>. HIDE DEF g
  <2>6. LayoutTo(g, c, k + 1)
    BY <2>4, <2>5, Zenon DEF LayoutTo
  <2>7. QED
    BY <1>2, <2>6
<1>5. QED
  BY <1>3, <1>4

LEMMA LayoutEquation ==
  ASSUME NEW c, Len(c) \in Nat
  PROVE  LayoutTo(PositionsOf(c), c, Len(c) + 1)
<1>1. \E f : LayoutTo(f, c, Len(c) + 1)
  BY LayoutExists
<1>2. QED
  BY <1>1 DEF PositionsOf, LayoutTo

(* Instructions follow one another without a gap, from byte 0 on. *)
LEMMA LayoutStep ==
  ASSUME NEW m \in Methods
  PROVE  LET n == Len(m.code)
             pos == PositionsOf(m.code)
         IN  /\ n \in Nat \ {0}
             /\ \A j \in 1..n : m.code[j] \in Instruction(n)
             /\ pos[1] = 0
             /\ \A j \in 1..(n + 1) : pos[j] \in Nat
             /\ \A j \in 1..n : pos[j + 1] = pos[j] + Size(m.code[j], pos[j])
             /\ \A j \in 1..n : pos[j] < pos[j + 1]
<1>. DEFINE n == Len(m.code)
            pos == PositionsOf(m.code)
            Bad == {k \in Nat : k + 1 \in 1..(n + 1) /\ pos[k + 1] \notin Nat}
<1>2. n \in Nat \ {0} /\ \A j \in 1..n : m.code[j] \in Instruction(n)
  <2>1. Len(m.code) > 0 /\ m.code \in Seq(Instruction(Len(m.code)))
    BY MethodAssumption DEF WellFormed
  <2>2. /\ Len(m.code) \in Nat
        /\ \A j \in 1..Len(m.code) : m.code[j] \in Instruction(Len(m.code))
    BY <2>1, SeqElements, Zenon
  <2>3. QED
    BY <2>1, <2>2
<1>3. LayoutTo(pos, m.code, n + 1)
  BY <1>2, LayoutEquation
<1>. HIDE DEF pos, n
<1>4. /\ pos[1] = 0
      /\ \A j \in 1..n : pos[j + 1] = pos[j] + Size(m.code[j], pos[j])
  <2>1. pos = [j \in 1..(n + 1) |-> IF j = 1 THEN 0
                                   ELSE LET p == pos[j - 1] IN p + Size(m.code[j - 1], p)]
    BY <1>3 DEF LayoutTo
  <2>2. \A j \in 1..(n + 1) : pos[j] = IF j = 1 THEN 0
                                      ELSE pos[j - 1] + Size(m.code[j - 1], pos[j - 1])
    BY <2>1
  <2>3. 1 \in 1..(n + 1) /\ \A j \in 1..n : j + 1 \in 1..(n + 1) /\ j + 1 # 1 /\ (j + 1) - 1 = j
    BY <1>2
  <2>4. pos[1] = 0
    BY <2>2, <2>3
  <2>5. ASSUME NEW j \in 1..n PROVE pos[j + 1] = pos[j] + Size(m.code[j], pos[j])
    <3>1. pos[j + 1] = pos[(j + 1) - 1] + Size(m.code[(j + 1) - 1], pos[(j + 1) - 1])
      BY <2>2, <2>3
    <3>2. QED
      BY <2>3, <3>1
  <2>6. QED
    BY <2>4, <2>5
<1>5. \A j \in 1..(n + 1) : pos[j] \in Nat
  <2>1. SUFFICES Bad = {}
    <3>1. ASSUME NEW j \in 1..(n + 1), Bad = {} PROVE pos[j] \in Nat
      <4>1. j - 1 \in Nat /\ (j - 1) + 1 = j
        BY <1>2
      <4>2. QED
        BY <3>1, <4>1
    <3>2. QED
      BY <3>1
  <2>2. SUFFICES ASSUME Bad # {} PROVE FALSE
    OBVIOUS
  <2>3. PICK k \in Bad : \A l \in Bad : k <= l
    BY <2>2, Least
  <2>4. k # 0
    BY <1>4, <2>3
  <2>5. k \in 1..n /\ k - 1 \in Nat /\ (k - 1) + 1 = k /\ k \in 1..(n + 1)
    BY <1>2, <2>3, <2>4
  <2>6. pos[k] \in Nat
    BY <2>3, <2>5
  <2>7. pos[k + 1] = pos[k] + Size(m.code[k], pos[k]) /\ Size(m.code[k], pos[k]) \in Nat
    BY <1>2, <1>4, <2>5, <2>6, SizeType
  <2>8. QED
    BY <2>3, <2>6, <2>7
<1>6. \A j \in 1..n : pos[j] < pos[j + 1]
  <2>1. TAKE j \in 1..n
  <2>2. pos[j] \in Nat
    BY <1>2, <1>5
  <2>3. pos[j + 1] = pos[j] + Size(m.code[j], pos[j]) /\ Size(m.code[j], pos[j]) \in Nat \ {0}
    BY <1>2, <1>4, <2>2, SizeType
  <2>4. QED
    BY <2>2, <2>3
<1>7. QED
  BY <1>2, <1>4, <1>5, <1>6 DEF pos, n

LEMMA LayoutGrows ==
  ASSUME NEW m \in Methods,
         NEW j \in 1..(Len(m.code) + 1), NEW k \in 1..(Len(m.code) + 1), j < k
  PROVE  PositionsOf(m.code)[j] < PositionsOf(m.code)[k]
<1>. DEFINE n == Len(m.code)
            pos == PositionsOf(m.code)
            Bad == {d \in Nat : j + (d + 1) \in 1..(n + 1) /\ ~ pos[j] < pos[j + (d + 1)]}
<1>1. /\ n \in Nat \ {0}
      /\ \A l \in 1..(n + 1) : pos[l] \in Nat
      /\ \A l \in 1..n : pos[l] < pos[l + 1]
  BY LayoutStep
<1>. HIDE DEF pos, n
<1>0. j \in 1..(n + 1) /\ k \in 1..(n + 1)
  BY DEF n
<1>2. SUFFICES Bad = {}
  <2>1. k - j - 1 \in Nat /\ j + ((k - j - 1) + 1) = k
    BY <1>0, <1>1
  <2>2. ASSUME Bad = {} PROVE pos[j] < pos[k]
    BY <1>0, <2>1, <2>2
  <2>3. QED
    BY <2>2 DEF pos, n
<1>3. SUFFICES ASSUME Bad # {} PROVE FALSE
  OBVIOUS
<1>4. PICK d \in Bad : \A e \in Bad : d <= e
  BY <1>3, Least
<1>5. j + d \in 1..n /\ j + d \in 1..(n + 1) /\ j + (d + 1) = (j + d) + 1
  BY <1>0, <1>1, <1>4
<1>6. pos[j + d] < pos[j + (d + 1)]
  BY <1>1, <1>5
<1>7. pos[j] <= pos[j + d]
  <2>1. CASE d = 0
    BY <1>0, <1>1, <2>1
  <2>2. CASE d # 0
    <3>0. d \in Nat /\ d - 1 \in Nat /\ ~ (d <= d - 1) /\ (d - 1) + 1 = d
      BY <1>4, <2>2
    <3>1. d - 1 \notin Bad
      <4>. HIDE DEF Bad
      <4>1. QED
        BY <1>4, <3>0
    <3>2. pos[j] < pos[j + d]
      BY <1>5, <3>0, <3>1
    <3>3. QED
      BY <1>0, <1>1, <1>5, <3>2
  <2>3. QED
    BY <2>1, <2>2
<1>8. pos[j] < pos[j + (d + 1)]
  BY <1>0, <1>1, <1>4, <1>5, <1>6, <1>7
<1>9. QED
  BY <1>4, <1>8

-----------------------------------------------------------------------------
(* Where an instruction starts, and which one starts at a byte.            *)

(* A method is being run, and laid out as its class file has it. *)
LaidOut == method \in Methods /\ layout = PositionsOf(method.code)

LEMMA Instructions ==
  ASSUME LaidOut
  PROVE  /\ Length \in Nat \ {0}
         /\ \A j \in 1..Length : Instr(j) \in Instruction(Length)
         /\ Instr(Length).op \in {"goto", "table", "lookup", "throw", "return"}
         /\ Pos(1) = 0
         /\ \A j \in 1..(Length + 1) : Pos(j) \in Nat
         /\ \A j \in 1..Length : Pos(j + 1) = Pos(j) + Size(Instr(j), Pos(j))
         /\ \A j, k \in 1..(Length + 1) : j < k => Pos(j) < Pos(k)
<1>. DEFINE m == method
<1>1. m \in Methods /\ Length = Len(m.code) /\ layout = PositionsOf(m.code)
  BY DEF LaidOut, Length
<1>2. Instr(Length).op \in {"goto", "table", "lookup", "throw", "return"}
  BY <1>1, MethodAssumption DEF WellFormed, Instr
<1>. HIDE DEF m
<1>3. \A j, k \in 1..(Length + 1) : j < k => Pos(j) < Pos(k)
  BY <1>1, LayoutGrows DEF Pos
<1>4. \A j : Instr(j) = m.code[j]
  BY DEF Instr, m
<1>5. QED
  BY <1>1, <1>2, <1>3, <1>4, LayoutStep DEF Pos

LEMMA AtPos ==
  ASSUME LaidOut, NEW j \in 1..Length
  PROVE  At(Pos(j)) = j /\ Pos(j) \in 0..(codesz - 1)
<1>1. \A k \in 1..Length : Pos(k) = Pos(j) => k = j
  <2>1. TAKE k \in 1..Length
  <2>2. Length \in Nat /\ k \in 1..(Length + 1) /\ j \in 1..(Length + 1)
    BY Instructions
  <2>3. Pos(k) \in Nat /\ Pos(j) \in Nat /\ (k < j => Pos(k) < Pos(j)) /\ (j < k => Pos(j) < Pos(k))
    BY <2>2, Instructions
  <2>4. QED
    BY <2>2, <2>3
<1>2. At(Pos(j)) = j
  BY <1>1 DEF At
<1>3. /\ Length \in Nat /\ j \in 1..(Length + 1) /\ Length + 1 \in 1..(Length + 1)
      /\ j < Length + 1
  BY Instructions
<1>4. Pos(j) \in Nat /\ codesz \in Nat /\ Pos(j) < codesz
  BY <1>3, Instructions DEF codesz
<1>5. QED
  BY <1>2, <1>4

LEMMA PosAt ==
  ASSUME NEW v, At(v) # 0
  PROVE  At(v) \in 1..Length /\ Pos(At(v)) = v
BY DEF At

LEMMA AtUnchanged ==
  ASSUME UNCHANGED <<method, layout>>
  PROVE  /\ (\A d \in 1..Len(calls) : At(calls[d]) # 0)'
              = (\A d \in 1..Len(calls') : At(calls'[d]) # 0)
         /\ [d \in DOMAIN calls |-> At(calls[d])]' = [d \in DOMAIN calls' |-> At(calls'[d])]
         /\ \A j : Instr(j)' = Instr(j)
BY DEF At, Pos, Length, Instr

-----------------------------------------------------------------------------
(* How the code reads the numbers that the class file holds.               *)

LEMMA SignedReads ==
  ASSUME NEW v \in Int, Int16(v)
  PROVE  Signed16(v) = v /\ (v >= 0 => Unsigned16(v) = v)
<1>1. CASE v >= 0
  <2>1. v % 65536 = v /\ v < 32768
    BY <1>1 DEF Int16
  <2>2. QED
    BY <1>1, <2>1 DEF Signed16, Unsigned16
<1>2. CASE v < 0
  <2>1. v % 65536 = v + 65536 /\ v + 65536 >= 32768
    BY <1>2 DEF Int16
  <2>2. QED
    BY <1>2, <2>1 DEF Signed16
<1>3. QED
  BY <1>1, <1>2

LEMMA UnsignedType ==
  ASSUME NEW v \in Int
  PROVE  Unsigned16(v) \in Int
BY DEF Unsigned16

LEMMA NothlReads ==
  ASSUME NEW v \in Int
  PROVE  nothl(v) \in Int /\ (~Misread(v) => nothl(v) = v)
BY DEF nothl, Misread

LEMMA TableOffsetReads ==
  ASSUME NEW v \in Int
  PROVE  TableOffset(v) \in Int /\ (~MisreadOffset(v) => TableOffset(v) = v)
<1>1. nothl(v) \in Int
  BY NothlReads
<1>2. TableOffset(v) \in Int
  BY <1>1 DEF TableOffset
<1>3. ASSUME ~MisreadOffset(v) PROVE TableOffset(v) = v
  <2>1. CASE Misread(v)
    <3>1. v >= 0 /\ v < 256 /\ v % 256 >= 128
      BY <1>3, <2>1 DEF MisreadOffset, Misread
    <3>2. v % 256 = v
      BY <3>1
    <3>3. nothl(v) = v - 256 /\ (v - 256) % 256 = v
      BY <3>1, <3>2 DEF nothl
    <3>4. QED
      BY <3>1, <3>2, <3>3 DEF TableOffset
  <2>2. CASE ~Misread(v)
    <3>1. nothl(v) = v /\ v \notin -256..-1
      BY <1>3, <2>2, NothlReads DEF MisreadOffset
    <3>2. QED
      BY <3>1 DEF TableOffset
  <2>3. QED
    BY <2>1, <2>2
<1>4. QED
  BY <1>2, <1>3

(* The table is found: the block and the code agree modulo four. *)
LEMMA MapFound ==
  ASSUME base \in Bases, NEW v \in Nat
  PROVE  MapAt(v) = Align4(v + 1)
<1>1. base \in 0..3
  BY FlowAssumption
<1>2. code = 0 \/ code = 4
  BY <1>1 DEF code, Align4
<1>3. CASE code = 0
  BY <1>3, Align4Bounds DEF MapAt
<1>4. CASE code = 4
  <2>1. Align4(4 + (v + 1)) = 4 + Align4(v + 1) /\ Align4(v + 1) \in Nat
    BY Align4Bounds
  <2>2. code + v + 1 = 4 + (v + 1)
    BY <1>4
  <2>3. QED
    BY <1>4, <2>1, <2>2 DEF MapAt
<1>5. QED
  BY <1>2, <1>3, <1>4

-----------------------------------------------------------------------------
(* The invariant: TypeOK with the method it is about, LoopNeverLeft, and   *)
(* what a return relies on, that a call which is not the innermost stands  *)
(* at an invoke.                                                           *)

FlowType ==
  /\ LaidOut
  /\ base \in Bases
  /\ calls \in Seq(Int) /\ depth \in 1..MaxDepth
  /\ lock \in 0..1
  /\ status \in {"running", "returned", "exit3", "exit55", "wild", "overflow"}
  /\ strayed \in BOOLEAN

CallersWait ==
  status = "running" =>
    /\ \A d \in 1..Len(calls) : At(calls[d]) # 0
    /\ \A d \in 1..(Len(calls) - 1) : Instr(At(calls[d])).op = "call"

FlowInv == FlowType /\ CallersWait /\ LoopNeverLeft

LEMMA Running ==
  ASSUME FlowInv, status = "running"
  PROVE  /\ i \in 1..Length /\ x = Pos(i) /\ x \in Nat
         /\ depth \in Nat \ {0} /\ depth <= MaxDepth
         /\ Instr(i) \in Instruction(Length) /\ Length \in Nat
<1>1. depth \in Nat \ {0} /\ depth <= MaxDepth /\ depth = Len(calls)
  BY FlowAssumption DEF FlowInv, FlowType, depth
<1>2. At(calls[depth]) # 0
  BY <1>1 DEF FlowInv, CallersWait
<1>3. At(calls[depth]) \in 1..Length /\ Pos(At(calls[depth])) = calls[depth]
  BY <1>2, PosAt
<1>4. i \in 1..Length /\ x = Pos(i)
  BY <1>3, Zenon DEF i, x
<1>5. Length \in Nat /\ i \in 1..(Length + 1) /\ Instr(i) \in Instruction(Length)
  BY <1>4, Instructions DEF FlowInv, FlowType
<1>6. x \in Nat
  BY <1>4, <1>5, Instructions DEF FlowInv, FlowType
<1>7. QED
  BY <1>1, <1>4, <1>5, <1>6

(* The step goes on with an instruction that Java allows. *)
Goes == \E j \in 1..Length : j \in Java!Successors(i) /\ Continue(Pos(j))

(* The step is that of an instruction listed as wrong. *)
Astray ==
  /\ strayed'
  /\ \/ \E nx \in Int : Continue(nx)
     \/ status' \in {"wild", "exit3"} /\ UNCHANGED calls

(* The instruction after one that is not the last. *)
LEMMA NextOne ==
  ASSUME FlowInv, status = "running",
         Instr(i).op \notin {"goto", "table", "lookup", "throw", "return"}
  PROVE  i + 1 \in 1..Length /\ Pos(i + 1) = x + Size(Instr(i), x)
<1>1. i \in 1..Length /\ Length \in Nat /\ x = Pos(i)
  BY Running
<1>2. i # Length
  BY Instructions DEF FlowInv, FlowType
<1>3. Pos(i + 1) = Pos(i) + Size(Instr(i), Pos(i))
  BY <1>1, Instructions DEF FlowInv, FlowType
<1>4. QED
  BY <1>1, <1>2, <1>3

(* The opcodes that only go on: three bytes, one byte, or as many as there are. *)
LEMMA NextGoes ==
  ASSUME FlowInv, status = "running",
         \/ Instr(i).op = "body" /\ Continue(x + Instr(i).size)
         \/ Instr(i).op \in {"if", "ifeq", "risky"} /\ Continue(x + 3)
         \/ Instr(i).op \in {"enter", "exit"} /\ Continue(x + 1)
  PROVE  Goes /\ Continue(Pos(i + 1)) /\ i + 1 \in 1..Length
<1>1. i + 1 \in 1..Length /\ Pos(i + 1) = x + Size(Instr(i), x)
  BY NextOne
<1>2. i + 1 \in Java!Successors(i)
  <2>1. CASE Instr(i).op \in {"body", "risky", "enter", "exit"}
    BY <2>1 DEF Java!Successors, Java!Instr, Instr
  <2>2. CASE Instr(i).op \in {"if", "ifeq"}
    BY <2>2 DEF Java!Successors, Java!Instr, Instr
  <2>3. QED
    BY <2>1, <2>2
<1>3. Continue(Pos(i + 1))
  <2>1. CASE Instr(i).op = "body" /\ Continue(x + Instr(i).size)
    <3>1. Size(Instr(i), x) = Instr(i).size
      BY <2>1 DEF Size
    <3>2. QED
      BY <1>1, <2>1, <3>1, Zenon
  <2>2. CASE Instr(i).op \in {"if", "ifeq", "risky"} /\ Continue(x + 3)
    <3>1. Size(Instr(i), x) = 3
      BY <2>2 DEF Size
    <3>2. QED
      BY <1>1, <2>2, <3>1, Zenon
  <2>3. CASE Instr(i).op \in {"enter", "exit"} /\ Continue(x + 1)
    <3>1. Size(Instr(i), x) = 1
      BY <2>3 DEF Size
    <3>2. QED
      BY <1>1, <2>3, <3>1, Zenon
  <2>4. QED
    BY <2>1, <2>2, <2>3, Zenon
<1>4. QED
  BY <1>1, <1>2, <1>3, Zenon DEF Goes

LEMMA BranchGoes ==
  ASSUME FlowInv, status = "running", Instr(i).op \in {"goto", "if", "ifeq"}
  PROVE  /\ Instr(i).to \in 1..Length
         /\ Instr(i).to \in Java!Successors(i)
         /\ Offset(i, Instr(i).to) \in Int /\ Int16(Offset(i, Instr(i).to))
         /\ x + Offset(i, Instr(i).to) = Pos(Instr(i).to)
<1>1. i \in 1..Length /\ x = Pos(i) /\ Instr(i) \in Instruction(Length) /\ Length \in Nat
  BY Running
<1>2. Instr(i).to \in 1..Length
  BY <1>1, InstructionType
<1>3. Instr(i).to \in Java!Successors(i)
  <2>1. CASE Instr(i).op = "goto"
    BY <2>1 DEF Java!Successors, Java!Instr, Instr
  <2>2. CASE Instr(i).op \in {"if", "ifeq"}
    BY <2>2 DEF Java!Successors, Java!Instr, Instr
  <2>3. QED
    BY <2>1, <2>2
<1>4. method \in Methods /\ layout = PositionsOf(method.code)
  BY DEF FlowInv, FlowType, LaidOut
<1>5. BranchFits(method.code, i)
  <2>. HIDE DEF i
  <2>1. i \in 1..Len(method.code)
    BY <1>1 DEF Length
  <2>2. QED
    BY <1>4, <2>1, MethodAssumption DEF WellFormed
<1>6. Int16(Offset(i, Instr(i).to))
  <2>. HIDE DEF i
  <2>1. QED
    BY <1>4, <1>5 DEF BranchFits, Offset, Pos, Instr
<1>7. Pos(i) \in Nat /\ Pos(Instr(i).to) \in Nat
  <2>1. i \in 1..(Length + 1) /\ Instr(i).to \in 1..(Length + 1)
    BY <1>1, <1>2
  <2>2. QED
    BY <2>1, Instructions DEF FlowInv, FlowType
<1>8. Offset(i, Instr(i).to) \in Int /\ x + Offset(i, Instr(i).to) = Pos(Instr(i).to)
  BY <1>1, <1>7 DEF Offset
<1>9. QED
  BY <1>2, <1>3, <1>6, <1>8

LEMMA GotoGoes ==
  ASSUME FlowInv, status = "running", Instr(i).op \in {"goto", "if"},
         Continue(x + Signed16(Offset(i, Instr(i).to)))
  PROVE  Goes
<1>1. Instr(i).op \in {"goto", "if", "ifeq"}
  OBVIOUS
<1>2. /\ Instr(i).to \in 1..Length /\ Instr(i).to \in Java!Successors(i)
      /\ Offset(i, Instr(i).to) \in Int /\ Int16(Offset(i, Instr(i).to))
      /\ x + Offset(i, Instr(i).to) = Pos(Instr(i).to)
  BY <1>1, BranchGoes
<1>3. Signed16(Offset(i, Instr(i).to)) = Offset(i, Instr(i).to)
  BY <1>2, SignedReads
<1>4. QED
  BY <1>2, <1>3, Zenon DEF Goes

LEMMA IfeqGoes ==
  ASSUME FlowInv, status = "running", Instr(i).op = "ifeq",
         Continue(x + Unsigned16(Offset(i, Instr(i).to))),
         Strays(Offset(i, Instr(i).to) < 0)
  PROVE  Goes \/ Astray
<1>1. Instr(i).op \in {"goto", "if", "ifeq"}
  OBVIOUS
<1>2. /\ Instr(i).to \in 1..Length /\ Instr(i).to \in Java!Successors(i)
      /\ Offset(i, Instr(i).to) \in Int /\ Int16(Offset(i, Instr(i).to))
      /\ x + Offset(i, Instr(i).to) = Pos(Instr(i).to)
  BY <1>1, BranchGoes
<1>3. x \in Nat
  BY Running
<1>4. CASE Offset(i, Instr(i).to) < 0
  <2>1. Unsigned16(Offset(i, Instr(i).to)) \in Int
    BY <1>2, UnsignedType
  <2>2. x + Unsigned16(Offset(i, Instr(i).to)) \in Int
    BY <1>3, <2>1
  <2>3. strayed'
    BY <1>4 DEF Strays
  <2>4. QED
    BY <2>2, <2>3, Zenon DEF Astray
<1>5. CASE Offset(i, Instr(i).to) >= 0
  <2>1. Unsigned16(Offset(i, Instr(i).to)) = Offset(i, Instr(i).to)
    BY <1>2, <1>5, SignedReads
  <2>2. QED
    BY <1>2, <2>1, Zenon DEF Goes
<1>6. QED
  BY <1>2, <1>4, <1>5

(* What every switch needs: its targets start somewhere in the code. *)
LEMMA TargetPos ==
  ASSUME FlowInv, status = "running", NEW t \in 1..Length
  PROVE  /\ Offset(i, t) \in Int
         /\ x + Offset(i, t) = Pos(t)
         /\ MapAt(x) = Align4(x + 1)
<1>1. i \in 1..Length /\ x = Pos(i) /\ x \in Nat /\ Length \in Nat
  BY Running
<1>2. Pos(t) \in Nat
  <2>1. t \in 1..(Length + 1)
    BY <1>1
  <2>2. QED
    BY <2>1, Instructions DEF FlowInv, FlowType
<1>3. MapAt(x) = Align4(x + 1)
  BY <1>1, MapFound DEF FlowInv, FlowType
<1>4. QED
  BY <1>1, <1>2, <1>3 DEF Offset

LEMMA TableGoes ==
  ASSUME FlowInv, NEW v \in Operands, TableSwitch(v)
  PROVE  Goes \/ Astray
<1>. DEFINE instr == Instr(i)
            low == nothl(instr.low)
            high == nothl(instr.low + Len(instr.to) - 1)
            entry == v - low + 1
            goto(t) == Continue(x + TableOffset(Offset(i, t)))
            target == Java!TableTarget(i, v)
<1>1. /\ status = "running" /\ instr.op = "table"
      /\ IF MapAt(x) # Align4(x + 1) THEN WildJump
         ELSE IF v < low \/ v > high THEN goto(instr.dflt)
         ELSE IF entry \in DOMAIN instr.to THEN goto(instr.to[entry])
         ELSE WildJump
      /\ Strays(WrongTable(i, v))
  BY Zenon DEF TableSwitch, Opcode
<1>2. /\ instr.low \in Int /\ instr.to \in Seq(1..Length) /\ instr.dflt \in 1..Length
      /\ v \in Int /\ i \in 1..Length /\ x \in Nat /\ Length \in Nat
  <2>1. instr \in Instruction(Length) /\ Length \in Nat
    BY <1>1, Running
  <2>2. instr.low \in Int /\ instr.to \in Seq(1..Length) /\ instr.dflt \in 1..Length
    BY <1>1, <2>1, InstructionType
  <2>3. QED
    BY <1>1, <2>2, Running, FlowAssumption
<1>3. /\ DOMAIN instr.to = 1..Len(instr.to) /\ Len(instr.to) \in Nat
      /\ \A k \in DOMAIN instr.to : instr.to[k] \in 1..Length
  BY <1>2
<1>4. /\ target = IF v - instr.low + 1 \in DOMAIN instr.to
                    THEN instr.to[v - instr.low + 1] ELSE instr.dflt
      /\ target \in Java!Successors(i)
  <2>1. target = IF v - instr.low + 1 \in DOMAIN instr.to
                    THEN instr.to[v - instr.low + 1] ELSE instr.dflt
    BY Zenon DEF Java!TableTarget, Java!Instr, Instr
  <2>2. Java!Successors(i) = {Java!TableTarget(i, w) : w \in Operands}
    BY <1>1, Zenon DEF Java!Successors, Java!Instr, Instr
  <2>3. QED
    BY <2>1, <2>2, Zenon
<1>. DEFINE wrong == \/ Misread(instr.low) \/ Misread(instr.low + Len(instr.to) - 1)
                     \/ MisreadOffset(Offset(i, target))
<1>5. strayed' = (strayed \/ wrong)
  BY <1>1, Zenon DEF Strays, WrongTable
<1>6. \A t \in 1..Length : TableOffset(Offset(i, t)) \in Int
  BY <1>1, TargetPos, TableOffsetReads
<1>7. /\ low \in Int /\ (~Misread(instr.low) => low = instr.low)
      /\ high \in Int
      /\ (~Misread(instr.low + Len(instr.to) - 1) => high = instr.low + Len(instr.to) - 1)
  <2>1. instr.low \in Int /\ instr.low + Len(instr.to) - 1 \in Int
    BY <1>2, <1>3
  <2>2. QED
    BY <2>1, NothlReads, Zenon
<1>8. ASSUME NEW t \in 1..Length, goto(t), strayed' \/ t = target
      PROVE  Goes \/ Astray
  <2>1. CASE strayed'
    <3>1. x + TableOffset(Offset(i, t)) \in Int
      BY <1>2, <1>6
    <3>2. QED
      BY <1>8, <2>1, <3>1, Zenon DEF Astray
  <2>2. CASE ~strayed' /\ t = target
    <3>1. ~MisreadOffset(Offset(i, t))
      BY <1>5, <2>2
    <3>2. TableOffset(Offset(i, t)) = Offset(i, t) /\ x + Offset(i, t) = Pos(t)
      BY <1>1, <3>1, TargetPos, TableOffsetReads
    <3>3. Continue(Pos(t))
      BY <1>8, <3>2, Zenon
    <3>4. QED
      BY <1>4, <2>2, <3>3, Zenon DEF Goes
  <2>3. QED
    BY <1>8, <2>1, <2>2
<1>9. MapAt(x) = Align4(x + 1)
  BY <1>1, <1>2, TargetPos
<1>10. CASE v < low \/ v > high
  <2>1. goto(instr.dflt)
    BY <1>1, <1>9, <1>10, Zenon
  <2>2. strayed' \/ instr.dflt = target
    <3>1. CASE wrong
      BY <1>5, <3>1
    <3>2. CASE ~wrong
      <4>1. v - instr.low + 1 \notin 1..Len(instr.to)
        BY <1>2, <1>3, <1>7, <1>10, <3>2
      <4>2. QED
        BY <1>3, <1>4, <4>1, Zenon
    <3>3. QED
      BY <3>1, <3>2
  <2>3. QED
    BY <1>2, <1>8, <2>1, <2>2, Zenon
<1>11. CASE ~(v < low \/ v > high) /\ entry \in DOMAIN instr.to
  <2>1. goto(instr.to[entry])
    BY <1>1, <1>9, <1>11, Zenon
  <2>2. strayed' \/ instr.to[entry] = target
    <3>1. CASE wrong
      BY <1>5, <3>1
    <3>2. CASE ~wrong
      <4>1. low = instr.low
        BY <1>7, <3>2
      <4>2. QED
        BY <1>4, <1>11, <4>1, Zenon
    <3>3. QED
      BY <3>1, <3>2
  <2>3. instr.to[entry] \in 1..Length
    BY <1>3, <1>11
  <2>4. QED
    BY <1>8, <2>1, <2>2, <2>3, Zenon
<1>12. CASE ~(v < low \/ v > high) /\ entry \notin DOMAIN instr.to
  <2>1. WildJump
    BY <1>1, <1>9, <1>12, Zenon
  <2>2. wrong
    <3>1. SUFFICES ASSUME ~wrong PROVE FALSE
      OBVIOUS
    <3>2. low = instr.low /\ high = instr.low + Len(instr.to) - 1
      BY <1>7, <3>1
    <3>3. entry \in 1..Len(instr.to)
      BY <1>2, <1>3, <1>12, <3>2
    <3>4. QED
      BY <1>3, <1>12, <3>3
  <2>3. QED
    BY <1>5, <2>1, <2>2, Zenon DEF Astray, WildJump
<1>13. QED
  BY <1>10, <1>11, <1>12

LEMMA LookupGoes ==
  ASSUME FlowInv, NEW v \in Operands, LookupSwitch(v)
  PROVE  Goes \/ Astray
<1>. DEFINE instr == Instr(i)
            npairs == nothl(Len(instr.keys) + instr.more)
            match == {k \in DOMAIN instr.keys : k <= npairs /\ nothl(instr.keys[k]) = v}
            goto(t) == Continue(x + nothl(Offset(i, t)))
            first == CHOOSE k \in match : \A j \in match : k <= j
            target == Java!LookupTarget(i, v)
<1>1. /\ status = "running" /\ instr.op = "lookup"
      /\ IF MapAt(x) # Align4(x + 1) THEN WildJump
         ELSE IF npairs > 30 THEN status' = "exit3" /\ UNCHANGED calls
         ELSE IF match # {} THEN goto(instr.to[first])
         ELSE goto(instr.dflt)
      /\ Strays(WrongLookup(i, v))
  BY Zenon DEF LookupSwitch, Opcode
<1>2. /\ instr.keys \in Seq(Int) /\ instr.to \in Seq(1..Length) /\ instr.more \in Nat
      /\ instr.dflt \in 1..Length
      /\ v \in Int /\ i \in 1..Length /\ x \in Nat /\ Length \in Nat
  <2>1. instr \in Instruction(Length) /\ Length \in Nat
    BY <1>1, Running
  <2>2. /\ instr.keys \in Seq(Int) /\ instr.to \in Seq(1..Length) /\ instr.more \in Nat
        /\ instr.dflt \in 1..Length
    BY <1>1, <2>1, InstructionType
  <2>3. QED
    BY <1>1, <2>2, Running, FlowAssumption
<1>3. /\ DOMAIN instr.to = DOMAIN instr.keys
      /\ \A k, l \in DOMAIN instr.keys : instr.keys[k] = instr.keys[l] => k = l
  <2>1. method \in Methods /\ i \in 1..Len(method.code)
    BY <1>2 DEF FlowInv, FlowType, LaidOut, Length
  <2>. HIDE DEF i
  <2>2. SwitchFits(method.code[i])
    BY <2>1, MethodAssumption DEF WellFormed
  <2>3. QED
    BY <1>1, <2>2 DEF SwitchFits, Instr
<1>4. /\ DOMAIN instr.keys = 1..Len(instr.keys) /\ Len(instr.keys) \in Nat
      /\ \A k \in DOMAIN instr.keys : instr.to[k] \in 1..Length /\ instr.keys[k] \in Int
  BY <1>2, <1>3
<1>5. /\ target = IF \E k \in DOMAIN instr.keys : instr.keys[k] = v
                    THEN instr.to[CHOOSE k \in DOMAIN instr.keys : instr.keys[k] = v]
                    ELSE instr.dflt
      /\ target \in Java!Successors(i)
  <2>1. target = IF \E k \in DOMAIN instr.keys : instr.keys[k] = v
                    THEN instr.to[CHOOSE k \in DOMAIN instr.keys : instr.keys[k] = v]
                    ELSE instr.dflt
    BY Zenon DEF Java!LookupTarget, Java!Instr, Instr
  <2>2. Java!Successors(i) = {Java!LookupTarget(i, w) : w \in Operands}
    BY <1>1, Zenon DEF Java!Successors, Java!Instr, Instr
  <2>3. QED
    BY <2>1, <2>2, Zenon
<1>. DEFINE wrong == \/ Len(instr.keys) + instr.more > 30
                     \/ \E k \in DOMAIN instr.keys : Misread(instr.keys[k])
                     \/ Misread(Offset(i, target))
<1>6. strayed' = (strayed \/ wrong)
  BY <1>1, Zenon DEF Strays, WrongLookup
<1>7. MapAt(x) = Align4(x + 1)
  BY <1>1, <1>2, TargetPos
<1>8. ASSUME NEW t \in 1..Length, goto(t), strayed' \/ t = target
      PROVE  Goes \/ Astray
  <2>1. CASE strayed'
    <3>1. Offset(i, t) \in Int
      BY <1>1, TargetPos
    <3>2. x + nothl(Offset(i, t)) \in Int
      BY <1>2, <3>1, NothlReads
    <3>3. QED
      BY <1>8, <2>1, <3>2, Zenon DEF Astray
  <2>2. CASE ~strayed' /\ t = target
    <3>1. ~Misread(Offset(i, t))
      BY <1>6, <2>2
    <3>2. nothl(Offset(i, t)) = Offset(i, t) /\ x + Offset(i, t) = Pos(t)
      BY <1>1, <3>1, TargetPos, NothlReads
    <3>3. Continue(Pos(t))
      BY <1>8, <3>2, Zenon
    <3>4. QED
      BY <1>5, <2>2, <3>3, Zenon DEF Goes
  <2>3. QED
    BY <1>8, <2>1, <2>2
<1>9. ~wrong => /\ npairs = Len(instr.keys) + instr.more
                /\ match = {k \in DOMAIN instr.keys : instr.keys[k] = v}
  <2>1. SUFFICES ASSUME ~wrong
                 PROVE  /\ npairs = Len(instr.keys) + instr.more
                        /\ match = {k \in DOMAIN instr.keys : instr.keys[k] = v}
    OBVIOUS
  <2>. DEFINE n == Len(instr.keys) + instr.more
  <2>2. n \in Nat /\ n <= 30 /\ Len(instr.keys) \in Nat /\ Len(instr.keys) <= n
    <3>1. ~ (Len(instr.keys) + instr.more > 30)
      BY <2>1, Zenon
    <3>2. Len(instr.keys) \in Nat /\ instr.more \in Nat
      BY <1>2, <1>4
    <3>3. QED
      BY <3>1, <3>2
  <2>3. npairs = n
    <3>. HIDE DEF n
    <3>1. n \in Int /\ ~Misread(n)
      BY <2>2 DEF Misread
    <3>2. nothl(n) = n
      BY <3>1, NothlReads
    <3>3. QED
      BY <3>2 DEF n
  <2>4. npairs = Len(instr.keys) + instr.more
    BY <2>3
  <2>5. \A k \in DOMAIN instr.keys : k <= npairs /\ nothl(instr.keys[k]) = instr.keys[k]
    <3>1. TAKE k \in DOMAIN instr.keys
    <3>2. k <= n
      <4>1. k \in 1..Len(instr.keys)
        BY <1>4
      <4>. HIDE DEF n
      <4>2. QED
        BY <2>2, <4>1
    <3>3. instr.keys[k] \in Int /\ ~Misread(instr.keys[k])
      BY <1>4, <2>1, Zenon
    <3>4. QED
      BY <2>3, <3>2, <3>3, NothlReads, Zenon
  <2>6. QED
    BY <2>4, <2>5
<1>10. CASE npairs > 30
  <2>1. status' = "exit3" /\ UNCHANGED calls
    BY <1>1, <1>7, <1>10, Zenon
  <2>2. wrong
    BY <1>2, <1>4, <1>9, <1>10
  <2>3. QED
    BY <1>6, <2>1, <2>2, Zenon DEF Astray
<1>11. CASE ~(npairs > 30) /\ match # {}
  <2>1. goto(instr.to[first])
    BY <1>1, <1>7, <1>11, Zenon
  <2>2. first \in match
    <3>1. match \in SUBSET Nat
      BY <1>4
    <3>2. \E k \in match : \A j \in match : k <= j
      BY <1>11, <3>1, Least
    <3>3. QED
      BY <3>2
  <2>3. first \in DOMAIN instr.keys
    BY <2>2
  <2>4. instr.to[first] \in 1..Length
    BY <1>4, <2>3
  <2>5. strayed' \/ instr.to[first] = target
    <3>1. CASE wrong
      BY <1>6, <3>1
    <3>2. CASE ~wrong
      <4>. HIDE DEF first
      <4>1. instr.keys[first] = v
        BY <1>9, <2>2, <3>2
      <4>. DEFINE chosen == CHOOSE k \in DOMAIN instr.keys : instr.keys[k] = v
      <4>2. chosen \in DOMAIN instr.keys /\ instr.keys[chosen] = v
        BY <2>3, <4>1
      <4>. HIDE DEF chosen
      <4>3. chosen = first
        BY <1>3, <2>3, <4>1, <4>2
      <4>4. target = instr.to[chosen]
        BY <1>5, <2>3, <4>1, Zenon DEF chosen
      <4>5. QED
        BY <4>3, <4>4
    <3>3. QED
      BY <3>1, <3>2
  <2>6. QED
    BY <1>8, <2>1, <2>4, <2>5, Zenon
<1>12. CASE ~(npairs > 30) /\ match = {}
  <2>1. goto(instr.dflt)
    BY <1>1, <1>7, <1>12, Zenon
  <2>2. strayed' \/ instr.dflt = target
    <3>1. CASE wrong
      BY <1>6, <3>1
    <3>2. CASE ~wrong
      <4>1. ~ \E k \in DOMAIN instr.keys : instr.keys[k] = v
        BY <1>9, <1>12, <3>2
      <4>2. QED
        BY <1>5, <4>1, Zenon
    <3>3. QED
      BY <3>1, <3>2
  <2>3. QED
    BY <1>2, <1>8, <2>1, <2>2, Zenon
<1>13. QED
  BY <1>10, <1>11, <1>12

-----------------------------------------------------------------------------
(* Every step keeps the invariant.                                         *)

LEMMA CallersWaitNext ==
  ASSUME UNCHANGED <<method, layout>>
  PROVE  CallersWait' =
           (status' = "running" =>
              /\ \A d \in 1..Len(calls') : At(calls'[d]) # 0
              /\ \A d \in 1..(Len(calls') - 1) : Instr(At(calls'[d])).op = "call")
BY DEF CallersWait, At, Pos, Length, Instr

LEMMA Continued ==
  ASSUME FlowInv, NEW nx \in Int, Continue(nx)
  PROVE  /\ calls' \in Seq(Int) /\ Len(calls') = Len(calls)
         /\ DOMAIN calls' = 1..Len(calls) /\ Len(calls) \in Nat \ {0}
         /\ calls'[Len(calls)] = nx
         /\ \A d \in 1..(Len(calls) - 1) : calls'[d] = calls[d]
         /\ status' \in {"exit55", "wild", "running"}
         /\ status' = "running" => At(nx) # 0
<1>1. calls \in Seq(Int) /\ Len(calls) \in Nat \ {0} /\ depth = Len(calls)
  BY FlowAssumption DEF FlowInv, FlowType, depth
<1>2. calls' = [calls EXCEPT ![Len(calls)] = nx]
  BY DEF Continue, depth
<1>3. status' \in {"exit55", "wild", "running"} /\ (status' = "running" => At(nx) # 0)
  <2>1. status' = IF nx \notin 0..(codesz - 1) THEN "exit55"
                  ELSE IF At(nx) = 0 THEN "wild" ELSE "running"
    BY Zenon DEF Continue
  <2>2. QED
    BY <2>1
<1>4. QED
  BY <1>1, <1>2, <1>3

LEMMA CallersKept ==
  ASSUME FlowInv, status = "running", UNCHANGED <<method, layout>>,
         Len(calls') = Len(calls),
         \A d \in 1..(Len(calls) - 1) : calls'[d] = calls[d],
         status' = "running" => At(calls'[Len(calls)]) # 0
  PROVE  CallersWait'
<1>1. Len(calls) \in Nat
  BY Running DEF depth
<1>2. /\ \A d \in 1..Len(calls) : At(calls[d]) # 0
      /\ \A d \in 1..(Len(calls) - 1) : Instr(At(calls[d])).op = "call"
  BY DEF FlowInv, CallersWait
<1>3. \A d \in 1..(Len(calls) - 1) : d \in 1..Len(calls)
  BY <1>1
<1>4. \A d \in 1..Len(calls) : d = Len(calls) \/ d \in 1..(Len(calls) - 1)
  BY <1>1
<1>5. QED
  BY <1>2, <1>3, <1>4, CallersWaitNext

LEMMA GoesInv ==
  ASSUME FlowInv, status = "running", UNCHANGED <<method, layout, base>>,
         lock' \in 0..1, strayed' \in BOOLEAN, Goes \/ Astray
  PROVE  FlowInv'
<1>. SUFFICES calls' \in Seq(Int) /\ Len(calls') \in 1..MaxDepth
              /\ status' \in {"running", "returned", "exit3", "exit55", "wild", "overflow"}
              /\ CallersWait' /\ LoopNeverLeft'
  BY DEF FlowInv, FlowType, LaidOut, depth
<1>1. Len(calls) \in 1..MaxDepth /\ calls \in Seq(Int)
  BY DEF FlowInv, FlowType, depth
<1>2. CASE Goes
  <2>1. PICK j \in 1..Length : Continue(Pos(j))
    BY <1>2 DEF Goes
  <2>2. At(Pos(j)) = j /\ Pos(j) \in 0..(codesz - 1) /\ Pos(j) \in Int /\ j # 0
    <3>1. j \in 1..(Length + 1)
      BY Running
    <3>2. Pos(j) \in Nat
      BY <3>1, Instructions DEF FlowInv, FlowType
    <3>3. QED
      BY <3>2, AtPos, Running DEF FlowInv, FlowType
  <2>3. status' = "running"
    BY <2>1, <2>2, Zenon DEF Continue
  <2>4. CallersWait'
    BY <2>1, <2>2, Continued, CallersKept
  <2>5. QED
    BY <1>1, <2>1, <2>2, <2>3, <2>4, Continued DEF LoopNeverLeft
<1>3. CASE Astray
  <2>1. CASE \E nx \in Int : Continue(nx)
    <3>1. PICK nx \in Int : Continue(nx)
      BY <2>1
    <3>2. CallersWait'
      BY <3>1, Continued, CallersKept
    <3>3. QED
      BY <1>1, <1>3, <3>1, <3>2, Continued DEF LoopNeverLeft, Astray
  <2>2. CASE status' \in {"wild", "exit3"} /\ UNCHANGED calls
    BY <1>1, <1>3, <2>2 DEF LoopNeverLeft, Astray, CallersWait
  <2>3. QED
    BY <1>3, <2>1, <2>2 DEF Astray
<1>4. QED
  BY <1>2, <1>3

(* The opcodes that stay in their call. *)
Local ==
  \/ Body \/ Nop \/ Goto \/ If \/ Ifeq \/ MonitorEnter \/ MonitorExit \/ Risky
  \/ \E v \in Operands : TableSwitch(v) \/ LookupSwitch(v)

LEMMA LocalGoes ==
  ASSUME FlowInv, Local
  PROVE  /\ status = "running" /\ UNCHANGED <<method, layout, base>>
         /\ lock' \in 0..1 /\ strayed' \in BOOLEAN /\ (strayed => strayed')
         /\ Goes \/ Astray
<1>1. lock \in 0..1 /\ strayed \in BOOLEAN
  BY DEF FlowInv, FlowType
<1>2. CASE Body
  <2>1. Goes
    BY <1>2, NextGoes, Zenon DEF Body, Opcode
  <2>2. QED
    BY <1>1, <1>2, <2>1 DEF Body, Opcode
<1>3. CASE Nop
  <2>1. status = "running" /\ Continue(x + 2) /\ strayed' = TRUE
    BY <1>3 DEF Nop, Opcode, Strays
  <2>2. x + 2 \in Int
    BY <2>1, Running
  <2>3. Astray
    BY <2>1, <2>2, Zenon DEF Astray
  <2>4. QED
    BY <1>1, <1>3, <2>1, <2>3 DEF Nop
<1>4. CASE Goto
  <2>1. status = "running" /\ Instr(i).op = "goto"
        /\ Continue(x + Signed16(Offset(i, Instr(i).to)))
    BY <1>4, Zenon DEF Goto, Opcode
  <2>2. Goes
    BY <2>1, GotoGoes
  <2>3. QED
    BY <1>1, <1>4, <2>1, <2>2, Zenon DEF Goto
<1>5. CASE If
  <2>1. status = "running" /\ Instr(i).op = "if"
        /\ (Continue(x + Signed16(Offset(i, Instr(i).to))) \/ Continue(x + 3))
    BY <1>5, Zenon DEF If, Opcode
  <2>2. Goes
    BY <2>1, GotoGoes, NextGoes
  <2>3. QED
    BY <1>1, <1>5, <2>1, <2>2, Zenon DEF If
<1>6. CASE Ifeq
  <2>1. /\ status = "running" /\ Instr(i).op = "ifeq"
        /\ \/ /\ Continue(x + Unsigned16(Offset(i, Instr(i).to)))
              /\ Strays(Offset(i, Instr(i).to) < 0)
           \/ Continue(x + 3) /\ UNCHANGED strayed
        /\ UNCHANGED <<method, layout, base, lock>>
    BY <1>6, Zenon DEF Ifeq, Opcode
  <2>2. Goes \/ Astray
    BY <2>1, IfeqGoes, NextGoes, Zenon
  <2>3. strayed' \in BOOLEAN /\ (strayed => strayed')
    BY <1>1, <2>1 DEF Strays
  <2>4. QED
    BY <1>1, <2>1, <2>2, <2>3, Zenon
<1>7. CASE MonitorEnter
  <2>1. status = "running" /\ Instr(i).op = "enter" /\ Continue(x + 1) /\ lock' = 1
        /\ UNCHANGED <<method, layout, base, strayed>>
    BY <1>7, Zenon DEF MonitorEnter, Opcode
  <2>2. Goes
    BY <2>1, NextGoes, Zenon
  <2>3. QED
    BY <1>1, <2>1, <2>2
<1>8. CASE MonitorExit
  <2>1. status = "running" /\ Instr(i).op = "exit" /\ Continue(x + 1) /\ lock' = 0
        /\ strayed' = (strayed \/ lock = 0) /\ UNCHANGED <<method, layout, base>>
    BY <1>8, Zenon DEF MonitorExit, Opcode, Strays
  <2>2. Goes
    BY <2>1, NextGoes, Zenon
  <2>3. QED
    BY <1>1, <2>1, <2>2
<1>9. CASE Risky
  <2>1. status = "running" /\ Instr(i).op = "risky" /\ Continue(x + 3)
        /\ UNCHANGED <<method, layout, base, lock, strayed>>
    BY <1>9, Zenon DEF Risky, Opcode
  <2>2. Goes
    BY <2>1, NextGoes, Zenon
  <2>3. QED
    BY <1>1, <2>1, <2>2
<1>10. ASSUME NEW v \in Operands, TableSwitch(v)
       PROVE  /\ status = "running" /\ UNCHANGED <<method, layout, base>>
              /\ lock' \in 0..1 /\ strayed' \in BOOLEAN /\ (strayed => strayed')
              /\ Goes \/ Astray
  <2>1. status = "running" /\ Strays(WrongTable(i, v)) /\ UNCHANGED <<method, layout, base, lock>>
    BY <1>10, Zenon DEF TableSwitch, Opcode
  <2>2. Goes \/ Astray
    BY <1>10, TableGoes, Zenon
  <2>3. strayed' \in BOOLEAN /\ (strayed => strayed')
    BY <1>1, <2>1 DEF Strays
  <2>4. QED
    BY <1>1, <2>1, <2>2, <2>3, Zenon
<1>11. ASSUME NEW v \in Operands, LookupSwitch(v)
       PROVE  /\ status = "running" /\ UNCHANGED <<method, layout, base>>
              /\ lock' \in 0..1 /\ strayed' \in BOOLEAN /\ (strayed => strayed')
              /\ Goes \/ Astray
  <2>1. status = "running" /\ Strays(WrongLookup(i, v)) /\ UNCHANGED <<method, layout, base, lock>>
    BY <1>11, Zenon DEF LookupSwitch, Opcode
  <2>2. Goes \/ Astray
    BY <1>11, LookupGoes, Zenon
  <2>3. strayed' \in BOOLEAN /\ (strayed => strayed')
    BY <1>1, <2>1 DEF Strays
  <2>4. QED
    BY <1>1, <2>1, <2>2, <2>3, Zenon
<1>12. QED
  BY <1>2, <1>3, <1>4, <1>5, <1>6, <1>7, <1>8, <1>9, <1>10, <1>11, Zenon DEF Local

LEMMA ErrorInv ==
  ASSUME FlowInv, Error
  PROVE  FlowInv'
BY DEF FlowInv, FlowType, LaidOut, depth, Error, CallersWait, LoopNeverLeft

LEMMA InvokeInv ==
  ASSUME FlowInv, Invoke
  PROVE  FlowInv'
<1>1. /\ calls \in Seq(Int) /\ Len(calls) \in 1..MaxDepth /\ MaxDepth \in Nat /\ depth = Len(calls)
      /\ status = "running" /\ Instr(i).op = "call"
      /\ UNCHANGED <<method, layout, base, lock, strayed>>
  BY FlowAssumption DEF FlowInv, FlowType, depth, Invoke, Opcode
<1>2. CASE depth < MaxDepth
  <2>1. calls' = Append(calls, 0) /\ status' = "running"
    BY <1>1, <1>2 DEF Invoke
  <2>2. At(0) # 0
    <3>1. 1 \in 1..Length /\ Pos(1) = 0
      BY Instructions DEF FlowInv, FlowType
    <3>2. QED
      BY <3>1, AtPos DEF FlowInv, FlowType
  <2>3. /\ calls' \in Seq(Int) /\ Len(calls') = Len(calls) + 1 /\ Len(calls') \in 1..MaxDepth
        /\ \A d \in 1..Len(calls) : calls'[d] = calls[d]
        /\ calls'[Len(calls) + 1] = 0
    BY <1>1, <1>2, <2>1
  <2>4. CallersWait'
    <3>1. \A d \in 1..Len(calls) : At(calls[d]) # 0
      BY <1>1 DEF FlowInv, CallersWait
    <3>2. \A d \in 1..Len(calls) : Instr(At(calls[d])).op = "call"
      <4>1. TAKE d \in 1..Len(calls)
      <4>2. CASE d = Len(calls)
        BY <1>1, <4>2, Zenon DEF i, x, depth
      <4>3. CASE d # Len(calls)
        <5>1. d \in 1..(Len(calls) - 1)
          BY <1>1, <4>3
        <5>2. QED
          BY <1>1, <5>1 DEF FlowInv, CallersWait
      <4>4. QED
        BY <4>2, <4>3
    <3>3. \A d \in 1..Len(calls') : d \in 1..Len(calls) \/ d = Len(calls) + 1
      BY <1>1, <2>3
    <3>4. \A d \in 1..(Len(calls') - 1) : d \in 1..Len(calls)
      BY <1>1, <2>3
    <3>5. \A d \in 1..Len(calls') : At(calls'[d]) # 0
      BY <2>2, <2>3, <3>1, <3>3
    <3>6. \A d \in 1..(Len(calls') - 1) : Instr(At(calls'[d])).op = "call"
      BY <2>3, <3>2, <3>4
    <3>7. QED
      BY <1>1, <3>5, <3>6, CallersWaitNext
  <2>5. QED
    BY <1>1, <2>1, <2>3, <2>4 DEF FlowInv, FlowType, LaidOut, depth, LoopNeverLeft
<1>3. CASE ~(depth < MaxDepth)
  <2>1. UNCHANGED calls /\ status' = "overflow"
    BY <1>3 DEF Invoke
  <2>2. QED
    BY <1>1, <2>1 DEF FlowInv, FlowType, LaidOut, depth, CallersWait, LoopNeverLeft
<1>4. QED
  BY <1>2, <1>3

(* A return to a caller goes on behind the invoke that the caller stands at. *)
LEMMA ReturnGoes ==
  ASSUME FlowInv, Return, depth # 1
  PROVE  LET d == depth - 1
             j == At(calls[d])
         IN  /\ d \in Nat \ {0} /\ d + 1 = Len(calls)
             /\ calls' \in Seq(Int) /\ Len(calls') = d /\ DOMAIN calls' = 1..d
             /\ \A e \in 1..(d - 1) : calls'[e] = calls[e]
             /\ j \in 1..Length /\ At(calls'[d]) = j + 1 /\ j + 1 # 0
<1>. DEFINE d == depth - 1
            j == At(calls[d])
<1>1. /\ calls \in Seq(Int) /\ depth = Len(calls) /\ status = "running" /\ UNCHANGED status
      /\ calls' = [Front(calls) EXCEPT ![depth - 1] = @ + 3]
  BY DEF FlowInv, FlowType, depth, Return, Opcode
<1>2. d \in Nat \ {0} /\ d + 1 = Len(calls) /\ Len(calls) \in Nat /\ d \in 1..Len(calls)
  BY <1>1, Running
<1>3. Front(calls) = SubSeq(calls, 1, d)
  BY <1>1, <1>2 DEF Front
<1>4. /\ SubSeq(calls, 1, d) \in Seq(Int) /\ Len(SubSeq(calls, 1, d)) = d
      /\ \A e \in 1..d : SubSeq(calls, 1, d)[e] = calls[e]
  BY <1>1, <1>2
<1>5. calls[d] \in Int
  BY <1>1, <1>2
<1>6. /\ calls' \in Seq(Int) /\ Len(calls') = d /\ DOMAIN calls' = 1..d
      /\ \A e \in 1..(d - 1) : calls'[e] = calls[e]
      /\ calls'[d] = calls[d] + 3
  <2>. DEFINE f == SubSeq(calls, 1, d)
  <2>1. calls' = [f EXCEPT ![d] = f[d] + 3]
    BY <1>1, <1>3
  <2>2. f \in Seq(Int) /\ Len(f) = d /\ DOMAIN f = 1..d /\ \A e \in 1..d : f[e] = calls[e]
    BY <1>4
  <2>. HIDE DEF f, d
  <2>3. d \in 1..d /\ \A e \in 1..(d - 1) : e \in 1..d /\ e # d
    BY <1>2
  <2>4. f[d] = calls[d] /\ f[d] + 3 \in Int
    BY <1>5, <2>2, <2>3
  <2>5. calls' \in Seq(Int) /\ Len(calls') = d /\ DOMAIN calls' = 1..d
    BY <1>2, <2>1, <2>2, <2>4
  <2>6. calls'[d] = calls[d] + 3 /\ \A e \in 1..(d - 1) : calls'[e] = calls[e]
    BY <2>1, <2>2, <2>3, <2>4
  <2>7. QED
    BY <2>5, <2>6
<1>7. At(calls[d]) # 0 /\ Instr(j).op = "call"
  <2>1. d \in 1..(Len(calls) - 1)
    BY <1>2
  <2>2. QED
    BY <1>1, <1>2, <2>1 DEF FlowInv, CallersWait
<1>. HIDE DEF d
<1>8. j \in 1..Length /\ Pos(j) = calls[d]
  BY <1>7, PosAt
<1>. HIDE DEF j
<1>9. LaidOut
  BY DEF FlowInv, FlowType
<1>10. Length \in Nat /\ j # Length
  BY <1>7, <1>9, Instructions
<1>11. Pos(j + 1) = Pos(j) + Size(Instr(j), Pos(j))
  BY <1>8, <1>9, Instructions
<1>12. Size(Instr(j), Pos(j)) = 3
  BY <1>7 DEF Size
<1>13. j + 1 \in 1..Length
  BY <1>8, <1>10
<1>14. At(Pos(j + 1)) = j + 1
  BY <1>9, <1>13, AtPos
<1>15. At(calls'[d]) = j + 1 /\ j + 1 # 0
  BY <1>6, <1>8, <1>11, <1>12, <1>13, <1>14
<1>16. QED
  BY <1>2, <1>6, <1>8, <1>15 DEF d, j

LEMMA ReturnInv ==
  ASSUME FlowInv, Return
  PROVE  FlowInv'
<1>1. /\ Len(calls) \in 1..MaxDepth /\ MaxDepth \in Nat /\ depth = Len(calls)
      /\ status = "running" /\ UNCHANGED <<method, layout, base, lock, strayed>>
  BY FlowAssumption DEF FlowInv, FlowType, depth, Return, Opcode
<1>2. CASE depth = 1
  <2>1. UNCHANGED calls /\ status' = "returned"
    BY <1>2 DEF Return
  <2>2. QED
    BY <1>1, <2>1 DEF FlowInv, FlowType, LaidOut, depth, CallersWait, LoopNeverLeft
<1>3. CASE depth # 1
  <2>. DEFINE d == depth - 1
  <2>1. /\ d \in Nat \ {0} /\ d + 1 = Len(calls)
        /\ calls' \in Seq(Int) /\ Len(calls') = d
        /\ \A e \in 1..(d - 1) : calls'[e] = calls[e]
        /\ At(calls'[d]) # 0
    BY <1>3, ReturnGoes
  <2>. HIDE DEF d
  <2>2. status' = "running"
    BY <1>1, <1>3 DEF Return
  <2>3. /\ \A e \in 1..d : At(calls'[e]) # 0
        /\ \A e \in 1..(d - 1) : Instr(At(calls'[e])).op = "call"
    <3>1. \A e \in 1..d : e \in 1..Len(calls) /\ e \in 1..(Len(calls) - 1)
                          /\ (e = d \/ e \in 1..(d - 1))
      BY <2>1
    <3>2. /\ \A e \in 1..Len(calls) : At(calls[e]) # 0
          /\ \A e \in 1..(Len(calls) - 1) : Instr(At(calls[e])).op = "call"
      BY <1>1 DEF FlowInv, CallersWait
    <3>3. \A e \in 1..(d - 1) : e \in 1..d
      BY <2>1
    <3>4. QED
      BY <2>1, <3>1, <3>2, <3>3
  <2>4. CallersWait'
    BY <1>1, <2>1, <2>3, CallersWaitNext
  <2>5. Len(calls') \in 1..MaxDepth
    BY <1>1, <2>1
  <2>6. QED
    BY <1>1, <2>1, <2>2, <2>4, <2>5 DEF FlowInv, FlowType, LaidOut, depth, LoopNeverLeft
<1>4. QED
  BY <1>2, <1>3

LEMMA FlowInitially ==
  ASSUME Init
  PROVE  FlowInv
<1>1. LaidOut
  BY DEF Init, LaidOut
<1>2. 1 \in 1..Length /\ Pos(1) = 0
  BY <1>1, Instructions
<1>3. At(0) = 1
  BY <1>1, <1>2, AtPos
<1>4. calls = <<0>> /\ calls \in Seq(Int) /\ Len(calls) = 1 /\ calls[1] = 0
  BY DEF Init
<1>5. FlowType
  <2>1. base \in Bases /\ lock = 0 /\ status = "running" /\ strayed = FALSE
    BY DEF Init
  <2>2. 1 \in 1..MaxDepth
    BY FlowAssumption
  <2>3. calls \in Seq(Int) /\ depth \in 1..MaxDepth
    BY <1>4, <2>2 DEF depth
  <2>4. lock \in 0..1
    BY <2>1
  <2>5. QED
    BY <1>1, <2>1, <2>3, <2>4, Zenon DEF FlowType
<1>6. CallersWait
  BY <1>3, <1>4 DEF CallersWait
<1>7. QED
  BY <1>5, <1>6 DEF FlowInv, LoopNeverLeft, Init

LEMMA FlowStep ==
  ASSUME FlowInv, [Next]_vars
  PROVE  FlowInv'
<1>1. CASE Local
  BY <1>1, LocalGoes, GoesInv
<1>2. CASE UNCHANGED vars
  BY <1>2 DEF vars, FlowInv, FlowType, LaidOut, depth, CallersWait, LoopNeverLeft, At, Pos,
              Length, Instr
<1>3. QED
  BY <1>1, <1>2, ErrorInv, InvokeInv, ReturnInv DEF Next, Decode, Rest, Local

(***************************************************************************)
(* TypeOK is invariant, for every method a verifier accepts: x always is   *)
(* the first byte of an instruction while the loop runs, in every call.    *)
(***************************************************************************)
THEOREM FlowTypeCorrect == Spec => []TypeOK
<1>1. Init => FlowInv
  BY FlowInitially
<1>2. FlowInv /\ [Next]_vars => FlowInv'
  BY FlowStep
<1>3. FlowInv => TypeOK
  BY DEF FlowInv, FlowType, LaidOut, CallersWait, TypeOK, depth
<1>4. QED
  BY <1>1, <1>2, <1>3, PTL DEF Spec

(***************************************************************************)
(* LoopNeverLeft is invariant: exit(-55) behind the loop (exec.c:1738) and *)
(* the decoding of a byte inside an instruction come only after an         *)
(* instruction that is listed as wrong.                                    *)
(***************************************************************************)
THEOREM LoopLeftOnlyAstray == Spec => []LoopNeverLeft
<1>1. Init => FlowInv
  BY FlowInitially
<1>2. FlowInv /\ [Next]_vars => FlowInv'
  BY FlowStep
<1>3. FlowInv => LoopNeverLeft
  BY DEF FlowInv
<1>4. QED
  BY <1>1, <1>2, <1>3, PTL DEF Spec

-----------------------------------------------------------------------------
(* The refinement of JavaControl: what its variables stand for, and what   *)
(* each of its actions asks.                                               *)

javaTodo == IF Stopped THEN <<>> ELSE [d \in DOMAIN calls |-> At(calls[d])]
javaLocks == IF Stopped THEN 0 ELSE lock
javaState == IF Stopped THEN "stopped" ELSE status

(* Nothing that Java knows of changes. *)
JavaSame == UNCHANGED <<method, javaTodo, javaLocks, javaState>>

LEMMA JavaStutters ==
  ASSUME JavaSame
  PROVE  UNCHANGED Java!javaVars
BY DEF JavaSame, Java!javaVars, javaTodo, javaLocks, javaState

LEMMA JavaStops ==
  ASSUME javaState = "running", javaState' = "stopped", javaTodo' = <<>>, javaLocks' = 0,
         UNCHANGED method
  PROVE  Java!JavaNext
BY Zenon DEF Java!JavaNext, Java!Stop, javaTodo, javaLocks, javaState

LEMMA JavaGoes ==
  ASSUME javaState = "running",
         Instr(javaTodo[Len(javaTodo)]).op \notin {"call", "enter", "exit"},
         NEW j, j \in Java!Successors(javaTodo[Len(javaTodo)]),
         javaTodo' = [javaTodo EXCEPT ![Len(javaTodo)] = j],
         UNCHANGED <<method, javaLocks, javaState>>
  PROVE  Java!JavaNext
<1>1. Java!Go
  BY Zenon DEF Java!Go, Java!Current, Java!Depth, Java!Instr, Instr, javaTodo, javaLocks, javaState
<1>2. QED
  BY <1>1, Zenon DEF Java!JavaNext, javaState

LEMMA JavaEnters ==
  ASSUME javaState = "running",
         Instr(javaTodo[Len(javaTodo)]).op = "enter",
         javaLocks' = javaLocks + 1,
         javaTodo' = [javaTodo EXCEPT ![Len(javaTodo)] = javaTodo[Len(javaTodo)] + 1],
         UNCHANGED <<method, javaState>>
  PROVE  Java!JavaNext
<1>1. Java!Enter
  BY Zenon DEF Java!Enter, Java!Current, Java!Depth, Java!Instr, Instr, javaTodo, javaLocks, javaState
<1>2. QED
  BY <1>1, Zenon DEF Java!JavaNext, javaState

LEMMA JavaLeaves ==
  ASSUME javaState = "running",
         Instr(javaTodo[Len(javaTodo)]).op = "exit",
         javaLocks > 0, javaLocks' = javaLocks - 1,
         javaTodo' = [javaTodo EXCEPT ![Len(javaTodo)] = javaTodo[Len(javaTodo)] + 1],
         UNCHANGED <<method, javaState>>
  PROVE  Java!JavaNext
<1>1. Java!Leave
  BY Zenon DEF Java!Leave, Java!Current, Java!Depth, Java!Instr, Instr, javaTodo, javaLocks, javaState
<1>2. QED
  BY <1>1, Zenon DEF Java!JavaNext, javaState

LEMMA JavaCalls ==
  ASSUME javaState = "running",
         Instr(javaTodo[Len(javaTodo)]).op = "call",
         javaTodo' = Append(javaTodo, 1),
         UNCHANGED <<method, javaLocks, javaState>>
  PROVE  Java!JavaNext
<1>1. Java!Call
  BY Zenon DEF Java!Call, Java!Current, Java!Depth, Java!Instr, Instr, javaTodo, javaLocks, javaState
<1>2. QED
  BY <1>1, Zenon DEF Java!JavaNext, javaState

LEMMA JavaReturns ==
  ASSUME javaState = "running",
         Instr(javaTodo[Len(javaTodo)]).op = "return",
         IF Len(javaTodo) = 1
           THEN javaState' = "returned" /\ UNCHANGED javaTodo
           ELSE /\ javaTodo' = [SubSeq(javaTodo, 1, Len(javaTodo) - 1)
                                  EXCEPT ![Len(javaTodo) - 1] =
                                    SubSeq(javaTodo, 1, Len(javaTodo) - 1)[Len(javaTodo) - 1] + 1]
                /\ UNCHANGED javaState,
         UNCHANGED <<method, javaLocks>>
  PROVE  Java!JavaNext
<1>1. Java!Return
  BY Zenon DEF Java!Return, Java!Caller, Java!Current, Java!Depth, Java!Instr, Instr,
               javaTodo, javaLocks, javaState
<1>2. QED
  BY <1>1, Zenon DEF Java!JavaNext, javaState

(* What they stand for while the method is followed. *)
LEMMA Following ==
  ASSUME FlowInv, status = "running", ~strayed
  PROVE  /\ ~Stopped /\ javaState = "running" /\ javaLocks = lock
         /\ javaTodo = [d \in 1..depth |-> At(calls[d])]
         /\ javaTodo \in Seq(1..Length)
         /\ Len(javaTodo) = depth /\ javaTodo[depth] = i /\ depth \in Nat \ {0}
<1>1. ~Stopped
  BY DEF Stopped
<1>2. depth \in Nat \ {0} /\ DOMAIN calls = 1..depth /\ depth = Len(calls)
  <2>1. calls \in Seq(Int)
    BY DEF FlowInv, FlowType
  <2>2. QED
    BY <2>1, Running DEF depth
<1>3. javaTodo = [d \in 1..depth |-> At(calls[d])]
  BY <1>1, <1>2, Zenon DEF javaTodo
<1>4. \A d \in 1..depth : At(calls[d]) \in 1..Length
  <2>1. \A d \in 1..depth : At(calls[d]) # 0
    BY <1>2 DEF FlowInv, CallersWait
  <2>2. QED
    BY <2>1, PosAt
<1>5. javaTodo \in Seq(1..Length) /\ Len(javaTodo) = depth
  <2>. HIDE DEF depth
  <2>1. QED
    BY <1>2, <1>3, <1>4
<1>6. javaTodo[depth] = i
  <2>1. depth \in 1..depth
    BY <1>2
  <2>2. QED
    BY <1>3, <2>1 DEF i, x
<1>7. QED
  BY <1>1, <1>2, <1>3, <1>5, <1>6 DEF javaState, javaLocks

LEMMA StillFollowing ==
  ASSUME UNCHANGED <<method, layout>>, status' \in {"running", "returned"}, ~strayed'
  PROVE  /\ javaState' = status' /\ javaLocks' = lock'
         /\ javaTodo' = [d \in DOMAIN calls' |-> At(calls'[d])]
<1>1. ~Stopped'
  BY DEF Stopped
<1>2. javaTodo' = [d \in DOMAIN calls |-> At(calls[d])]'
  BY <1>1 DEF javaTodo
<1>3. QED
  BY <1>1, <1>2, AtUnchanged DEF javaState, javaLocks

-----------------------------------------------------------------------------
(* The steps of the refinement.                                            *)

(* The process ends, or no longer follows the method. *)
LEMMA StopsRefine ==
  ASSUME FlowInv, status = "running", ~strayed, Stopped', UNCHANGED method
  PROVE  Java!JavaNext
<1>1. javaState = "running"
  BY Following
<1>2. javaState' = "stopped" /\ javaTodo' = <<>> /\ javaLocks' = 0
  BY DEF javaState, javaTodo, javaLocks
<1>3. QED
  BY <1>1, <1>2, JavaStops

(* What becomes of the mapped calls when the innermost goes on with j. *)
LEMMA GoesTodo ==
  ASSUME FlowInv, status = "running", ~strayed, ~strayed', UNCHANGED <<method, layout>>,
         NEW j \in 1..Length, Continue(Pos(j))
  PROVE  /\ status' = "running" /\ javaState' = javaState /\ javaLocks' = lock'
         /\ javaTodo' = [javaTodo EXCEPT ![Len(javaTodo)] = j]
<1>1. At(Pos(j)) = j /\ Pos(j) \in 0..(codesz - 1) /\ j # 0
  BY AtPos, Running DEF FlowInv, FlowType
<1>2. status' = "running"
  BY <1>1, Zenon DEF Continue
<1>3. /\ javaState = "running" /\ javaTodo = [d \in 1..depth |-> At(calls[d])]
      /\ Len(javaTodo) = depth /\ depth \in Nat \ {0}
  BY Following
<1>4. javaState' = "running" /\ javaLocks' = lock'
      /\ javaTodo' = [d \in DOMAIN calls' |-> At(calls'[d])]
  BY <1>2, StillFollowing
<1>5. calls' = [calls EXCEPT ![depth] = Pos(j)] /\ DOMAIN calls = 1..depth
  <2>1. calls \in Seq(Int)
    BY DEF FlowInv, FlowType
  <2>2. QED
    BY <2>1 DEF Continue, depth
<1>. DEFINE D == depth
<1>. HIDE DEF D
<1>6. javaTodo = [d \in 1..D |-> At(calls[d])] /\ Len(javaTodo) = D /\ D \in Nat \ {0}
  BY <1>3, Zenon DEF D
<1>7. calls' = [calls EXCEPT ![D] = Pos(j)] /\ DOMAIN calls = 1..D
  BY <1>5, Zenon DEF D
<1>8. [d \in DOMAIN calls' |-> At(calls'[d])] = [[d \in 1..D |-> At(calls[d])] EXCEPT ![D] = j]
  <2>1. DOMAIN calls' = 1..D
    BY <1>7
  <2>2. \A d \in 1..D : At(calls'[d]) = IF d = D THEN j ELSE At(calls[d])
    BY <1>1, <1>6, <1>7
  <2>3. QED
    BY <2>1, <2>2
<1>9. QED
  BY <1>2, <1>3, <1>4, <1>6, <1>8

LEMMA LocalRefines ==
  ASSUME FlowInv, Local, ~strayed, ~strayed'
  PROVE  Java!JavaNext
<1>1. status = "running" /\ UNCHANGED <<method, layout, base>>
  BY LocalGoes
<1>2. /\ javaState = "running" /\ javaLocks = lock
      /\ Len(javaTodo) = depth /\ javaTodo[Len(javaTodo)] = i
      /\ i \in 1..Length /\ lock \in 0..1
  BY <1>1, Following, Running DEF FlowInv, FlowType
<1>3. CASE Instr(i).op \in {"enter", "exit"}
  <2>1. (MonitorEnter \/ MonitorExit) /\ Continue(x + 1)
    BY <1>3 DEF Local, Opcode, Body, Nop, Goto, If, Ifeq, Risky, TableSwitch, LookupSwitch,
                MonitorEnter, MonitorExit
  <2>2. Continue(Pos(i + 1)) /\ i + 1 \in 1..Length
    BY <1>1, <1>3, <2>1, NextGoes, Zenon
  <2>3. /\ javaState' = javaState /\ javaLocks' = lock'
        /\ javaTodo' = [javaTodo EXCEPT ![Len(javaTodo)] = i + 1]
    BY <1>1, <2>2, GoesTodo, Zenon
  <2>4. CASE MonitorEnter
    <3>1. Instr(i).op = "enter" /\ lock = 0 /\ lock' = 1
      BY <2>4, Zenon DEF MonitorEnter, Opcode
    <3>2. javaLocks' = javaLocks + 1
      BY <1>2, <2>3, <3>1
    <3>3. QED
      BY <1>1, <1>2, <2>3, <3>1, <3>2, JavaEnters, Zenon
  <2>5. CASE MonitorExit
    <3>1. Instr(i).op = "exit" /\ lock' = 0 /\ strayed' = (strayed \/ lock = 0)
      BY <2>5, Zenon DEF MonitorExit, Opcode, Strays
    <3>2. lock = 1
      <4>1. lock # 0
        BY <3>1, Zenon
      <4>2. QED
        BY <1>2, <4>1
    <3>3. javaLocks > 0 /\ javaLocks' = javaLocks - 1
      BY <1>2, <2>3, <3>1, <3>2
    <3>4. QED
      BY <1>1, <1>2, <2>3, <3>1, <3>3, JavaLeaves, Zenon
  <2>6. QED
    BY <2>1, <2>4, <2>5
<1>4. CASE Instr(i).op \notin {"enter", "exit"}
  <2>1. Goes
    BY LocalGoes DEF Astray
  <2>2. PICK j \in 1..Length : j \in Java!Successors(i) /\ Continue(Pos(j))
    BY <2>1, Zenon DEF Goes
  <2>3. /\ javaState' = javaState /\ javaLocks' = lock'
        /\ javaTodo' = [javaTodo EXCEPT ![Len(javaTodo)] = j]
    BY <1>1, <2>2, GoesTodo, Zenon
  <2>4. Instr(i).op # "call" /\ UNCHANGED lock
    BY <1>4 DEF Local, Opcode, Body, Nop, Goto, If, Ifeq, Risky, TableSwitch, LookupSwitch,
                MonitorEnter, MonitorExit
  <2>5. Instr(i).op \notin {"call", "enter", "exit"}
    BY <1>4, <2>4
  <2>6. UNCHANGED <<method, javaLocks, javaState>>
    BY <1>1, <1>2, <2>3, <2>4
  <2>7. QED
    BY <1>2, <2>2, <2>3, <2>5, <2>6, JavaGoes, Zenon
<1>5. QED
  BY <1>3, <1>4

LEMMA InvokeRefines ==
  ASSUME FlowInv, Invoke, ~strayed
  PROVE  Java!JavaNext
<1>1. /\ status = "running" /\ Instr(i).op = "call"
      /\ UNCHANGED <<method, layout, base, lock, strayed>>
  BY Zenon DEF Invoke, Opcode
<1>2. /\ javaState = "running" /\ javaLocks = lock
      /\ javaTodo = [d \in 1..depth |-> At(calls[d])] /\ javaTodo \in Seq(1..Length)
      /\ Len(javaTodo) = depth /\ javaTodo[Len(javaTodo)] = i /\ depth \in Nat \ {0}
  BY <1>1, Following
<1>3. CASE depth < MaxDepth
  <2>1. calls' = Append(calls, 0) /\ status' = "running" /\ ~strayed'
    BY <1>1, <1>3 DEF Invoke
  <2>2. /\ javaState' = "running" /\ javaLocks' = lock
        /\ javaTodo' = [d \in DOMAIN calls' |-> At(calls'[d])]
    BY <1>1, <2>1, StillFollowing
  <2>3. At(0) = 1
    <3>1. 1 \in 1..Length /\ Pos(1) = 0
      BY Instructions DEF FlowInv, FlowType
    <3>2. QED
      BY <3>1, AtPos DEF FlowInv, FlowType
  <2>4. calls \in Seq(Int) /\ Len(calls) = depth
    BY DEF FlowInv, FlowType, depth
  <2>. DEFINE D == depth
  <2>. HIDE DEF D
  <2>5. /\ calls \in Seq(Int) /\ Len(calls) = D /\ D \in Nat \ {0}
        /\ javaTodo = [d \in 1..D |-> At(calls[d])] /\ javaTodo \in Seq(1..Length)
        /\ Len(javaTodo) = D
    BY <1>2, <2>4, Zenon DEF D
  <2>6. javaTodo' = Append(javaTodo, 1)
    <3>1. DOMAIN calls' = 1..(D + 1)
      BY <2>1, <2>5
    <3>2. \A d \in 1..(D + 1) : calls'[d] = IF d = D + 1 THEN 0 ELSE calls[d]
      BY <2>1, <2>5
    <3>3. javaTodo' = [d \in 1..(D + 1) |-> IF d = D + 1 THEN 1 ELSE At(calls[d])]
      BY <2>2, <2>3, <3>1, <3>2
    <3>4. Append(javaTodo, 1) = [d \in 1..(D + 1) |-> IF d = D + 1 THEN 1 ELSE javaTodo[d]]
      BY <2>5
    <3>5. \A d \in 1..D : javaTodo[d] = At(calls[d])
      BY <2>5
    <3>6. \A d \in 1..(D + 1) : d = D + 1 \/ d \in 1..D
      BY <2>5
    <3>7. QED
      BY <3>3, <3>4, <3>5, <3>6
  <2>7. QED
    BY <1>1, <1>2, <2>2, <2>6, JavaCalls
<1>4. CASE ~(depth < MaxDepth)
  <2>1. status' = "overflow"
    BY <1>4 DEF Invoke
  <2>2. Stopped'
    BY <2>1 DEF Stopped
  <2>3. QED
    BY <1>1, <2>2, StopsRefine
<1>5. QED
  BY <1>3, <1>4

LEMMA ReturnRefines ==
  ASSUME FlowInv, Return, ~strayed
  PROVE  Java!JavaNext
<1>1. /\ status = "running" /\ Instr(i).op = "return"
      /\ UNCHANGED <<method, layout, base, lock, strayed>>
  BY Zenon DEF Return, Opcode
<1>2. /\ javaState = "running" /\ javaLocks = lock
      /\ javaTodo = [d \in 1..depth |-> At(calls[d])] /\ javaTodo \in Seq(1..Length)
      /\ Len(javaTodo) = depth /\ javaTodo[Len(javaTodo)] = i /\ depth \in Nat \ {0}
  BY <1>1, Following
<1>3. status' \in {"running", "returned"}
  BY <1>1 DEF Return
<1>4. /\ javaState' = status' /\ javaLocks' = lock
      /\ javaTodo' = [d \in DOMAIN calls' |-> At(calls'[d])]
  BY <1>1, <1>3, StillFollowing
<1>5. CASE depth = 1
  <2>1. status' = "returned" /\ UNCHANGED calls
    BY <1>5 DEF Return
  <2>2. UNCHANGED javaTodo
    <3>1. DOMAIN calls = 1..depth
      <4>1. calls \in Seq(Int)
        BY DEF FlowInv, FlowType
      <4>2. QED
        BY <4>1 DEF depth
    <3>2. QED
      BY <1>2, <1>4, <2>1, <3>1, Zenon
  <2>3. QED
    BY <1>1, <1>2, <1>4, <1>5, <2>1, <2>2, JavaReturns, Zenon
<1>6. CASE depth # 1
  <2>. DEFINE d == depth - 1
              j == At(calls[d])
  <2>1. /\ d \in Nat \ {0} /\ Len(javaTodo) = d + 1
        /\ DOMAIN calls' = 1..d
        /\ \A e \in 1..(d - 1) : calls'[e] = calls[e]
        /\ At(calls'[d]) = j + 1
    BY <1>2, <1>6, ReturnGoes DEF depth
  <2>2. status' = "running"
    BY <1>1, <1>6 DEF Return
  <2>. HIDE DEF d
  <2>3. \A e \in 1..(d + 1) : javaTodo[e] = At(calls[e])
    <3>1. d + 1 = depth
      BY <1>2 DEF d
    <3>2. QED
      BY <1>2, <3>1, Zenon
  <2>. HIDE DEF j
  <2>. DEFINE s == SubSeq(javaTodo, 1, d)
  <2>4. s \in Seq(1..Length) /\ Len(s) = d /\ \A e \in 1..d : s[e] = javaTodo[e]
    BY <1>2, <2>1
  <2>5. s = [e \in 1..d |-> At(calls[e])]
    <3>1. \A e \in 1..d : e \in 1..(d + 1)
      BY <2>1
    <3>2. DOMAIN s = 1..d /\ s = [e \in DOMAIN s |-> s[e]]
      <4>. HIDE DEF s
      <4>1. QED
        BY <2>4
    <3>. HIDE DEF s
    <3>3. QED
      BY <2>3, <2>4, <3>1, <3>2
  <2>6. s[d] = j
    <3>1. d \in 1..d
      BY <2>1
    <3>. HIDE DEF s
    <3>2. QED
      BY <2>5, <3>1 DEF j
  <2>. HIDE DEF s
  <2>7. javaTodo' = [s EXCEPT ![d] = s[d] + 1]
    <3>1. javaTodo' = [e \in 1..d |-> At(calls'[e])]
      BY <1>4, <2>1
    <3>2. \A e \in 1..d : At(calls'[e]) = IF e = d THEN j + 1 ELSE At(calls[e])
      <4>1. \A e \in 1..d : e = d \/ e \in 1..(d - 1)
        BY <2>1
      <4>2. QED
        BY <2>1, <4>1
    <3>3. [s EXCEPT ![d] = s[d] + 1] = [e \in 1..d |-> IF e = d THEN s[d] + 1 ELSE At(calls[e])]
      BY <2>5
    <3>4. QED
      BY <2>6, <3>1, <3>2, <3>3
  <2>8. d = Len(javaTodo) - 1 /\ Len(javaTodo) # 1
    BY <2>1
  <2>9. javaTodo' = [SubSeq(javaTodo, 1, Len(javaTodo) - 1)
                       EXCEPT ![Len(javaTodo) - 1] =
                         SubSeq(javaTodo, 1, Len(javaTodo) - 1)[Len(javaTodo) - 1] + 1]
    BY <2>7, <2>8, Zenon DEF s
  <2>10. QED
    BY <1>1, <1>2, <1>4, <2>2, <2>8, <2>9, JavaReturns, Zenon
<1>7. QED
  BY <1>5, <1>6

LEMMA NextRefines ==
  ASSUME FlowInv, [Next]_vars
  PROVE  [Java!JavaNext]_Java!javaVars
<1>1. CASE UNCHANGED vars
  <2>1. JavaSame
    BY <1>1 DEF vars, JavaSame, javaTodo, javaLocks, javaState, Stopped, At, Pos, Length
  <2>2. QED
    BY <2>1, JavaStutters
<1>2. CASE strayed /\ Next
  <2>1. UNCHANGED method /\ strayed'
    <3>1. CASE Local
      BY <1>2, <3>1, LocalGoes
    <3>2. CASE ~Local
      BY <1>2, <3>2 DEF Next, Decode, Rest, vars, Error, Invoke, Return, Local
    <3>3. QED
      BY <3>1, <3>2
  <2>2. JavaSame
    BY <1>2, <2>1 DEF JavaSame, javaTodo, javaLocks, javaState, Stopped
  <2>3. QED
    BY <2>2, JavaStutters
<1>3. CASE Local /\ ~strayed
  <2>1. CASE strayed'
    <3>1. status = "running" /\ UNCHANGED method
      BY <1>3, LocalGoes
    <3>2. Stopped'
      BY <2>1 DEF Stopped
    <3>3. QED
      BY <1>3, <3>1, <3>2, StopsRefine
  <2>2. CASE ~strayed'
    BY <1>3, <2>2, LocalRefines
  <2>3. QED
    BY <2>1, <2>2
<1>4. CASE Error /\ ~strayed
  <2>1. status = "running" /\ status' = "exit3" /\ UNCHANGED method
    BY <1>4 DEF Error, Opcode
  <2>2. Stopped'
    BY <2>1 DEF Stopped
  <2>3. QED
    BY <1>4, <2>1, <2>2, StopsRefine
<1>5. QED
  BY <1>1, <1>2, <1>3, <1>4, InvokeRefines, ReturnRefines DEF Next, Decode, Rest, Local

(***************************************************************************)
(* The opcodes that set x implement JavaControl, step by step, whatever    *)
(* the method, its layout, the operands of its switches and the depth of   *)
(* its calls: where an instruction is not one of those listed as wrong,    *)
(* the one that follows it is the one the manual says.                     *)
(***************************************************************************)
THEOREM FlowImplementsJava == Spec => ImplementsJava
<1>1. Init => FlowInv
  BY FlowInitially
<1>2. FlowInv /\ [Next]_vars => FlowInv'
  BY FlowStep
<1>3. Init => Java!JavaInit
  <2>1. SUFFICES ASSUME Init PROVE Java!JavaInit
    OBVIOUS
  <2>2. FlowInv /\ status = "running" /\ ~strayed /\ lock = 0 /\ calls = <<0>>
    BY <2>1, FlowInitially DEF Init
  <2>3. /\ javaState = "running" /\ javaLocks = 0
        /\ javaTodo = [d \in 1..1 |-> At(calls[d])]
    BY <2>2, Following DEF depth
  <2>4. At(0) = 1
    <3>1. 1 \in 1..Length /\ Pos(1) = 0
      BY <2>2, Instructions DEF FlowInv, FlowType
    <3>2. QED
      BY <2>2, <3>1, AtPos DEF FlowInv, FlowType
  <2>5. javaTodo = <<1>>
    <3>1. \A d \in 1..1 : calls[d] = 0
      BY <2>2
    <3>2. QED
      BY <2>3, <2>4, <3>1
  <2>6. QED
    BY <2>3, <2>5, Zenon DEF Java!JavaInit, javaTodo, javaLocks, javaState
<1>4. FlowInv /\ [Next]_vars => [Java!JavaNext]_Java!javaVars
  BY NextRefines
<1>5. QED
  BY <1>1, <1>2, <1>3, <1>4, PTL DEF Spec, ImplementsJava, Java!JavaSpec

-----------------------------------------------------------------------------
(* Powers of two: as many as a set of n elements has subsets.              *)
LEMMA PowerSets ==
  ASSUME NEW n \in Nat
  PROVE  /\ IsFiniteSet(SUBSET (1..n)) /\ Cardinality(SUBSET (1..n)) = 2^n
         /\ 2^n \in Nat
<1>1. IsFiniteSet(1..n) /\ Cardinality(1..n) = n
  BY FS_Interval
<1>2. IsFiniteSet(SUBSET (1..n)) /\ Cardinality(SUBSET (1..n)) = 2^Cardinality(1..n)
  BY <1>1, FS_SUBSET
<1>3. QED
  BY <1>1, <1>2, FS_CardinalityType

LEMMA PowerNext ==
  ASSUME NEW n \in Nat
  PROVE  2^(n + 1) = 2^n + 2^n
<1>. DEFINE A == SUBSET (1..n)
            f == [T \in A |-> T \cup {n + 1}]
            C == {T \cup {n + 1} : T \in A}
<1>1. /\ IsFiniteSet(A) /\ Cardinality(A) = 2^n
      /\ IsFiniteSet(SUBSET (1..(n + 1))) /\ Cardinality(SUBSET (1..(n + 1))) = 2^(n + 1)
  BY PowerSets
<1>2. n + 1 \notin 1..n /\ 1..(n + 1) = (1..n) \cup {n + 1}
  OBVIOUS
<1>3. SUBSET (1..(n + 1)) = A \cup C
  <2>1. ASSUME NEW T \in SUBSET (1..(n + 1)) PROVE T \in A \cup C
    <3>1. CASE n + 1 \in T
      <4>1. T \ {n + 1} \in A /\ T = (T \ {n + 1}) \cup {n + 1}
        BY <1>2, <3>1
      <4>2. QED
        BY <4>1
    <3>2. CASE n + 1 \notin T
      BY <1>2, <3>2
    <3>3. QED
      BY <3>1, <3>2
  <2>2. ASSUME NEW T \in A PROVE T \in SUBSET (1..(n + 1)) /\ T \cup {n + 1} \in SUBSET (1..(n + 1))
    BY <1>2
  <2>3. SUBSET (1..(n + 1)) \subseteq A \cup C
    BY <2>1
  <2>4. \A T \in A : T \in SUBSET (1..(n + 1)) /\ T \cup {n + 1} \in SUBSET (1..(n + 1))
    BY <2>2
  <2>5. C \subseteq SUBSET (1..(n + 1)) /\ A \subseteq SUBSET (1..(n + 1))
    BY <2>4
  <2>. HIDE DEF A, C
  <2>6. QED
    BY <2>3, <2>5
<1>4. A \cap C = {}
  BY <1>2
<1>5. f \in Bijection(A, C)
  <2>1. \A T \in A : f[T] \in C
    OBVIOUS
  <2>2. ASSUME NEW T \in A, NEW U \in A, f[T] = f[U] PROVE T = U
    BY <1>2, <2>2
  <2>3. \A t \in C : \E T \in A : f[T] = t
    OBVIOUS
  <2>4. f \in [A -> C] /\ DOMAIN f = A
    BY <2>1
  <2>. HIDE DEF A, C, f
  <2>5. QED
    BY <2>2, <2>3, <2>4 DEF Bijection, Injection, Surjection, IsInjective
<1>6. IsFiniteSet(C) /\ Cardinality(C) = Cardinality(A)
  <2>. HIDE DEF A, C, f
  <2>1. QED
    BY <1>1, <1>5, FS_Bijection DEF ExistsBijection
<1>7. /\ Cardinality(A \cup C) = Cardinality(A) + Cardinality(C) - Cardinality(A \cap C)
      /\ Cardinality(A \cap C) = 0
  <2>. HIDE DEF A, C, f
  <2>1. QED
    BY <1>1, <1>4, <1>6, FS_Union, FS_EmptySet
<1>8. 2^n \in Nat
  BY PowerSets
<1>9. Cardinality(A \cup C) = 2^(n + 1)
  BY <1>1, <1>3
<1>10. QED
  <2>. HIDE DEF A, C, f
  <2>1. QED
    BY <1>1, <1>6, <1>7, <1>8, <1>9

LEMMA Power ==
  ASSUME NEW n \in Nat
  PROVE  2^n \in Nat /\ 2^n > 0 /\ 2^(n + 1) = 2 * 2^n
<1>1. /\ IsFiniteSet(SUBSET (1..n)) /\ Cardinality(SUBSET (1..n)) = 2^n /\ 2^n \in Nat
      /\ 2^(n + 1) = 2^n + 2^n
  BY PowerSets, PowerNext
<1>2. {} \in SUBSET (1..n)
  OBVIOUS
<1>3. Cardinality(SUBSET (1..n)) # 0
  BY <1>1, <1>2, FS_EmptySet
<1>4. PICK p : p = 2^n
  OBVIOUS
<1>5. QED
  BY <1>1, <1>3, <1>4

LEMMA PowerZero == 2^0 = 1
OBVIOUS

LEMMA PowerSum ==
  ASSUME NEW a \in Nat, NEW b \in Nat
  PROVE  2^(a + b) = 2^a * 2^b
<1>. DEFINE T == {n \in Nat : 2^(a + n) # 2^a * 2^n}
<1>1. SUFFICES ASSUME T # {} PROVE FALSE
  OBVIOUS
<1>2. PICK n \in T : \A k \in T : n <= k
  BY <1>1, Least
<1>3. n # 0
  <2>1. a + 0 = a /\ 2^0 = 1 /\ 2^a \in Nat
    BY PowerZero, Power
  <2>2. 2^a * 1 = 2^a
    BY <2>1
  <2>3. QED
    BY <1>2, <2>1, <2>2
<1>4. PICK k \in Nat : n = k + 1
  BY <1>2, <1>3
<1>5. 2^(a + k) = 2^a * 2^k
  BY <1>2, <1>4
<1>6. /\ 2^(a + n) = 2 * 2^(a + k) /\ 2^n = 2 * 2^k /\ 2^a \in Nat /\ 2^k \in Nat
  <2>1. a + n = (a + k) + 1 /\ a + k \in Nat
    BY <1>4
  <2>2. QED
    BY <1>4, <2>1, Power
<1>7. 2^(a + n) = 2^a * 2^n
  <2>1. \A u, y \in Nat : 2 * (u * y) = u * (2 * y)
    OBVIOUS
  <2>2. QED
    BY <1>5, <1>6, <2>1
<1>8. QED
  BY <1>2, <1>7

(* A smaller power divides a greater one. *)
LEMMA PowerDivides ==
  ASSUME NEW a \in Nat, NEW b \in Nat, a <= b
  PROVE  b - a \in Nat /\ 2^b = 2^a * 2^(b - a) /\ 2^a <= 2^b
<1>1. b - a \in Nat /\ a + (b - a) = b
  OBVIOUS
<1>2. 2^b = 2^a * 2^(b - a)
  BY <1>1, PowerSum
<1>3. 2^a \in Nat /\ 2^(b - a) \in Nat /\ 2^(b - a) > 0
  BY <1>1, Power
<1>4. \A u \in Nat, y \in Nat : y > 0 => u <= u * y
  OBVIOUS
<1>5. QED
  BY <1>1, <1>2, <1>3, <1>4

(* And a lesser power is less. *)
LEMMA PowerLess ==
  ASSUME NEW a \in Nat, NEW b \in Nat, a < b
  PROVE  2 * 2^a <= 2^b
<1>1. a + 1 \in Nat /\ a + 1 <= b
  OBVIOUS
<1>2. QED
  BY <1>1, Power, PowerDivides

-----------------------------------------------------------------------------
(* Quotients, remainders and congruences.                                  *)

LEMMA Divide ==
  ASSUME NEW u \in Int, NEW m \in Nat, m > 0
  PROVE  /\ u \div m \in Int /\ u % m \in Int /\ 0 <= u % m /\ u % m < m
         /\ u = (u \div m) * m + (u % m)
<1>1. u \div m \in Int
  OBVIOUS
<1>2. u % m \in 0..(m - 1)
  OBVIOUS
<1>3. u = m * (u \div m) + (u % m)
  OBVIOUS
<1>4. \A y \in Int : m * y = y * m
  OBVIOUS
<1>5. QED
  BY <1>1, <1>2, <1>3, <1>4

LEMMA OneDivision ==
  ASSUME NEW m \in Nat, m > 0, NEW q \in Int, NEW r \in Int, NEW p \in Int, NEW s \in Int,
         0 <= r, r < m, 0 <= s, s < m, q * m + r = p * m + s
  PROVE  q = p /\ r = s
OBVIOUS

LEMMA IsDivision ==
  ASSUME NEW u \in Int, NEW m \in Nat, m > 0, NEW q \in Int, NEW r \in Int,
         0 <= r, r < m, u = q * m + r
  PROVE  u \div m = q /\ u % m = r
BY Divide, OneDivision

(* x and y differ by a multiple of m. *)
Cong(u, y, m) == \E k \in Int : u = y + k * m

LEMMA CongSame ==
  ASSUME NEW u \in Int, NEW m \in Nat
  PROVE  Cong(u, u, m)
<1>1. u = u + 0 * m
  OBVIOUS
<1>2. QED
  BY <1>1 DEF Cong

LEMMA CongBack ==
  ASSUME NEW u \in Int, NEW y \in Int, NEW m \in Nat, Cong(u, y, m)
  PROVE  Cong(y, u, m)
<1>1. PICK k \in Int : u = y + k * m
  BY DEF Cong
<1>2. -k \in Int /\ y = u + (-k) * m
  BY <1>1
<1>3. QED
  BY <1>2 DEF Cong

LEMMA CongThen ==
  ASSUME NEW u \in Int, NEW y \in Int, NEW z \in Int, NEW m \in Nat,
         Cong(u, y, m), Cong(y, z, m)
  PROVE  Cong(u, z, m)
<1>1. PICK k \in Int, l \in Int : u = y + k * m /\ y = z + l * m
  BY DEF Cong
<1>2. k + l \in Int /\ u = z + (k + l) * m
  BY <1>1
<1>3. QED
  BY <1>2 DEF Cong

LEMMA CongSum ==
  ASSUME NEW u \in Int, NEW y \in Int, NEW m \in Nat, Cong(u, y, m), NEW c \in Int
  PROVE  Cong(u + c, y + c, m)
<1>1. PICK k \in Int : u = y + k * m
  BY DEF Cong
<1>2. u + c = (y + c) + k * m
  BY <1>1
<1>3. QED
  BY <1>2 DEF Cong

LEMMA CongTimes ==
  ASSUME NEW u \in Int, NEW y \in Int, NEW m \in Nat, Cong(u, y, m), NEW c \in Int
  PROVE  Cong(u * c, y * c, m)
<1>1. PICK k \in Int : u = y + k * m
  BY DEF Cong
<1>2. k * c \in Int /\ (y + k * m) * c = y * c + (k * c) * m
  OBVIOUS
<1>3. QED
  BY <1>1, <1>2 DEF Cong

LEMMA CongDivides ==
  ASSUME NEW u \in Int, NEW y \in Int, NEW d \in Nat, NEW e \in Nat, Cong(u, y, d * e)
  PROVE  Cong(u, y, d)
<1>1. PICK k \in Int : u = y + k * (d * e)
  BY DEF Cong
<1>2. k * e \in Int /\ k * (d * e) = (k * e) * d
  OBVIOUS
<1>3. QED
  BY <1>1, <1>2 DEF Cong

LEMMA CongRest ==
  ASSUME NEW u \in Int, NEW m \in Nat, m > 0
  PROVE  Cong(u % m, u, m) /\ Cong(u, u % m, m)
<1>1. u % m \in Int /\ u \div m \in Int /\ u = (u \div m) * m + (u % m)
  BY Divide
<1>2. u = (u % m) + (u \div m) * m
  BY <1>1
<1>3. Cong(u, u % m, m)
  BY <1>1, <1>2 DEF Cong
<1>4. QED
  BY <1>1, <1>3, CongBack

(* Among m numbers in a row no two are congruent. *)
LEMMA CongNear ==
  ASSUME NEW u \in Int, NEW y \in Int, NEW m \in Nat, m > 0, Cong(u, y, m),
         u - y < m, y - u < m
  PROVE  u = y
<1>1. PICK k \in Int : u = y + k * m
  BY DEF Cong
<1>2. k * m < m /\ -m < k * m
  BY <1>1
<1>3. k < 1 /\ -1 < k
  BY <1>2
<1>4. k = 0
  BY <1>3
<1>5. QED
  BY <1>1, <1>4

LEMMA CongEqual ==
  ASSUME NEW u \in Int, NEW y \in Int, NEW m \in Nat, m > 0, Cong(u, y, m)
  PROVE  u % m = y % m
<1>1. /\ u % m \in Int /\ 0 <= u % m /\ u % m < m
      /\ y % m \in Int /\ 0 <= y % m /\ y % m < m
  BY Divide
<1>2. Cong(u % m, u, m) /\ Cong(y, y % m, m)
  BY CongRest
<1>3. Cong(u % m, y % m, m)
  BY <1>1, <1>2, CongThen
<1>4. QED
  BY <1>1, <1>3, CongNear

LEMMA CongSubtract ==
  ASSUME NEW u \in Int, NEW y \in Int, NEW m \in Nat, Cong(u, y, m)
  PROVE  Cong(-u, -y, m)
<1>1. PICK k \in Int : u = y + k * m
  BY DEF Cong
<1>2. -k \in Int /\ -u = -y + (-k) * m
  BY <1>1
<1>3. QED
  BY <1>2 DEF Cong

-----------------------------------------------------------------------------
(* Casts.                                                                  *)

LEMMA Half ==
  ASSUME NEW n \in Nat \ {0}
  PROVE  /\ 2^n \in Nat /\ 2^n > 0 /\ 2^(n - 1) \in Nat /\ 2^(n - 1) > 0
         /\ 2^n = 2 * 2^(n - 1)
<1>1. n \in Nat /\ n - 1 \in Nat /\ (n - 1) + 1 = n
  OBVIOUS
<1>2. QED
  BY <1>1, Power

LEMMA SignedIs ==
  ASSUME NEW v \in Int, NEW n \in Nat \ {0}
  PROVE  /\ Signed(v, n) \in Int /\ -(2^(n - 1)) <= Signed(v, n) /\ Signed(v, n) < 2^(n - 1)
         /\ Cong(Signed(v, n), v, 2^n)
<1>1. /\ 2^n \in Nat /\ 2^n > 0 /\ 2^(n - 1) \in Nat /\ 2^(n - 1) > 0 /\ 2^n = 2 * 2^(n - 1)
  BY Half
<1>2. PICK p, h : p = 2^n /\ h = 2^(n - 1)
  OBVIOUS
<1>3. p \in Nat /\ p > 0 /\ h \in Nat /\ h > 0 /\ p = 2 * h
  BY <1>1, <1>2
<1>4. v % p \in Int /\ 0 <= v % p /\ v % p < p /\ Cong(v % p, v, p)
  BY <1>3, Divide, CongRest
<1>5. Signed(v, n) = IF v % p >= h THEN (v % p) - p ELSE v % p
  BY <1>2 DEF Signed
<1>6. CASE v % p >= h
  <2>1. (v % p) - p \in Int /\ -h <= (v % p) - p /\ (v % p) - p < h
    BY <1>3, <1>4, <1>6
  <2>2. PICK k \in Int : v % p = v + k * p
    BY <1>4 DEF Cong
  <2>3. k - 1 \in Int /\ (v % p) - p = v + (k - 1) * p
    BY <1>3, <2>2
  <2>4. Cong((v % p) - p, v, p)
    BY <2>3 DEF Cong
  <2>5. QED
    BY <1>2, <1>5, <1>6, <2>1, <2>4
<1>7. CASE ~(v % p >= h)
  BY <1>2, <1>3, <1>4, <1>5, <1>7
<1>8. QED
  BY <1>6, <1>7

LEMMA SignedOnly ==
  ASSUME NEW v \in Int, NEW n \in Nat \ {0}, NEW w \in Int,
         -(2^(n - 1)) <= w, w < 2^(n - 1), Cong(v, w, 2^n)
  PROVE  Signed(v, n) = w
<1>1. PICK p, h : p = 2^n /\ h = 2^(n - 1)
  OBVIOUS
<1>2. p \in Nat /\ p > 0 /\ h \in Nat /\ h > 0 /\ p = 2 * h
  BY <1>1, Half
<1>3. PICK s : s = Signed(v, n)
  OBVIOUS
<1>4. s \in Int /\ -h <= s /\ s < h /\ Cong(s, v, p)
  BY <1>1, <1>3, SignedIs
<1>5. Cong(s, w, p)
  BY <1>1, <1>2, <1>4, CongThen
<1>6. s - w < p /\ w - s < p
  BY <1>1, <1>2, <1>4
<1>7. QED
  BY <1>2, <1>3, <1>4, <1>5, <1>6, CongNear

LEMMA Widths ==
  /\ ByteBits \in Nat \ {0} /\ ShortBits \in Nat \ {0}
  /\ WordBits \in Nat \ {0} /\ LongBits \in Nat \ {0}
  /\ ByteBits \in Nat /\ ShortBits \in Nat /\ WordBits \in Nat /\ LongBits \in Nat
  /\ ByteBits < ShortBits /\ ShortBits < WordBits /\ WordBits < LongBits
BY WidthAssumption

(* The sizes of words and slots. *)
LEMMA Sizes ==
  \E h, p, q, e \in Nat :
    /\ h = 2^(WordBits - 1) /\ p = 2^WordBits /\ q = 2^LongBits /\ e = 2^(LongBits - WordBits)
    /\ h > 0 /\ p = 2 * h /\ q = p * e /\ e > 1 /\ 2 * p <= q /\ q > 0
    /\ Ints = (-h)..(h - 1) /\ Slots = 0..(q - 1)
<1>1. /\ 2^WordBits \in Nat /\ 2^(WordBits - 1) \in Nat /\ 2^(WordBits - 1) > 0
      /\ 2^WordBits = 2 * 2^(WordBits - 1) /\ 2^LongBits \in Nat
  BY Widths, Half
<1>2. /\ LongBits - WordBits \in Nat \ {0} /\ WordBits <= LongBits
      /\ LongBits - WordBits \in Nat
  BY Widths
<1>3. /\ 2^LongBits = 2^WordBits * 2^(LongBits - WordBits) /\ 2 * 2^WordBits <= 2^LongBits
  BY <1>2, Widths, PowerDivides, PowerLess
<1>4. 2^(LongBits - WordBits) \in Nat /\ 2^(LongBits - WordBits) > 1
  <2>1. /\ 2^(LongBits - WordBits) = 2 * 2^((LongBits - WordBits) - 1)
        /\ 2^((LongBits - WordBits) - 1) \in Nat /\ 2^((LongBits - WordBits) - 1) > 0
        /\ 2^(LongBits - WordBits) \in Nat
    BY <1>2, Half
  <2>2. PICK e, d : e = 2^(LongBits - WordBits) /\ d = 2^((LongBits - WordBits) - 1)
    OBVIOUS
  <2>3. e = 2 * d /\ d \in Nat /\ d > 0 /\ e \in Nat
    BY <2>1, <2>2
  <2>4. e > 1
    BY <2>3
  <2>5. QED
    BY <2>2, <2>3, <2>4
<1>5. PICK h, p, q, e : /\ h = 2^(WordBits - 1) /\ p = 2^WordBits /\ q = 2^LongBits
                        /\ e = 2^(LongBits - WordBits)
  OBVIOUS
<1>6. /\ h \in Nat /\ p \in Nat /\ q \in Nat /\ e \in Nat /\ h > 0 /\ p = 2 * h /\ q = p * e
      /\ e > 1 /\ 2 * p <= q /\ q > 0
  BY <1>1, <1>3, <1>4, <1>5
<1>7. Ints = (-h)..(h - 1) /\ Slots = 0..(q - 1)
  BY <1>5 DEF Ints, Slots
<1>8. QED
  BY <1>5, <1>6, <1>7

(* What is congruent as a slot is so as a word. *)
LEMMA SlotToWord ==
  ASSUME NEW u \in Int, NEW y \in Int, Cong(u, y, 2^LongBits)
  PROVE  Cong(u, y, 2^WordBits)
<1>1. PICK h, p, q, e \in Nat : p = 2^WordBits /\ q = 2^LongBits /\ q = p * e
  BY Sizes
<1>2. Cong(u, y, p * e)
  BY <1>1
<1>3. Cong(u, y, p)
  BY <1>2, CongDivides
<1>4. QED
  BY <1>1, <1>3

(* The int in a slot is the only one that is congruent to it. *)
LEMMA WordIs ==
  ASSUME NEW s \in Int, NEW v \in Ints
  PROVE  Int32(s) = v <=> Cong(s, v, 2^WordBits)
<1>1. PICK h, p, q, e \in Nat : /\ h = 2^(WordBits - 1) /\ p = 2^WordBits
                                /\ Ints = (-h)..(h - 1)
  BY Sizes
<1>2. v \in Int /\ -h <= v /\ v < h
  BY <1>1
<1>3. ASSUME Int32(s) = v PROVE Cong(s, v, 2^WordBits)
  <2>1. Cong(v, s, p)
    BY <1>1, <1>3, Widths, SignedIs DEF Int32
  <2>2. QED
    BY <1>1, <1>2, <2>1, CongBack
<1>4. ASSUME Cong(s, v, 2^WordBits) PROVE Int32(s) = v
  BY <1>1, <1>2, <1>4, Widths, SignedOnly DEF Int32
<1>5. QED
  BY <1>3, <1>4

LEMMA WordOf ==
  ASSUME NEW s \in Int
  PROVE  Int32(s) \in Ints /\ Cong(s, Int32(s), 2^WordBits)
<1>1. PICK h, p, q, e \in Nat : /\ h = 2^(WordBits - 1) /\ p = 2^WordBits
                                /\ Ints = (-h)..(h - 1)
  BY Sizes
<1>2. PICK w : w = Int32(s)
  OBVIOUS
<1>3. w \in Int /\ -h <= w /\ w < h /\ Cong(w, s, p)
  BY <1>1, <1>2, Widths, SignedIs DEF Int32
<1>4. w \in Ints
  BY <1>1, <1>3
<1>5. QED
  BY <1>1, <1>2, <1>3, <1>4, CongBack

LEMMA WordSame ==
  ASSUME NEW u \in Int, NEW y \in Int, Cong(u, y, 2^WordBits)
  PROVE  Int32(u) = Int32(y)
<1>1. PICK h, p, q, e \in Nat : p = 2^WordBits /\ Ints = (-h)..(h - 1)
  BY Sizes
<1>2. Int32(y) \in Ints /\ Int32(y) \in Int /\ Cong(y, Int32(y), p)
  BY <1>1, WordOf
<1>3. Cong(u, Int32(y), p)
  BY <1>1, <1>2, CongThen
<1>4. QED
  BY <1>1, <1>2, <1>3, WordIs

LEMMA BitsIs ==
  ASSUME NEW v \in Int
  PROVE  /\ Bits(v) \in Slots /\ Bits(v) \in Int /\ Cong(Bits(v), v, 2^LongBits)
         /\ Cong(Bits(v), v, 2^WordBits)
<1>1. PICK h, p, q, e \in Nat : q = 2^LongBits /\ q > 0 /\ Slots = 0..(q - 1)
  BY Sizes
<1>2. v % q \in Int /\ 0 <= v % q /\ v % q < q /\ Cong(v % q, v, q)
  BY <1>1, Divide, CongRest
<1>3. Bits(v) = v % q
  BY <1>1 DEF Bits
<1>4. Bits(v) \in Slots /\ Bits(v) \in Int /\ Cong(Bits(v), v, 2^LongBits)
  BY <1>1, <1>2, <1>3
<1>5. QED
  BY <1>4, SlotToWord

LEMMA BitsOnly ==
  ASSUME NEW s \in Slots, NEW v \in Int, Cong(s, v, 2^LongBits)
  PROVE  s = Bits(v)
<1>1. PICK h, p, q, e \in Nat : q = 2^LongBits /\ q > 0 /\ Slots = 0..(q - 1)
  BY Sizes
<1>2. PICK t : t = Bits(v)
  OBVIOUS
<1>3. t \in Slots /\ t \in Int /\ Cong(t, v, q)
  BY <1>1, <1>2, BitsIs
<1>4. s \in Int
  BY <1>1
<1>5. Cong(s, t, q)
  BY <1>1, <1>3, <1>4, CongBack, CongThen
<1>6. s - t < q /\ t - s < q
  BY <1>1, <1>3
<1>7. QED
  BY <1>1, <1>2, <1>3, <1>4, <1>5, <1>6, CongNear

(* The whole slot of an int, read as a signed number. *)
LEMMA LongOf ==
  ASSUME NEW v \in Ints
  PROVE  Int64(Bits(v)) = v
<1>1. PICK h, p, q, e \in Nat : /\ q = 2^LongBits /\ h > 0 /\ p = 2 * h /\ 2 * p <= q
                                /\ Ints = (-h)..(h - 1)
  BY Sizes
<1>2. v \in Int /\ -h <= v /\ v < h
  BY <1>1
<1>3. PICK g : g = 2^(LongBits - 1)
  OBVIOUS
<1>4. g \in Nat /\ q = 2 * g
  BY <1>1, <1>3, Widths, Half
<1>5. -g <= v /\ v < g
  BY <1>1, <1>2, <1>4
<1>6. Bits(v) \in Int /\ Cong(Bits(v), v, 2^LongBits)
  BY <1>2, BitsIs
<1>7. QED
  BY <1>2, <1>3, <1>5, <1>6, Widths, SignedOnly DEF Int64

LEMMA LongIs ==
  ASSUME NEW s \in Int
  PROVE  Int64(s) \in Int /\ Cong(Int64(s), s, 2^LongBits)
BY Widths, SignedIs DEF Int64

-----------------------------------------------------------------------------
(* The bits of a number.                                                   *)

LEMMA EvenMore ==
  ASSUME NEW a \in Int, NEW c \in Int
  PROVE  (2 * c + a) % 2 = a % 2
OBVIOUS

(* The bits below the n-th are those of the rest by 2^n. *)
LEMMA LowBit ==
  ASSUME NEW s \in Nat, NEW n \in Nat, NEW bit \in Nat, bit < n
  PROVE  ((s % 2^n) \div 2^bit) % 2 = (s \div 2^bit) % 2
<1>1. /\ (n - bit) - 1 \in Nat /\ n = bit + (1 + ((n - bit) - 1)) /\ 1 + ((n - bit) - 1) \in Nat
      /\ ((n - bit) - 1) + 1 = 1 + ((n - bit) - 1)
  OBVIOUS
<1>2. PICK p, m, t, w : /\ p = 2^bit /\ m = 2^n /\ t = 2^((n - bit) - 1)
                        /\ w = 2^(1 + ((n - bit) - 1))
  OBVIOUS
<1>3. p \in Nat /\ p > 0 /\ m \in Nat /\ m > 0 /\ t \in Nat /\ w \in Nat /\ w = 2 * t
  BY <1>1, <1>2, Power
<1>4. m = p * w
  BY <1>1, <1>2, PowerSum
<1>5. PICK q, r : q = s \div m /\ r = s % m
  OBVIOUS
<1>6. q \in Int /\ r \in Int /\ s = q * m + r
  BY <1>3, <1>5, Divide
<1>7. PICK a, b : a = r \div p /\ b = r % p
  OBVIOUS
<1>8. a \in Int /\ b \in Int /\ 0 <= b /\ b < p /\ r = a * p + b
  BY <1>3, <1>6, <1>7, Divide
<1>9. 2 * (q * t) + a \in Int /\ q * t \in Int
  BY <1>3, <1>6, <1>8
<1>10. s = (2 * (q * t) + a) * p + b
  <2>1. q * (p * (2 * t)) = (2 * (q * t)) * p
    BY <1>3, <1>6
  <2>2. (2 * (q * t)) * p + a * p = (2 * (q * t) + a) * p
    BY <1>3, <1>8, <1>9
  <2>3. q * m = (2 * (q * t)) * p
    BY <1>3, <1>4, <2>1
  <2>4. QED
    BY <1>3, <1>6, <1>8, <1>9, <2>2, <2>3
<1>11. s \div p = 2 * (q * t) + a
  <2>1. PICK z : z = 2 * (q * t) + a
    OBVIOUS
  <2>2. z \in Int /\ s = z * p + b
    BY <1>9, <1>10, <2>1
  <2>3. s \div p = z
    BY <1>3, <1>8, <2>2, IsDivision
  <2>4. QED
    BY <2>1, <2>3
<1>12. (2 * (q * t) + a) % 2 = a % 2
  BY <1>8, <1>9, EvenMore
<1>13. QED
  BY <1>2, <1>5, <1>7, <1>11, <1>12

(* A number below 2^n has no bit from the n-th on. *)
LEMMA HighBit ==
  ASSUME NEW s \in Nat, NEW n \in Nat, s < 2^n, NEW bit \in Nat, n <= bit
  PROVE  (s \div 2^bit) % 2 = 0
<1>1. PICK p, m : p = 2^bit /\ m = 2^n
  OBVIOUS
<1>2. p \in Nat /\ p > 0 /\ m \in Nat /\ m <= p
  BY <1>1, Power, PowerDivides
<1>3. s = 0 * p + s /\ s < p
  BY <1>1, <1>2
<1>4. s \div p = 0 /\ 0 % 2 = 0
  BY <1>2, <1>3, IsDivision
<1>5. (s \div p) % 2 = 0
  BY <1>4
<1>6. QED
  BY <1>1, <1>5

(* Its top bit and what is below it. *)
LEMMA TopBit ==
  ASSUME NEW s \in Nat, NEW n \in Nat, s < 2^(n + 1)
  PROVE  /\ s % 2^n \in Nat /\ s % 2^n < 2^n
         /\ \/ (s \div 2^n) % 2 = 0 /\ s = s % 2^n
            \/ (s \div 2^n) % 2 = 1 /\ s = 2^n + (s % 2^n)
<1>1. PICK p, d, r : p = 2^n /\ d = s \div p /\ r = s % p
  OBVIOUS
<1>2. p \in Nat /\ p > 0 /\ s < 2 * p
  BY <1>1, Power
<1>3. d \in Int /\ r \in Int /\ 0 <= r /\ r < p /\ s = d * p + r
  BY <1>1, <1>2, Divide
<1>4. d = 0 \/ d = 1
  <2>1. d >= 2 => d * p >= 2 * p
    BY <1>2, <1>3
  <2>2. d <= -1 => d * p <= -p
    BY <1>2, <1>3
  <2>3. d * p \in Int
    BY <1>2, <1>3
  <2>4. ~(d >= 2) /\ ~(d <= -1)
    BY <1>2, <1>3, <2>1, <2>2, <2>3
  <2>5. QED
    BY <1>3, <2>4
<1>5. CASE d = 0
  <2>1. s = r
    BY <1>2, <1>3, <1>5
  <2>2. d % 2 = 0
    BY <1>5
  <2>3. (s \div p) % 2 = 0 /\ s % p = r
    BY <1>1, <2>2
  <2>4. QED
    BY <1>1, <1>3, <2>1, <2>3
<1>6. CASE d = 1
  <2>1. s = p + r
    BY <1>2, <1>3, <1>6
  <2>2. d % 2 = 1
    BY <1>6
  <2>3. (s \div p) % 2 = 1 /\ s % p = r
    BY <1>1, <2>2
  <2>4. QED
    BY <1>1, <1>3, <2>1, <2>3
<1>7. QED
  BY <1>4, <1>5, <1>6

Bit(s, bit) == (s \div 2^bit) % 2
Below(n) == {s \in Nat : s < 2^n}

(* A number is known by its bits. *)
LEMMA OneNumber ==
  ASSUME NEW n \in Nat, NEW u \in Below(n), NEW y \in Below(n),
         \A bit \in Nat : bit < n => Bit(u, bit) = Bit(y, bit)
  PROVE  u = y
<1>. DEFINE Alike(j, a, b) == \A bit \in Nat : bit < j => Bit(a, bit) = Bit(b, bit)
            T == {j \in Nat : \E a, b \in Below(j) : Alike(j, a, b) /\ a # b}
<1>1. SUFFICES ASSUME T # {} PROVE FALSE
  OBVIOUS
<1>2. PICK j \in T : \A k \in T : j <= k
  BY <1>1, Least
<1>3. PICK a \in Below(j), b \in Below(j) : Alike(j, a, b) /\ a # b
  BY <1>2
<1>4. j # 0
  <2>1. j = 0 => a = 0 /\ b = 0
    BY PowerZero DEF Below
  <2>2. QED
    BY <1>3, <2>1
<1>5. PICK k \in Nat : j = k + 1
  <2>1. j \in Nat
    BY <1>2
  <2>2. j - 1 \in Nat /\ j = (j - 1) + 1
    BY <1>4, <2>1
  <2>3. QED
    BY <2>2
<1>6. k \notin T
  BY <1>2, <1>5
<1>7. PICK c, d : c = a % 2^k /\ d = b % 2^k
  OBVIOUS
<1>8. /\ a \in Nat /\ b \in Nat /\ a < 2^(k + 1) /\ b < 2^(k + 1) /\ 2^k \in Nat
  BY <1>5, Power DEF Below
<1>9. /\ c \in Nat /\ c < 2^k /\ d \in Nat /\ d < 2^k
      /\ (Bit(a, k) = 0 /\ a = c) \/ (Bit(a, k) = 1 /\ a = 2^k + c)
      /\ (Bit(b, k) = 0 /\ b = d) \/ (Bit(b, k) = 1 /\ b = 2^k + d)
  <2>1. PICK p, v, w : p = 2^k /\ v = Bit(a, k) /\ w = Bit(b, k)
    OBVIOUS
  <2>2. c \in Nat /\ c < p /\ ((v = 0 /\ a = c) \/ (v = 1 /\ a = p + c))
    BY <1>7, <1>8, <2>1, TopBit DEF Bit
  <2>3. d \in Nat /\ d < p /\ ((w = 0 /\ b = d) \/ (w = 1 /\ b = p + d))
    BY <1>7, <1>8, <2>1, TopBit DEF Bit
  <2>4. QED
    BY <2>1, <2>2, <2>3
<1>10. Alike(k, c, d)
  <2>1. ASSUME NEW bit \in Nat, bit < k PROVE Bit(c, bit) = Bit(d, bit)
    <3>1. Bit(c, bit) = Bit(a, bit) /\ Bit(d, bit) = Bit(b, bit)
      BY <1>7, <1>8, <2>1, LowBit DEF Bit
    <3>2. Bit(a, bit) = Bit(b, bit)
      BY <1>3, <1>5, <2>1
    <3>3. QED
      BY <3>1, <3>2
  <2>2. QED
    BY <2>1
<1>11. c = d
  BY <1>6, <1>9, <1>10 DEF Below
<1>12. Bit(a, k) = Bit(b, k)
  BY <1>3, <1>5
<1>13. QED
  <2>1. (a = c /\ b = d) \/ (a = 2^k + c /\ b = 2^k + d)
    BY <1>9, <1>12
  <2>2. QED
    BY <1>3, <1>11, <2>1

(* And any bits make a number. *)
LEMMA SomeNumber ==
  ASSUME NEW n \in Nat, NEW B \in SUBSET Nat, \A bit \in B : bit < n
  PROVE  \E s \in Below(n) : \A bit \in Nat : bit \in B <=> Bit(s, bit) = 1
<1>. DEFINE Spells(s, C) == \A bit \in Nat : bit \in C <=> Bit(s, bit) = 1
            T == {j \in Nat : \E C \in SUBSET Nat :
                    (\A bit \in C : bit < j) /\ ~(\E s \in Below(j) : Spells(s, C))}
<1>1. SUFFICES ASSUME T # {} PROVE FALSE
  OBVIOUS
<1>2. PICK j \in T : \A k \in T : j <= k
  BY <1>1, Least
<1>3. PICK C \in SUBSET Nat : (\A bit \in C : bit < j) /\ ~(\E s \in Below(j) : Spells(s, C))
  BY <1>2
<1>4. j # 0
  <2>1. SUFFICES ASSUME j = 0 PROVE FALSE
    OBVIOUS
  <2>2. C = {}
    BY <1>3, <2>1
  <2>3. 0 \in Below(0) /\ \A bit \in Nat : Bit(0, bit) = 0
    <3>1. 0 \in Nat /\ 0 < 2^0
      BY PowerZero
    <3>2. \A bit \in Nat : Bit(0, bit) = 0
      <4>1. ASSUME NEW bit \in Nat PROVE Bit(0, bit) = 0
        <5>1. 0 \in Nat /\ 0 <= bit
          OBVIOUS
        <5>2. QED
          BY <3>1, <5>1, HighBit DEF Bit
      <4>2. QED
        BY <4>1
    <3>3. QED
      BY <3>1, <3>2 DEF Below
  <2>4. Spells(0, C)
    BY <2>2, <2>3
  <2>5. QED
    BY <1>3, <2>1, <2>3, <2>4
<1>5. PICK k \in Nat : j = k + 1
  BY <1>2, <1>4
<1>6. k \notin T
  BY <1>2, <1>5
<1>7. PICK D : D = C \ {k}
  OBVIOUS
<1>8. D \in SUBSET Nat /\ \A bit \in D : bit < k
  BY <1>3, <1>5, <1>7
<1>9. PICK r \in Below(k) : Spells(r, D)
  BY <1>6, <1>8
<1>10. PICK p : p = 2^k
  OBVIOUS
<1>11. p \in Nat /\ p > 0 /\ 2^j = 2 * p /\ r \in Nat /\ r < p
  BY <1>5, <1>9, <1>10, Power DEF Below
<1>12. CASE k \notin C
  <2>1. D = C /\ r \in Below(j)
    BY <1>7, <1>11, <1>12 DEF Below
  <2>2. QED
    BY <1>3, <1>9, <2>1
<1>13. CASE k \in C
  <2>1. PICK s : s = p + r
    OBVIOUS
  <2>2. s \in Nat /\ s < 2^j /\ s = 1 * p + r /\ s \in Below(j)
    BY <1>11, <2>1 DEF Below
  <2>3. s \div p = 1 /\ s % p = r
    BY <1>11, <2>2, IsDivision
  <2>4. ASSUME NEW bit \in Nat PROVE bit \in C <=> Bit(s, bit) = 1
    <3>1. CASE bit < k
      <4>1. Bit(r, bit) = Bit(s, bit)
        <5>1. Bit(s % 2^k, bit) = Bit(s, bit)
          BY <2>2, <3>1, LowBit DEF Bit
        <5>2. s % 2^k = r
          BY <1>10, <2>3
        <5>3. QED
          BY <5>1, <5>2
      <4>2. bit \in C <=> bit \in D
        BY <1>7, <3>1
      <4>3. QED
        BY <1>9, <4>1, <4>2
    <3>2. CASE bit = k
      BY <1>10, <1>13, <2>3, <3>2 DEF Bit
    <3>3. CASE bit > k
      <4>1. bit \notin C
        BY <1>3, <1>5, <3>3
      <4>2. j \in Nat /\ j <= bit
        BY <1>5, <3>3
      <4>3. Bit(s, bit) = 0
        BY <2>2, <4>2, HighBit DEF Bit
      <4>4. QED
        BY <4>1, <4>3
    <3>4. QED
      BY <3>1, <3>2, <3>3
  <2>5. Spells(s, C)
    BY <2>4
  <2>6. QED
    BY <1>3, <2>2, <2>5
<1>14. QED
  BY <1>12, <1>13

-----------------------------------------------------------------------------
(* Slots as the sets of their bits.                                        *)

LEMMA SlotsAre ==
  /\ 2^LongBits \in Nat /\ Slots = Below(LongBits)
  /\ \A bit : bit \in Places <=> bit \in Nat /\ bit < LongBits
<1>1. 2^LongBits \in Nat
  BY Widths, Power
<1>2. PICK q : q = 2^LongBits
  OBVIOUS
<1>3. Slots = Below(LongBits)
  BY <1>1, <1>2 DEF Slots, Below
<1>4. QED
  BY <1>1, <1>3, Widths DEF Places

LEMMA OnesIs ==
  ASSUME NEW s \in Slots
  PROVE  /\ Ones[s] \in SUBSET Places
         /\ \A bit \in Nat : bit \in Ones[s] <=> Bit(s, bit) = 1
<1>1. Ones[s] = {bit \in Places : Bit(s, bit) = 1}
  BY DEF Ones, Bit
<1>2. s \in Nat /\ s < 2^LongBits
  BY SlotsAre DEF Below
<1>3. ASSUME NEW bit \in Nat PROVE bit \in Ones[s] <=> Bit(s, bit) = 1
  <2>1. CASE bit < LongBits
    BY <1>1, <2>1, SlotsAre
  <2>2. CASE LongBits <= bit
    <3>1. Bit(s, bit) = 0
      BY <1>2, <2>2, Widths, HighBit DEF Bit
    <3>2. QED
      BY <1>1, <3>1
  <2>3. QED
    BY <2>1, <2>2, Widths
<1>4. QED
  BY <1>1, <1>3

LEMMA OnesEqual ==
  ASSUME NEW s \in Slots, NEW t \in Slots, Ones[s] = Ones[t]
  PROVE  s = t
<1>1. s \in Nat /\ t \in Nat
  BY SlotsAre DEF Below
<1>2. ASSUME NEW bit \in Nat PROVE Bit(s, bit) = Bit(t, bit)
  <2>1. Bit(s, bit) = 1 <=> Bit(t, bit) = 1
    BY OnesIs
  <2>2. \A z \in Nat : Bit(z, bit) = 0 \/ Bit(z, bit) = 1
    <3>1. PICK p : p = 2^bit
      OBVIOUS
    <3>2. p \in Nat /\ p > 0
      BY <3>1, Power
    <3>3. ASSUME NEW z \in Nat PROVE z \div p \in Int
      BY <3>2, Divide
    <3>4. \A d \in Int : d % 2 = 0 \/ d % 2 = 1
      OBVIOUS
    <3>5. QED
      BY <3>1, <3>3, <3>4 DEF Bit
  <2>3. QED
    BY <1>1, <2>1, <2>2
<1>3. QED
  BY <1>2, SlotsAre, Widths, OneNumber

LEMMA WithOnesIs ==
  ASSUME NEW B \in SUBSET Places
  PROVE  WithOnes[B] \in Slots /\ Ones[WithOnes[B]] = B
<1>1. B \in SUBSET Nat /\ \A bit \in B : bit < LongBits
  BY SlotsAre
<1>2. PICK s \in Below(LongBits) : \A bit \in Nat : bit \in B <=> Bit(s, bit) = 1
  BY <1>1, Widths, SomeNumber
<1>3. s \in Slots
  BY SlotsAre
<1>4. Ones[s] = B
  <2>1. Ones[s] \in SUBSET Nat /\ \A bit \in Nat : bit \in Ones[s] <=> Bit(s, bit) = 1
    BY <1>3, OnesIs, SlotsAre
  <2>2. \A bit \in Nat : bit \in Ones[s] <=> bit \in B
    BY <1>2, <2>1
  <2>3. QED
    BY <1>1, <2>1, <2>2
<1>5. WithOnes[B] = CHOOSE t \in Slots : Ones[t] = B
  BY DEF WithOnes
<1>6. QED
  BY <1>3, <1>4, <1>5

(* The bits of the word in a slot. *)
LEMMA OnesLow ==
  ASSUME NEW s \in Slots
  PROVE  /\ s % 2^WordBits \in Slots /\ s % 2^WordBits < 2^WordBits /\ s % 2^WordBits \in Nat
         /\ \A bit \in Nat : bit \in Ones[s % 2^WordBits] <=> bit \in Ones[s] /\ bit < WordBits
<1>1. PICK h, p, q, e \in Nat : /\ p = 2^WordBits /\ q = 2^LongBits /\ h > 0 /\ p = 2 * h
                                /\ 2 * p <= q /\ Slots = 0..(q - 1)
  BY Sizes
<1>2. PICK r : r = s % p
  OBVIOUS
<1>3. s \in Nat /\ p > 0
  BY <1>1
<1>4. r \in Int /\ 0 <= r /\ r < p
  BY <1>2, <1>3, Divide
<1>5. r \in Nat /\ r \in Slots
  BY <1>1, <1>4
<1>6. ASSUME NEW bit \in Nat PROVE bit \in Ones[r] <=> bit \in Ones[s] /\ bit < WordBits
  <2>1. CASE bit < WordBits
    <3>1. Bit(s % 2^WordBits, bit) = Bit(s, bit)
      <4>1. PICK w \in Nat : w = WordBits
        BY Widths
      <4>2. Bit(s % 2^w, bit) = Bit(s, bit)
        BY <1>3, <2>1, <4>1, LowBit DEF Bit
      <4>3. QED
        BY <4>1, <4>2
    <3>2. QED
      BY <1>1, <1>2, <1>5, <2>1, <3>1, OnesIs
  <2>2. CASE WordBits <= bit
    <3>1. r < 2^WordBits
      BY <1>1, <1>4
    <3>2. Bit(r, bit) = 0
      BY <1>5, <2>2, <3>1, Widths, HighBit DEF Bit
    <3>3. bit \notin Ones[r]
      BY <1>5, <3>2, OnesIs
    <3>4. QED
      BY <2>2, <3>3, Widths
  <2>3. QED
    BY <2>1, <2>2, Widths
<1>7. QED
  BY <1>1, <1>2, <1>4, <1>5, <1>6

(* Slots with the same bits in the word have the same int. *)
LEMMA WordAlike ==
  ASSUME NEW s \in Slots, NEW t \in Slots,
         \A bit \in Nat : bit < WordBits => (bit \in Ones[s] <=> bit \in Ones[t])
  PROVE  Int32(s) = Int32(t)
<1>1. PICK p : p = 2^WordBits
  OBVIOUS
<1>2. p \in Nat /\ p > 0 /\ s \in Int /\ t \in Int
  BY <1>1, Widths, Power, SlotsAre DEF Below
<1>3. PICK u, y : u = s % p /\ y = t % p
  OBVIOUS
<1>4. /\ u \in Slots /\ y \in Slots
      /\ \A bit \in Nat : bit \in Ones[u] <=> bit \in Ones[s] /\ bit < WordBits
      /\ \A bit \in Nat : bit \in Ones[y] <=> bit \in Ones[t] /\ bit < WordBits
  BY <1>1, <1>3, OnesLow
<1>5. Ones[u] = Ones[y]
  <2>1. \A bit \in Nat : bit \in Ones[u] <=> bit \in Ones[y]
    BY <1>4
  <2>2. Ones[u] \in SUBSET Nat /\ Ones[y] \in SUBSET Nat
    BY <1>4, OnesIs, SlotsAre
  <2>3. QED
    BY <2>1, <2>2
<1>6. u = y
  BY <1>4, <1>5, OnesEqual
<1>7. u \in Int /\ Cong(s, u, p) /\ Cong(u, t, p)
  BY <1>2, <1>3, <1>6, Divide, CongRest
<1>8. Cong(s, t, p)
  BY <1>2, <1>7, CongThen
<1>9. QED
  BY <1>1, <1>2, <1>8, WordSame

(* The bits above the word are its sign. *)
SignAbove(B) ==
  \A bit \in Nat : WordBits <= bit /\ bit < LongBits => (bit \in B <=> WordBits - 1 \in B)

(* The slot of a negative int, whose word is low. *)
LEMMA NegativeOnes ==
  ASSUME NEW low \in Slots, low < 2^WordBits, NEW t, t = low + (2^LongBits - 2^WordBits)
  PROVE  /\ t \in Slots
         /\ \A bit \in Nat : bit < WordBits => (bit \in Ones[t] <=> bit \in Ones[low])
         /\ \A bit \in Nat : WordBits <= bit /\ bit < LongBits => bit \in Ones[t]
<1>1. PICK h, p, q, e \in Nat : /\ p = 2^WordBits /\ q = 2^LongBits /\ h > 0 /\ p = 2 * h
                                /\ q = p * e /\ 2 * p <= q /\ Slots = 0..(q - 1)
  BY Sizes
<1>0. p \in Nat /\ q \in Nat /\ p > 0 /\ p <= q /\ Slots = 0..(q - 1)
  <2>1. h > 0 /\ p = 2 * h /\ 2 * p <= q /\ Slots = 0..(q - 1)
    BY <1>1
  <2>2. QED
    BY <2>1
<1>2. low \in Nat /\ low < p /\ t = low + (q - p)
  BY <1>1
<1>3. t \in Nat /\ t < q /\ t \in Slots
  BY <1>0, <1>2
<1>4. t % p = low
  <2>1. (e - 1) * p = p * e - p /\ e - 1 \in Int
    BY <1>0
  <2>2. t = (e - 1) * p + low
    BY <1>0, <1>1, <1>2, <2>1
  <2>3. PICK z : z = e - 1
    OBVIOUS
  <2>4. z \in Int /\ t = z * p + low /\ t \in Int /\ low \in Int /\ 0 <= low
    BY <1>2, <1>3, <2>1, <2>2, <2>3
  <2>5. QED
    BY <1>0, <1>2, <2>4, IsDivision
<1>5. ASSUME NEW bit \in Nat, bit < WordBits
      PROVE  bit \in Ones[t] <=> bit \in Ones[low]
  <2>1. bit \in Ones[t % 2^WordBits] <=> bit \in Ones[t] /\ bit < WordBits
    BY <1>3, OnesLow
  <2>2. QED
    BY <1>1, <1>4, <1>5, <2>1
<1>6. ASSUME NEW bit \in Nat, WordBits <= bit, bit < LongBits
      PROVE  bit \in Ones[t]
  <2>1. /\ LongBits - bit \in Nat \ {0} /\ bit <= LongBits /\ WordBits \in Nat /\ LongBits \in Nat
        /\ LongBits - bit \in Nat
    BY <1>6, Widths
  <2>2. PICK m, f, g : m = 2^bit /\ f = 2^(LongBits - bit) /\ g = 2^((LongBits - bit) - 1)
    OBVIOUS
  <2>3. m \in Nat /\ f \in Nat /\ g \in Nat /\ f = 2 * g /\ m > 0
    BY <2>1, <2>2, Power, Half
  <2>4. q = m * f
    BY <1>1, <2>1, <2>2, PowerDivides
  <2>5. p <= m
    BY <1>1, <1>6, <2>1, <2>2, PowerDivides
  <2>6. PICK r : r = (m - p) + low
    OBVIOUS
  <2>7. r \in Int /\ 0 <= r /\ r < m
    <3>1. p \in Int /\ low \in Int /\ 0 <= low /\ low < p /\ m \in Int
      BY <1>1, <1>2, <2>3
    <3>2. QED
      BY <2>5, <2>6, <3>1
  <2>8. f - 1 \in Int /\ t = (f - 1) * m + r
    <3>1. (f - 1) * m = m * f - m
      BY <2>3
    <3>2. t = low + (q - p) /\ p \in Int /\ q \in Int /\ low \in Int /\ m \in Int /\ f - 1 \in Int
      BY <1>1, <1>2, <2>3
    <3>3. QED
      BY <2>4, <2>6, <3>1, <3>2
  <2>9. t \div m = f - 1
    BY <1>3, <2>3, <2>7, <2>8, IsDivision
  <2>10. (f - 1) % 2 = 1
    BY <2>3
  <2>11. Bit(t, bit) = 1
    BY <2>2, <2>9, <2>10 DEF Bit
  <2>12. QED
    BY <1>3, <2>11, OnesIs
<1>7. QED
  BY <1>3, <1>5, <1>6

(* A slot holds the sign above the word if and only if its bits do. *)
LEMMA SignIs ==
  ASSUME NEW s \in Slots
  PROVE  s = Bits(Int32(s)) <=> SignAbove(Ones[s])
<1>1. PICK h, p, q, e \in Nat : /\ h = 2^(WordBits - 1) /\ p = 2^WordBits /\ q = 2^LongBits
                                /\ h > 0 /\ p = 2 * h
                                /\ 2 * p <= q /\ Ints = (-h)..(h - 1) /\ Slots = 0..(q - 1)
  BY Sizes
<1>2. PICK low : low = s % p
  OBVIOUS
<1>3. /\ low \in Slots /\ low < p /\ low \in Nat /\ s \in Int /\ p > 0
      /\ \A bit \in Nat : bit \in Ones[low] <=> bit \in Ones[s] /\ bit < WordBits
  <2>1. low = s % 2^WordBits
    BY <1>1, <1>2
  <2>2. /\ low \in Slots /\ low < 2^WordBits /\ low \in Nat
        /\ \A bit \in Nat : bit \in Ones[low] <=> bit \in Ones[s] /\ bit < WordBits
    BY <2>1, OnesLow
  <2>3. s \in Int /\ p > 0
    BY <1>1
  <2>4. QED
    BY <1>1, <2>2, <2>3
<1>4. /\ WordBits \in Nat /\ WordBits - 1 \in Nat /\ (WordBits - 1) + 1 = WordBits
      /\ WordBits - 1 < WordBits /\ LongBits \in Nat /\ WordBits < LongBits
  BY Widths
<1>5. Int32(s) = Int32(low) /\ Cong(s, low, p)
  <2>1. Cong(s, low, p)
    BY <1>1, <1>2, <1>3, CongRest
  <2>2. QED
    BY <1>1, <1>3, <2>1, WordSame
<1>6. \/ WordBits - 1 \notin Ones[low] /\ low < h
      \/ WordBits - 1 \in Ones[low] /\ low >= h
  <2>1. low < 2^((WordBits - 1) + 1)
    BY <1>1, <1>3, <1>4
  <2>2. PICK b, r : b = Bit(low, WordBits - 1) /\ r = low % h
    OBVIOUS
  <2>3. r \in Nat /\ r < h /\ ((b = 0 /\ low = r) \/ (b = 1 /\ low = h + r))
    BY <1>1, <1>3, <1>4, <2>1, <2>2, TopBit DEF Bit
  <2>4. WordBits - 1 \in Ones[low] <=> b = 1
    BY <1>3, <1>4, <2>2, OnesIs
  <2>5. QED
    BY <1>1, <2>3, <2>4
<1>7. /\ Ones[s] \in SUBSET Nat /\ Ones[low] \in SUBSET Nat
      /\ \A bit \in Ones[s] : bit < LongBits
  BY <1>3, OnesIs, SlotsAre
<1>8. CASE WordBits - 1 \notin Ones[low] /\ low < h
  <2>1. low \in Ints
    BY <1>1, <1>3, <1>8
  <2>2. Int32(low) = low
    BY <1>3, <2>1, CongSame, WordIs, <1>1
  <2>3. Bits(low) = low
    BY <1>1, <1>3, CongSame, BitsOnly
  <2>4. s = Bits(Int32(s)) <=> s = low
    BY <1>5, <2>2, <2>3
  <2>5. s = low <=> Ones[s] = Ones[low]
    BY <1>3, OnesEqual
  <2>6. Ones[s] = Ones[low] <=> SignAbove(Ones[s])
    <3>1. WordBits - 1 \notin Ones[s]
      BY <1>3, <1>4, <1>8
    <3>2. ASSUME Ones[s] = Ones[low] PROVE SignAbove(Ones[s])
      BY <1>3, <1>4, <3>1, <3>2 DEF SignAbove
    <3>3. ASSUME SignAbove(Ones[s]) PROVE Ones[s] = Ones[low]
      <4>1. ASSUME NEW bit \in Nat PROVE bit \in Ones[s] <=> bit \in Ones[low]
        <5>1. bit \in Ones[s] => bit < WordBits
          BY <1>4, <1>7, <3>1, <3>3 DEF SignAbove
        <5>2. QED
          BY <1>3, <5>1
      <4>2. QED
        BY <1>7, <4>1
    <3>4. QED
      BY <3>2, <3>3
  <2>7. QED
    BY <2>4, <2>5, <2>6
<1>9. CASE WordBits - 1 \in Ones[low] /\ low >= h
  <2>1. PICK v, t : v = low - p /\ t = low + (q - p)
    OBVIOUS
  <2>2. v \in Ints /\ v \in Int
    <3>1. v \in Int /\ -h <= v /\ v <= h - 1
      <4>1. h \in Nat /\ h > 0 /\ p = 2 * h
        BY <1>1
      <4>2. low \in Nat /\ low < p /\ low >= h /\ v = low - p
        BY <1>3, <1>9, <2>1
      <4>3. QED
        BY <4>1, <4>2
    <3>2. QED
      BY <1>1, <3>1
  <2>3. Int32(low) = v
    <3>1. low = v + 1 * p
      BY <1>1, <1>3, <2>1, <2>2
    <3>2. Cong(low, v, p)
      BY <3>1 DEF Cong
    <3>3. QED
      BY <1>1, <1>3, <2>2, <3>2, WordIs
  <2>4. /\ t \in Slots
        /\ \A bit \in Nat : bit < WordBits => (bit \in Ones[t] <=> bit \in Ones[low])
        /\ \A bit \in Nat : WordBits <= bit /\ bit < LongBits => bit \in Ones[t]
    BY <1>1, <1>3, <2>1, NegativeOnes
  <2>5. Bits(v) = t
    <3>1. t = v + 1 * q
      BY <1>1, <1>3, <2>1, <2>2
    <3>2. Cong(t, v, q)
      BY <3>1 DEF Cong
    <3>3. QED
      BY <1>1, <2>2, <2>4, <3>2, BitsOnly
  <2>6. s = Bits(Int32(s)) <=> s = t
    BY <1>5, <2>3, <2>5
  <2>7. s = t <=> Ones[s] = Ones[t]
    BY <2>4, OnesEqual
  <2>8. Ones[t] \in SUBSET Nat /\ \A bit \in Ones[t] : bit < LongBits
    BY <2>4, OnesIs, SlotsAre
  <2>9. Ones[s] = Ones[t] <=> SignAbove(Ones[s])
    <3>1. WordBits - 1 \in Ones[s]
      BY <1>3, <1>4, <1>9
    <3>2. ASSUME Ones[s] = Ones[t] PROVE SignAbove(Ones[s])
      BY <2>4, <3>1, <3>2 DEF SignAbove
    <3>3. ASSUME SignAbove(Ones[s]) PROVE Ones[s] = Ones[t]
      <4>1. ASSUME NEW bit \in Nat PROVE bit \in Ones[s] <=> bit \in Ones[t]
        <5>1. CASE bit < WordBits
          BY <1>3, <2>4, <5>1
        <5>2. CASE WordBits <= bit /\ bit < LongBits
          BY <2>4, <3>1, <3>3, <5>2 DEF SignAbove
        <5>3. CASE LongBits <= bit
          <6>1. ~(bit < LongBits)
            BY <1>4, <5>3
          <6>2. QED
            BY <1>7, <2>8, <6>1
        <5>4. QED
          BY <1>4, <5>1, <5>2, <5>3
      <4>2. QED
        BY <1>7, <2>8, <4>1
    <3>4. QED
      BY <3>2, <3>3
  <2>10. QED
    BY <2>6, <2>7, <2>9
<1>10. QED
  BY <1>6, <1>8, <1>9

-----------------------------------------------------------------------------
(* What opcodes put into a slot.                                           *)

(* s is a slot of v, with its sign above the word unless it is raw. *)
Right(s, v, israw) ==
  /\ s \in Slots /\ v \in Ints
  /\ Int32(s) = v
  /\ ~israw => s = Bits(v)

LEMMA Numbers == Ints \subseteq Int /\ Slots \subseteq Nat /\ Slots \subseteq Int
BY Sizes

LEMMA OwnWord ==
  ASSUME NEW v \in Ints
  PROVE  Int32(v) = v
BY Numbers, Sizes, CongSame, WordIs

LEMMA Fresh ==
  ASSUME NEW v \in Ints
  PROVE  Right(Bits(v), v, FALSE)
<1>1. v \in Int
  BY Numbers
<1>2. Bits(v) \in Slots /\ Bits(v) \in Int /\ Cong(Bits(v), v, 2^WordBits)
  BY <1>1, BitsIs
<1>3. QED
  BY <1>2, WordIs DEF Right

(* An int that is not negative is its own slot. *)
LEMMA Plain ==
  ASSUME NEW v \in Ints, v >= 0
  PROVE  Bits(v) = v /\ Right(v, v, FALSE)
<1>1. PICK h, p, q, e \in Nat : /\ q = 2^LongBits /\ h > 0 /\ p = 2 * h /\ 2 * p <= q
                                /\ Ints = (-h)..(h - 1) /\ Slots = 0..(q - 1)
  BY Sizes
<1>2. v \in Int /\ v \in Slots
  BY <1>1
<1>3. Cong(v, v, q)
  BY <1>1, <1>2, CongSame
<1>4. v = Bits(v)
  BY <1>1, <1>2, <1>3, BitsOnly
<1>5. QED
  BY <1>4, Fresh

LEMMA ZeroRight == 0 \in Ints /\ 0 \in Slots /\ Right(0, 0, FALSE)
<1>1. PICK h, p, q, e \in Nat : h > 0 /\ q > 0 /\ Ints = (-h)..(h - 1) /\ Slots = 0..(q - 1)
  BY Sizes
<1>2. 0 \in Ints /\ 0 \in Slots /\ 0 >= 0
  BY <1>1
<1>3. Right(0, 0, FALSE)
  BY <1>2, Plain
<1>4. QED
  BY <1>2, <1>3

(* What is right is congruent. *)
LEMMA RightIs ==
  ASSUME NEW s, NEW v, NEW israw \in BOOLEAN, Right(s, v, israw)
  PROVE  /\ s \in Slots /\ s \in Int /\ s \in Nat /\ v \in Ints /\ v \in Int
         /\ Int32(s) = v /\ Cong(s, v, 2^WordBits)
         /\ ~israw => s = Bits(v) /\ Int64(s) = v /\ Cong(s, v, 2^LongBits)
<1>1. s \in Slots /\ s \in Int /\ s \in Nat /\ v \in Ints /\ v \in Int /\ Int32(s) = v
  BY Numbers DEF Right
<1>2. Cong(s, v, 2^WordBits)
  BY <1>1, WordIs
<1>3. ASSUME ~israw PROVE s = Bits(v) /\ Int64(s) = v /\ Cong(s, v, 2^LongBits)
  BY <1>1, <1>3, LongOf, BitsIs DEF Right
<1>4. QED
  BY <1>1, <1>2, <1>3

(* A number and one congruent to it as a word. *)
LEMMA WordRight ==
  ASSUME NEW u \in Int, NEW y \in Int, Cong(u, y, 2^WordBits)
  PROVE  Right(Bits(u), Int32(y), TRUE)
<1>1. Bits(u) \in Slots /\ Bits(u) \in Int /\ Cong(Bits(u), u, 2^WordBits)
  BY BitsIs
<1>2. Int32(y) \in Ints
  BY WordOf
<1>3. Int32(Bits(u)) = Int32(u) /\ Int32(u) = Int32(y)
  BY <1>1, WordSame
<1>4. QED
  BY <1>1, <1>2, <1>3 DEF Right

(* And to an int as a slot. *)
LEMMA SlotRight ==
  ASSUME NEW u \in Int, NEW v \in Ints, Cong(u, v, 2^LongBits)
  PROVE  Right(Bits(u), Int32(v), FALSE)
<1>1. v \in Int /\ 2^LongBits \in Nat
  BY Numbers, SlotsAre
<1>2. Bits(u) \in Slots /\ Bits(u) \in Int /\ Cong(Bits(u), u, 2^LongBits)
  BY BitsIs
<1>3. Cong(Bits(u), v, 2^LongBits)
  BY <1>1, <1>2, CongThen
<1>4. Bits(u) = Bits(v)
  BY <1>1, <1>2, <1>3, BitsOnly
<1>5. QED
  BY <1>4, OwnWord, Fresh

-----------------------------------------------------------------------------
(* Constants of the pool, and words as they are loaded from arrays.        *)

LEMMA WordLoaded ==
  ASSUME NEW s \in Int, NEW v \in Ints, Cong(s, v, 2^WordBits)
  PROVE  Right(s % 2^WordBits, v, v < 0)
<1>1. PICK h, p, q, e \in Nat : /\ p = 2^WordBits /\ q = 2^LongBits /\ h > 0 /\ p = 2 * h
                                /\ 2 * p <= q /\ Ints = (-h)..(h - 1) /\ Slots = 0..(q - 1)
  BY Sizes
<1>2. PICK t : t = s % p
  OBVIOUS
<1>3. p > 0 /\ v \in Int
  BY <1>1
<1>4. t \in Int /\ 0 <= t /\ t < p /\ Cong(t, s, p)
  BY <1>2, <1>3, Divide, CongRest
<1>5. t \in Slots
  BY <1>1, <1>4
<1>6. Cong(t, v, p)
  BY <1>1, <1>3, <1>4, CongThen
<1>7. Int32(t) = v
  BY <1>1, <1>4, <1>6, WordIs
<1>8. ASSUME ~(v < 0) PROVE t = Bits(v)
  <2>1. v >= 0 /\ v < p
    BY <1>1, <1>3, <1>8
  <2>2. t - v < p /\ v - t < p
    BY <1>3, <1>4, <2>1
  <2>3. t = v
    BY <1>3, <1>4, <1>6, <2>2, CongNear
  <2>4. QED
    BY <2>1, <2>3, Plain
<1>9. QED
  BY <1>1, <1>2, <1>5, <1>7, <1>8 DEF Right

-----------------------------------------------------------------------------
(* Arithmetic.                                                             *)

LEMMA Halved ==
  ASSUME NEW a \in Nat, NEW b \in Nat, b > 0
  PROVE  /\ a \div b \in Nat /\ b * (a \div b) \in Nat
         /\ b * (a \div b) <= a /\ a \div b <= a
         /\ b > 1 => 2 * (a \div b) <= a
<1>1. PICK q, r : q = a \div b /\ r = a % b
  OBVIOUS
<1>2. q \in Int /\ r \in Int /\ 0 <= r /\ r < b /\ a = q * b + r
  BY <1>1, Divide
<1>3. q >= 0
  <2>1. q <= -1 => q * b <= -b
    BY <1>2
  <2>2. q * b \in Int
    BY <1>2
  <2>3. QED
    BY <1>2, <2>1, <2>2
<1>4. b * q = q * b /\ q * b \in Int /\ q * b <= a
  BY <1>2
<1>5. q <= q * b
  BY <1>2, <1>3
<1>6. b > 1 => 2 * q <= q * b
  BY <1>2, <1>3
<1>7. QED
  BY <1>1, <1>2, <1>3, <1>4, <1>5, <1>6

LEMMA Quotients ==
  ASSUME NEW n \in Ints, NEW d \in Ints, ~Traps(n, d)
  PROVE  Quotient(n, d) \in Ints /\ n - d * Quotient(n, d) \in Ints
<1>1. PICK h, p, q, e \in Nat : h = 2^(WordBits - 1) /\ h > 0 /\ Ints = (-h)..(h - 1)
  BY Sizes
<1>2. h \in Nat /\ h > 0 /\ n \in Int /\ d \in Int /\ -h <= n /\ n < h /\ -h <= d /\ d < h
  BY <1>1
<1>3. d # 0 /\ ~(n = -h /\ d = -1)
  BY <1>1 DEF Traps
<1>4. PICK a, b : a = (IF n < 0 THEN -n ELSE n) /\ b = (IF d < 0 THEN -d ELSE d)
  OBVIOUS
<1>5. a \in Nat /\ b \in Nat /\ b > 0 /\ a <= h /\ (a = h => n = -h)
  BY <1>2, <1>3, <1>4
<1>6. PICK k : k = a \div b
  OBVIOUS
<1>7. /\ k \in Nat /\ b * k \in Nat /\ b * k <= a /\ k <= a /\ (b > 1 => 2 * k <= a)
  BY <1>5, <1>6, Halved
<1>8. Quotient(n, d) = IF (n < 0) = (d < 0) THEN k ELSE -k
  BY <1>4, <1>6 DEF Quotient
<1>9. Quotient(n, d) \in Ints
  <2>1. CASE (n < 0) = (d < 0)
    <3>1. k < h
      <4>1. CASE b > 1
        BY <1>2, <1>5, <1>7, <4>1
      <4>2. CASE b = 1 /\ a = h
        <5>1. n = -h /\ n < 0
          BY <1>2, <1>5, <4>2
        <5>2. d < 0 /\ d = -1
          BY <1>2, <1>4, <2>1, <4>2, <5>1
        <5>3. QED
          BY <1>3, <5>1, <5>2
      <4>3. CASE b = 1 /\ a < h
        BY <1>2, <1>5, <1>7, <4>3
      <4>4. QED
        BY <1>5, <1>2, <4>1, <4>2, <4>3
    <3>2. QED
      BY <1>1, <1>7, <1>8, <2>1, <3>1
  <2>2. CASE ~((n < 0) = (d < 0))
    BY <1>1, <1>5, <1>7, <1>8, <2>2
  <2>3. QED
    BY <2>1, <2>2
<1>10. n - d * Quotient(n, d) \in Ints
  <2>1. d * Quotient(n, d) = IF n < 0 THEN -(b * k) ELSE b * k
    <3>1. d * k = (IF d < 0 THEN -(b * k) ELSE b * k)
      BY <1>2, <1>4, <1>5, <1>7
    <3>2. d * (-k) = -(d * k) /\ d * k \in Int
      BY <1>2, <1>7
    <3>3. CASE (n < 0) = (d < 0)
      BY <1>8, <3>1, <3>3
    <3>4. CASE ~((n < 0) = (d < 0))
      <4>1. d * Quotient(n, d) = -(d * k)
        BY <1>8, <3>2, <3>4
      <4>2. PICK z : z = b * k
        OBVIOUS
      <4>3. z \in Int
        BY <1>7, <4>2
      <4>4. QED
        BY <3>1, <3>4, <4>1, <4>2, <4>3
    <3>5. QED
      BY <3>3, <3>4
  <2>2. PICK z, w : z = b * k /\ w = d * Quotient(n, d)
    OBVIOUS
  <2>3. z \in Nat /\ z <= a /\ w = IF n < 0 THEN -z ELSE z
    BY <1>7, <2>1, <2>2
  <2>4. n - w \in Int /\ -h <= n - w /\ n - w < h
    BY <1>2, <1>4, <2>3
  <2>5. QED
    BY <1>1, <2>2, <2>4
<1>11. QED
  BY <1>9, <1>10

-----------------------------------------------------------------------------
(* Shorter widths.                                                         *)

(* The rest by 2^n of a number, for a width below that of a word. *)
LEMMA RestIs ==
  ASSUME NEW u \in Int, NEW n \in Nat, n < WordBits
  PROVE  /\ u % 2^n \in Ints /\ u % 2^n \in Slots /\ u % 2^n >= 0 /\ u % 2^n < 2^n
         /\ u % 2^n \in Int /\ 2^n \in Nat /\ 2^n > 0
<1>1. PICK h, p, q, e \in Nat : /\ h = 2^(WordBits - 1) /\ h > 0 /\ p = 2 * h /\ 2 * p <= q
                                /\ Ints = (-h)..(h - 1) /\ Slots = 0..(q - 1)
  BY Sizes
<1>2. WordBits - 1 \in Nat /\ n <= WordBits - 1
  BY Widths
<1>3. PICK m, r : m = 2^n /\ r = u % m
  OBVIOUS
<1>4. m \in Nat /\ m > 0
  BY <1>3, Power
<1>5. m <= h
  BY <1>1, <1>2, <1>3, PowerDivides
<1>6. r \in Int /\ 0 <= r /\ r < m
  BY <1>3, <1>4, Divide
<1>7. r \in Ints /\ r \in Slots
  BY <1>1, <1>4, <1>5, <1>6
<1>8. QED
  BY <1>3, <1>4, <1>6, <1>7

LEMMA NarrowInts ==
  ASSUME NEW u \in Int, NEW n \in Nat \ {0}, n < WordBits
  PROVE  Signed(u, n) \in Ints
<1>1. PICK h, p, q, e \in Nat : h = 2^(WordBits - 1) /\ h > 0 /\ Ints = (-h)..(h - 1)
  BY Sizes
<1>2. WordBits - 1 \in Nat /\ n - 1 \in Nat /\ n - 1 <= WordBits - 1
  BY Widths
<1>3. PICK g, w : g = 2^(n - 1) /\ w = Signed(u, n)
  OBVIOUS
<1>4. g \in Nat /\ g <= h
  BY <1>1, <1>2, <1>3, Power, PowerDivides
<1>5. w \in Int /\ -g <= w /\ w < g
  BY <1>3, SignedIs
<1>6. w \in Ints
  BY <1>1, <1>4, <1>5
<1>7. QED
  BY <1>3, <1>6

(* What is congruent as a word is so in fewer bits. *)
LEMMA NarrowCong ==
  ASSUME NEW u \in Int, NEW y \in Int, NEW k \in Nat, NEW n \in Nat, n <= k, Cong(u, y, 2^k)
  PROVE  Cong(u, y, 2^n)
<1>1. k - n \in Nat /\ 2^k = 2^n * 2^(k - n)
  BY PowerDivides
<1>2. 2^n \in Nat /\ 2^(k - n) \in Nat
  BY <1>1, Power
<1>3. QED
  BY <1>1, <1>2, CongDivides

LEMMA NarrowSigned ==
  ASSUME NEW u \in Int, NEW y \in Int, NEW n \in Nat \ {0}, n < WordBits, Cong(u, y, 2^WordBits)
  PROVE  Signed(u, n) = Signed(y, n) /\ u % 2^n = y % 2^n /\ Cong(u, y, 2^n)
<1>1. Cong(u, y, 2^n)
  BY Widths, NarrowCong
<1>2. 2^n \in Nat /\ 2^n > 0
  BY Power
<1>3. u % 2^n = y % 2^n
  BY <1>1, <1>2, CongEqual
<1>4. QED
  BY <1>1, <1>3 DEF Signed

(* Where the sign of the n bits is not set, they are the value. *)
LEMMA SignedPlain ==
  ASSUME NEW u \in Int, NEW n \in Nat \ {0}, Signed(u, n) >= 0
  PROVE  Signed(u, n) = u % 2^n
<1>1. PICK p, r : p = 2^n /\ r = u % p
  OBVIOUS
<1>2. p \in Nat /\ p > 0
  BY <1>1, Power
<1>3. r \in Int /\ r < p
  BY <1>1, <1>2, Divide
<1>4. Signed(u, n) = r - p \/ Signed(u, n) = r
  BY <1>1 DEF Signed
<1>5. ~(r - p >= 0)
  BY <1>2, <1>3
<1>6. QED
  BY <1>1, <1>4, <1>5

(* i2b and the loads from byte arrays: without the sign. *)
LEMMA ByteLoaded ==
  ASSUME NEW s \in Int, NEW v \in Ints, Cong(s, v, 2^WordBits)
  PROVE  /\ s % 2^ByteBits \in Slots /\ Signed(v, ByteBits) \in Ints
         /\ ~(Signed(v, ByteBits) < 0) => Right(s % 2^ByteBits, Signed(v, ByteBits), FALSE)
<1>1. v \in Int /\ ByteBits \in Nat \ {0} /\ ByteBits \in Nat /\ ByteBits < WordBits
  BY Numbers, Widths
<1>2. Signed(v, ByteBits) \in Ints /\ s % 2^ByteBits \in Slots
  BY <1>1, NarrowInts, RestIs
<1>3. Signed(v, ByteBits) \in Int
  BY <1>2, Numbers
<1>4. ASSUME ~(Signed(v, ByteBits) < 0)
      PROVE  Right(s % 2^ByteBits, Signed(v, ByteBits), FALSE)
  <2>1. Signed(v, ByteBits) >= 0
    BY <1>3, <1>4
  <2>2. Signed(v, ByteBits) = v % 2^ByteBits
    BY <1>1, <2>1, SignedPlain
  <2>3. s % 2^ByteBits = v % 2^ByteBits
    BY <1>1, NarrowSigned
  <2>4. QED
    BY <1>2, <2>1, <2>2, <2>3, Plain
<1>5. QED
  BY <1>2, <1>4

(* i2c takes a byte for a char. *)
LEMMA CharMade ==
  ASSUME NEW s \in Int, NEW v \in Ints, Cong(s, v, 2^WordBits)
  PROVE  /\ s % 2^ByteBits \in Slots /\ v % 2^ShortBits \in Ints
         /\ ~(v % 2^ShortBits >= 2^ByteBits) => Right(s % 2^ByteBits, v % 2^ShortBits, FALSE)
<1>1. /\ v \in Int /\ ByteBits \in Nat \ {0} /\ ByteBits \in Nat /\ ByteBits < WordBits
      /\ ShortBits \in Nat \ {0} /\ ShortBits \in Nat /\ ShortBits < WordBits
      /\ ByteBits <= ShortBits
  BY Numbers, Widths
<1>2. PICK b, c, u, y, z : /\ b = 2^ByteBits /\ c = 2^ShortBits /\ u = s % b /\ y = v % b
                           /\ z = v % c
  OBVIOUS
<1>3. u \in Slots /\ y \in Int /\ y >= 0 /\ y < b /\ b \in Nat /\ b > 0
  BY <1>1, <1>2, RestIs
<1>4. z \in Ints /\ z \in Int /\ z >= 0 /\ c \in Nat /\ c > 0
  BY <1>1, <1>2, RestIs
<1>5. u = y
  BY <1>1, <1>2, NarrowSigned
<1>6. ASSUME ~(z >= b) PROVE Right(u, z, FALSE)
  <2>1. z < b
    BY <1>3, <1>4, <1>6
  <2>2. Cong(z, v, c) /\ Cong(v, y, b)
    BY <1>1, <1>2, <1>3, <1>4, CongRest
  <2>3. Cong(z, v, b)
    BY <1>1, <1>2, <1>4, <2>2, NarrowCong
  <2>4. Cong(z, y, b)
    BY <1>1, <1>3, <1>4, <2>2, <2>3, CongThen
  <2>5. z - y < b /\ y - z < b
    BY <1>3, <1>4, <2>1
  <2>6. z = y
    BY <1>3, <1>4, <2>4, <2>5, CongNear
  <2>7. QED
    BY <1>4, <1>5, <2>6, Plain
<1>7. QED
  BY <1>2, <1>3, <1>4, <1>6

(* i2s and the loads from short arrays. *)
LEMMA ShortMade ==
  ASSUME NEW s \in Int, NEW v \in Ints, Cong(s, v, 2^WordBits)
  PROVE  Right(Bits(Signed(s, ShortBits)), Signed(v, ShortBits), FALSE)
<1>1. v \in Int /\ ShortBits \in Nat \ {0} /\ ShortBits < WordBits
  BY Numbers, Widths
<1>2. Signed(s, ShortBits) = Signed(v, ShortBits) /\ Signed(v, ShortBits) \in Ints
  BY <1>1, NarrowSigned, NarrowInts
<1>3. QED
  BY <1>2, Fresh

(* The loads from char arrays. *)
LEMMA CharLoaded ==
  ASSUME NEW s \in Int, NEW v \in Ints, Cong(s, v, 2^WordBits)
  PROVE  Right(s % 2^ShortBits, v % 2^ShortBits, FALSE)
<1>1. v \in Int /\ ShortBits \in Nat \ {0} /\ ShortBits \in Nat /\ ShortBits < WordBits
  BY Numbers, Widths
<1>2. s % 2^ShortBits = v % 2^ShortBits
  BY <1>1, NarrowSigned
<1>3. v % 2^ShortBits \in Ints /\ v % 2^ShortBits >= 0
  BY <1>1, RestIs
<1>4. QED
  BY <1>2, <1>3, Plain

-----------------------------------------------------------------------------
(* Shifts and increments.                                                  *)

LEMMA Smaller ==
  ASSUME NEW v \in Int, NEW m \in Nat, m > 0
  PROVE  /\ v \div m \in Int
         /\ v >= 0 => v \div m >= 0 /\ v \div m <= v
         /\ v < 0 => v \div m < 0 /\ v \div m >= v
<1>1. PICK q, r : q = v \div m /\ r = v % m
  OBVIOUS
<1>2. q \in Int /\ r \in Int /\ 0 <= r /\ r < m /\ v = q * m + r
  BY <1>1, Divide
<1>3. q * m \in Int
  BY <1>2
<1>4. q >= 0 => q * m >= q
  BY <1>2
<1>5. q <= -1 => (q + 1) * m <= q + 1
  BY <1>2
<1>6. (q + 1) * m = q * m + m
  BY <1>2
<1>7. q >= 0 => v >= q
  BY <1>2, <1>3, <1>4
<1>8. q <= -1 => v <= q /\ v < 0
  BY <1>2, <1>3, <1>5, <1>6
<1>9. QED
  BY <1>1, <1>2, <1>7, <1>8

LEMMA ShiftedInts ==
  ASSUME NEW v \in Ints, NEW k \in Nat
  PROVE  v \div 2^k \in Ints
<1>1. PICK h, p, q, e \in Nat : h > 0 /\ Ints = (-h)..(h - 1)
  BY Sizes
<1>2. PICK m, d : m = 2^k /\ d = v \div m
  OBVIOUS
<1>3. v \in Int /\ -h <= v /\ v < h /\ m \in Nat /\ m > 0
  BY <1>1, <1>2, Power
<1>4. d \in Int /\ (v >= 0 => d >= 0 /\ d <= v) /\ (v < 0 => d < 0 /\ d >= v)
  BY <1>2, <1>3, Smaller
<1>5. d \in Ints
  BY <1>1, <1>3, <1>4
<1>6. QED
  BY <1>2, <1>5

LEMMA ShiftedLeft ==
  ASSUME NEW s, NEW v, NEW israw \in BOOLEAN, Right(s, v, israw), NEW k \in Nat
  PROVE  Right(Bits(s * 2^k), Int32(v * 2^k), israw \/ v * 2^k \notin Ints)
<1>1. /\ s \in Int /\ v \in Int /\ Cong(s, v, 2^WordBits)
      /\ ~israw => Cong(s, v, 2^LongBits)
  BY RightIs
<1>2. 2^k \in Nat /\ 2^k \in Int /\ 2^WordBits \in Nat /\ 2^LongBits \in Nat
  BY Power, Widths
<1>3. PICK u, y : u = s * 2^k /\ y = v * 2^k
  OBVIOUS
<1>4. u \in Int /\ y \in Int
  BY <1>1, <1>2, <1>3
<1>5. Right(Bits(u), Int32(y), TRUE)
  BY <1>1, <1>2, <1>3, <1>4, CongTimes, WordRight
<1>6. ASSUME ~israw, y \in Ints PROVE Right(Bits(u), Int32(y), FALSE)
  BY <1>1, <1>2, <1>3, <1>4, <1>6, CongTimes, SlotRight
<1>7. QED
  BY <1>3, <1>5, <1>6 DEF Right

LEMMA Incremented ==
  ASSUME NEW s, NEW v, NEW israw \in BOOLEAN, Right(s, v, israw), NEW c \in Int
  PROVE  Right(Bits(s + c), Int32(v + c), israw \/ v + c \notin Ints)
<1>1. /\ s \in Int /\ v \in Int /\ Cong(s, v, 2^WordBits)
      /\ ~israw => Cong(s, v, 2^LongBits)
  BY RightIs
<1>2. 2^WordBits \in Nat /\ 2^LongBits \in Nat
  BY Power, Widths
<1>3. PICK u, y : u = s + c /\ y = v + c
  OBVIOUS
<1>4. u \in Int /\ y \in Int
  BY <1>1, <1>2, <1>3
<1>5. Right(Bits(u), Int32(y), TRUE)
  BY <1>1, <1>2, <1>3, <1>4, CongSum, WordRight
<1>6. ASSUME ~israw, y \in Ints PROVE Right(Bits(u), Int32(y), FALSE)
  BY <1>1, <1>2, <1>3, <1>4, <1>6, CongSum, SlotRight
<1>7. QED
  BY <1>3, <1>5, <1>6 DEF Right

LEMMA NotShifted ==
  ASSUME NEW u \in Int
  PROVE  u \div 2^0 = u
<1>1. u = u * 1 + 0 /\ 2^0 = 1 /\ 0 < 1
  BY PowerZero
<1>2. u \div 1 = u
  BY <1>1, IsDivision
<1>3. QED
  BY <1>1, <1>2

(* A shift to the right is right when the sign is above the word, or when  *)
(* nothing is shifted.                                                     *)
LEMMA ShiftedRight ==
  ASSUME NEW s, NEW v, NEW israw \in BOOLEAN, Right(s, v, israw), NEW k \in Nat,
         ~(israw /\ k > 0)
  PROVE  Right(Bits(Int64(s) \div 2^k), v \div 2^k, israw)
<1>1. /\ s \in Slots /\ s \in Int /\ v \in Ints /\ v \in Int
      /\ ~israw => Int64(s) = v
  BY RightIs
<1>2. CASE ~israw
  <2>1. v \div 2^k \in Ints
    BY <1>1, ShiftedInts
  <2>2. QED
    BY <1>1, <1>2, <2>1, Fresh DEF Right
<1>3. CASE k = 0
  <2>1. Int64(s) \in Int /\ Cong(Int64(s), s, 2^LongBits) /\ 2^LongBits \in Nat
    BY <1>1, LongIs, SlotsAre
  <2>2. Int64(s) \div 2^k = Int64(s) /\ v \div 2^k = v
    BY <1>1, <1>3, <2>1, NotShifted
  <2>3. s = Bits(Int64(s))
    BY <1>1, <2>1, CongBack, BitsOnly
  <2>4. QED
    BY <2>2, <2>3
<1>4. QED
  BY <1>2, <1>3

(* An unsigned shift is that of a number that is not negative.             *)
LEMMA ShiftedUnsigned ==
  ASSUME NEW s, NEW v, NEW israw \in BOOLEAN, Right(s, v, israw), NEW k \in Nat,
         ~((israw \/ v < 0) /\ k > 0)
  PROVE  Right(Bits(Int64(s) \div 2^k), Int32((v % 2^WordBits) \div 2^k), israw)
<1>1. v \in Ints /\ v \in Int
  BY RightIs
<1>2. Right(Bits(Int64(s) \div 2^k), v \div 2^k, israw)
  BY ShiftedRight
<1>3. PICK h, p, q, e \in Nat : p = 2^WordBits /\ h > 0 /\ p = 2 * h /\ Ints = (-h)..(h - 1)
  BY Sizes
<1>4. PICK r : r = v % p
  OBVIOUS
<1>5. p > 0 /\ r \in Int /\ 0 <= r /\ r < p /\ Cong(r, v, p)
  <2>1. p \in Nat /\ p > 0 /\ v \in Int
    BY <1>1, <1>3
  <2>2. v % p \in Int /\ 0 <= v % p /\ v % p < p
    BY <2>1, Divide
  <2>3. Cong(v % p, v, p)
    BY <2>1, CongRest
  <2>4. QED
    BY <1>4, <2>1, <2>2, <2>3
<1>6. Int32(r \div 2^k) = v \div 2^k
  <2>1. CASE k = 0
    <3>1. r \div 2^k = r /\ v \div 2^k = v
      BY <1>1, <1>5, <2>1, NotShifted
    <3>2. Int32(r) = v
      BY <1>1, <1>3, <1>5, WordIs
    <3>3. QED
      BY <3>1, <3>2
  <2>2. CASE ~(v < 0)
    <3>1. v >= 0 /\ v < p
      BY <1>1, <1>3, <2>2
    <3>2. r - v < p /\ v - r < p
      BY <1>1, <1>5, <3>1
    <3>3. r = v
      BY <1>1, <1>5, <3>2, CongNear
    <3>4. v \div 2^k \in Ints
      BY <1>1, ShiftedInts
    <3>5. QED
      BY <3>3, <3>4, OwnWord
  <2>3. QED
    BY <2>1, <2>2
<1>7. QED
  BY <1>2, <1>3, <1>4, <1>6

-----------------------------------------------------------------------------
(* iand, ior and ixor.                                                     *)

LEMMA JoinsAre ==
  ASSUME NEW s \in Slots, NEW t \in Slots
  PROVE  /\ And(s, t) \in Slots /\ Ones[And(s, t)] = Ones[s] \cap Ones[t]
         /\ Or(s, t) \in Slots /\ Ones[Or(s, t)] = Ones[s] \cup Ones[t]
         /\ Xor(s, t) \in Slots
         /\ Ones[Xor(s, t)] = (Ones[s] \ Ones[t]) \cup (Ones[t] \ Ones[s])
<1>1. Ones[s] \in SUBSET Places /\ Ones[t] \in SUBSET Places
  BY OnesIs
<1>2. /\ Ones[s] \cap Ones[t] \in SUBSET Places /\ Ones[s] \cup Ones[t] \in SUBSET Places
      /\ (Ones[s] \ Ones[t]) \cup (Ones[t] \ Ones[s]) \in SUBSET Places
  BY <1>1
<1>3. QED
  BY <1>2, WithOnesIs DEF And, Or, Xor

(* The bits of a word in a slot, and of the word alone. *)
LEMMA WordOnes ==
  ASSUME NEW s, NEW v, NEW israw \in BOOLEAN, Right(s, v, israw)
  PROVE  /\ v % 2^WordBits \in Slots
         /\ \A bit \in Nat : bit < WordBits => (bit \in Ones[v % 2^WordBits] <=> bit \in Ones[s])
         /\ ~israw => SignAbove(Ones[s])
<1>1. s \in Slots /\ s \in Int /\ v \in Int /\ Int32(s) = v /\ Cong(s, v, 2^WordBits)
  BY RightIs
<1>2. 2^WordBits \in Nat /\ 2^WordBits > 0
  BY Widths, Power
<1>3. s % 2^WordBits = v % 2^WordBits
  BY <1>1, <1>2, CongEqual
<1>4. ~israw => SignAbove(Ones[s])
  BY <1>1, SignIs DEF Right
<1>5. QED
  BY <1>1, <1>3, <1>4, OnesLow

(* r joins the bits of s and t in some way, and z those of the words. *)
LEMMA JoinRight ==
  ASSUME NEW r \in Slots, NEW z \in Slots, NEW israw \in BOOLEAN,
         \A bit \in Nat : bit < WordBits => (bit \in Ones[r] <=> bit \in Ones[z]),
         ~israw => SignAbove(Ones[r])
  PROVE  Right(r, Int32(z), israw)
<1>1. Int32(r) = Int32(z)
  BY WordAlike
<1>2. Int32(z) \in Ints
  BY Numbers, WordOf
<1>3. ASSUME ~israw PROVE r = Bits(Int32(r))
  BY <1>3, SignIs
<1>4. QED
  BY <1>1, <1>2, <1>3 DEF Right

LEMMA Joined ==
  ASSUME NEW s, NEW v, NEW p \in BOOLEAN, Right(s, v, p),
         NEW t, NEW w, NEW q \in BOOLEAN, Right(t, w, q),
         NEW u, u = v % 2^WordBits, NEW y, y = w % 2^WordBits,
         NEW israw \in BOOLEAN, ~israw => ~p /\ ~q
  PROVE  /\ Right(And(s, t), Int32(And(u, y)), israw)
         /\ Right(Or(s, t), Int32(Or(u, y)), israw)
         /\ Right(Xor(s, t), Int32(Xor(u, y)), israw)
<1>1. /\ s \in Slots /\ u \in Slots /\ t \in Slots /\ y \in Slots
      /\ \A bit \in Nat : bit < WordBits => (bit \in Ones[u] <=> bit \in Ones[s])
      /\ \A bit \in Nat : bit < WordBits => (bit \in Ones[y] <=> bit \in Ones[t])
      /\ ~p => SignAbove(Ones[s])
      /\ ~q => SignAbove(Ones[t])
  BY RightIs, WordOnes
<1>2. PICK a, b : a = Ones[s] /\ b = Ones[t]
  OBVIOUS
<1>3. ASSUME SignAbove(a), SignAbove(b)
      PROVE  SignAbove(a \cap b) /\ SignAbove(a \cup b) /\ SignAbove((a \ b) \cup (b \ a))
  BY <1>3 DEF SignAbove
<1>4. ~israw => SignAbove(a) /\ SignAbove(b)
  BY <1>1, <1>2
<1>5. Right(And(s, t), Int32(And(u, y)), israw)
  <2>1. \A bit \in Nat : bit < WordBits => (bit \in Ones[And(s, t)] <=> bit \in Ones[And(u, y)])
    BY <1>1, JoinsAre
  <2>2. ~israw => SignAbove(Ones[And(s, t)])
    BY <1>1, <1>2, <1>3, <1>4, JoinsAre
  <2>3. And(s, t) \in Slots /\ And(u, y) \in Slots
    BY <1>1, JoinsAre
  <2>4. QED
    BY <2>1, <2>2, <2>3, JoinRight
<1>6. Right(Or(s, t), Int32(Or(u, y)), israw)
  <2>1. \A bit \in Nat : bit < WordBits => (bit \in Ones[Or(s, t)] <=> bit \in Ones[Or(u, y)])
    BY <1>1, JoinsAre
  <2>2. ~israw => SignAbove(Ones[Or(s, t)])
    BY <1>1, <1>2, <1>3, <1>4, JoinsAre
  <2>3. Or(s, t) \in Slots /\ Or(u, y) \in Slots
    BY <1>1, JoinsAre
  <2>4. QED
    BY <2>1, <2>2, <2>3, JoinRight
<1>7. Right(Xor(s, t), Int32(Xor(u, y)), israw)
  <2>1. \A bit \in Nat : bit < WordBits => (bit \in Ones[Xor(s, t)] <=> bit \in Ones[Xor(u, y)])
    BY <1>1, JoinsAre
  <2>2. ~israw => SignAbove(Ones[Xor(s, t)])
    BY <1>1, <1>2, <1>3, <1>4, JoinsAre
  <2>3. Xor(s, t) \in Slots /\ Xor(u, y) \in Slots
    BY <1>1, JoinsAre
  <2>4. QED
    BY <2>1, <2>2, <2>3, JoinRight
<1>8. QED
  BY <1>5, <1>6, <1>7

-----------------------------------------------------------------------------
(* The state.                                                              *)

SlotInv == IntTypeOK /\ Exact

LEMMA SlotIs ==
  ASSUME SlotInv, NEW r \in Reg, ~off[r]
  PROVE  Right(slot[r], java[r], raw[r]) /\ raw[r] \in BOOLEAN
BY DEF SlotInv, IntTypeOK, Exact, Right

(* What a place may be given. *)
Fits(s, v, israw, isoff) ==
  /\ s \in Slots /\ v \in Ints /\ israw \in BOOLEAN /\ isoff \in BOOLEAN
  /\ ~isoff => Right(s, v, israw)

LEMMA PutKeeps ==
  ASSUME SlotInv, NEW r \in Reg, NEW s, NEW v, NEW israw, NEW isoff,
         Fits(s, v, israw, isoff), Put(r, s, v, israw, isoff)
  PROVE  SlotInv'
<1>1. IntTypeOK'
  BY DEF SlotInv, IntTypeOK, Fits, Put
<1>2. ASSUME NEW q \in Reg, ~off'[q]
      PROVE  Int32(slot'[q]) = java'[q] /\ (~raw'[q] => slot'[q] = Bits(java'[q]))
  <2>1. CASE q = r
    <3>1. slot'[q] = s /\ java'[q] = v /\ raw'[q] = israw /\ off'[q] = isoff
      BY <2>1 DEF SlotInv, IntTypeOK, Put
    <3>2. Right(s, v, israw)
      BY <1>2, <3>1 DEF Fits
    <3>3. QED
      BY <3>1, <3>2 DEF Right
  <2>2. CASE q # r
    <3>1. slot'[q] = slot[q] /\ java'[q] = java[q] /\ raw'[q] = raw[q] /\ off'[q] = off[q]
      BY <2>2 DEF SlotInv, IntTypeOK, Put
    <3>2. QED
      BY <1>2, <3>1 DEF SlotInv, Exact
  <2>3. QED
    BY <2>1, <2>2
<1>3. QED
  BY <1>1, <1>2 DEF SlotInv, Exact, Int32, Signed, Bits

(* The process ends, or nothing happens. *)
LEMMA SameKeeps ==
  ASSUME SlotInv, UNCHANGED <<slot, java, raw, off>>,
         outcome' \in {"running", "exit3", "outside", "trap"}
  PROVE  SlotInv'
BY DEF SlotInv, IntTypeOK, Exact, Int32, Signed, Bits

(* What is right also fits, marked as off or not. *)
LEMMA RightFits ==
  ASSUME NEW s, NEW v, NEW israw \in BOOLEAN, Right(s, v, israw), NEW isoff \in BOOLEAN
  PROVE  Fits(s, v, israw, isoff)
BY DEF Right, Fits

LEMMA WordCong ==
  ASSUME NEW s \in Int, NEW v \in Ints, Int32(s) = v
  PROVE  Cong(s, v, 2^WordBits)
BY WordIs

-----------------------------------------------------------------------------
(* One lemma for each action.                                              *)

LEMMA StepConst ==
  ASSUME SlotInv, NEW r \in Reg, Const(r)
  PROVE  SlotInv'
<1>1. PICK v \in Shorts : Put(r, Bits(v), v, FALSE, FALSE)
  BY DEF Const
<1>2. v \in Ints
  <2>1. 2^(ShortBits - 1) <= 2^(WordBits - 1) /\ 2^(ShortBits - 1) \in Nat
        /\ 2^(WordBits - 1) \in Nat
    <3>1. /\ ShortBits - 1 \in Nat /\ WordBits - 1 \in Nat
          /\ ShortBits - 1 <= WordBits - 1
      BY Widths
    <3>2. QED
      BY <3>1, PowerDivides, Power
  <2>2. QED
    BY <2>1 DEF Shorts, Ints
<1>3. Fits(Bits(v), v, FALSE, FALSE)
  BY <1>2, Fresh, RightFits
<1>4. QED
  BY <1>1, <1>3, PutKeeps

LEMMA StepLdc ==
  ASSUME SlotInv, NEW r \in Reg, Ldc(r)
  PROVE  SlotInv'
<1>1. PICK v \in Ints : Put(r, v % 2^WordBits, v, v < 0, FALSE)
  BY DEF Ldc
<1>2. v \in Int /\ 2^WordBits \in Nat
  BY Numbers, Widths, Power
<1>3. Right(v % 2^WordBits, v, v < 0)
  BY <1>2, CongSame, WordLoaded
<1>4. Fits(v % 2^WordBits, v, v < 0, FALSE)
  <2>1. (v < 0) \in BOOLEAN
    BY <1>2
  <2>2. QED
    BY <1>3, <2>1, RightFits
<1>5. QED
  BY <1>1, <1>4, PutKeeps

LEMMA StepCopy ==
  ASSUME SlotInv, NEW r \in Reg, NEW a \in Reg, Copy(r, a)
  PROVE  SlotInv'
<1>1. Put(r, slot[a], java[a], raw[a], FALSE) /\ ~off[a]
  BY DEF Copy, Usable
<1>2. Fits(slot[a], java[a], raw[a], FALSE)
  BY <1>1, SlotIs, RightFits
<1>3. QED
  BY <1>1, <1>2, PutKeeps

(* The words of usable operands. *)
LEMMA Operand ==
  ASSUME SlotInv, NEW a \in Reg, Usable(a)
  PROVE  /\ Right(slot[a], java[a], raw[a]) /\ raw[a] \in BOOLEAN
         /\ slot[a] \in Slots /\ slot[a] \in Nat /\ slot[a] \in Int
         /\ java[a] \in Ints /\ java[a] \in Int /\ Int32(slot[a]) = java[a]
         /\ Cong(slot[a], java[a], 2^WordBits)
<1>1. Right(slot[a], java[a], raw[a]) /\ raw[a] \in BOOLEAN
  BY SlotIs DEF Usable
<1>2. QED
  BY <1>1, RightIs

(* A word computed from words. *)
LEMMA WordFits ==
  ASSUME NEW u \in Int
  PROVE  Fits(Bits(Int32(u)), Int32(u), FALSE, FALSE)
<1>1. Int32(u) \in Ints
  BY WordOf
<1>2. QED
  BY <1>1, Fresh, RightFits

LEMMA StepIadd ==
  ASSUME SlotInv, NEW a \in Reg, NEW b \in Reg, Iadd(a, b)
  PROVE  SlotInv'
<1>1. Usable(a) /\ Usable(b)
  BY DEF Iadd
<1>2. PICK u : u = java[a] + java[b]
  OBVIOUS
<1>3. u \in Int /\ Put(a, Bits(Int32(u)), Int32(u), FALSE, FALSE)
  <2>1. /\ java[a] \in Int /\ java[b] \in Int
        /\ Int32(slot[a]) = java[a] /\ Int32(slot[b]) = java[b]
    BY <1>1, Operand
  <2>2. u \in Int
    BY <1>2, <2>1
  <2>3. Put(a, Bits(Int32(Int32(slot[a]) + Int32(slot[b]))), Int32(u), FALSE, FALSE)
    BY <1>2 DEF Iadd
  <2>4. QED
    BY <1>2, <2>1, <2>2, <2>3
<1>4. QED
  BY <1>3, WordFits, PutKeeps

LEMMA StepIsub ==
  ASSUME SlotInv, NEW a \in Reg, NEW b \in Reg, Isub(a, b)
  PROVE  SlotInv'
<1>1. Usable(a) /\ Usable(b)
  BY DEF Isub
<1>2. PICK u : u = java[a] - java[b]
  OBVIOUS
<1>3. u \in Int /\ Put(a, Bits(Int32(u)), Int32(u), FALSE, FALSE)
  <2>1. /\ java[a] \in Int /\ java[b] \in Int
        /\ Int32(slot[a]) = java[a] /\ Int32(slot[b]) = java[b]
    BY <1>1, Operand
  <2>2. u \in Int
    BY <1>2, <2>1
  <2>3. Put(a, Bits(Int32(Int32(slot[a]) - Int32(slot[b]))), Int32(u), FALSE, FALSE)
    BY <1>2 DEF Isub
  <2>4. QED
    BY <1>2, <2>1, <2>2, <2>3
<1>4. QED
  BY <1>3, WordFits, PutKeeps

LEMMA StepImul ==
  ASSUME SlotInv, NEW a \in Reg, NEW b \in Reg, Imul(a, b)
  PROVE  SlotInv'
<1>1. Usable(a) /\ Usable(b)
  BY DEF Imul
<1>2. PICK u : u = java[a] * java[b]
  OBVIOUS
<1>3. u \in Int /\ Put(a, Bits(Int32(u)), Int32(u), FALSE, FALSE)
  <2>1. /\ java[a] \in Int /\ java[b] \in Int
        /\ Int32(slot[a]) = java[a] /\ Int32(slot[b]) = java[b]
    BY <1>1, Operand
  <2>2. u \in Int
    BY <1>2, <2>1
  <2>3. Put(a, Bits(Int32(Int32(slot[a]) * Int32(slot[b]))), Int32(u), FALSE, FALSE)
    BY <1>2 DEF Imul
  <2>4. QED
    BY <1>2, <2>1, <2>2, <2>3
<1>4. QED
  BY <1>3, WordFits, PutKeeps

LEMMA StepIdiv ==
  ASSUME SlotInv, NEW a \in Reg, NEW b \in Reg, Idiv(a, b)
  PROVE  SlotInv'
<1>1. Usable(a) /\ Usable(b)
  BY DEF Idiv
<1>2. PICK n, d, u : n = java[a] /\ d = java[b] /\ u = Quotient(n, d)
  OBVIOUS
<1>3. ~Traps(n, d) /\ Put(a, Bits(u), u, FALSE, FALSE) /\ n \in Ints /\ d \in Ints
  BY <1>1, <1>2, Operand DEF Idiv
<1>4. u \in Ints
  BY <1>2, <1>3, Quotients
<1>5. Fits(Bits(u), u, FALSE, FALSE)
  BY <1>4, Fresh, RightFits
<1>6. QED
  BY <1>3, <1>5, PutKeeps

LEMMA StepIrem ==
  ASSUME SlotInv, NEW a \in Reg, NEW b \in Reg, Irem(a, b)
  PROVE  SlotInv'
<1>1. Usable(a) /\ Usable(b)
  BY DEF Irem
<1>2. PICK n, d, u : n = java[a] /\ d = java[b] /\ u = n - d * Quotient(n, d)
  OBVIOUS
<1>3. ~Traps(n, d) /\ Put(a, Bits(u), u, FALSE, FALSE) /\ n \in Ints /\ d \in Ints
  BY <1>1, <1>2, Operand DEF Irem
<1>4. u \in Ints
  BY <1>2, <1>3, Quotients
<1>5. Fits(Bits(u), u, FALSE, FALSE)
  BY <1>4, Fresh, RightFits
<1>6. QED
  BY <1>3, <1>5, PutKeeps

LEMMA StepTrap ==
  ASSUME SlotInv, NEW a \in Reg, NEW b \in Reg, Trap(a, b)
  PROVE  SlotInv'
BY SameKeeps DEF Trap

LEMMA StepIandOrXor ==
  ASSUME SlotInv, NEW a \in Reg, NEW b \in Reg, IandOrXor(a, b)
  PROVE  SlotInv'
<1>1. Usable(a) /\ Usable(b)
  BY DEF IandOrXor
<1>2. PICK s, t, v, w, p, q, u, y, israw :
        /\ s = slot[a] /\ t = slot[b] /\ v = java[a] /\ w = java[b] /\ p = raw[a] /\ q = raw[b]
        /\ u = v % 2^WordBits /\ y = w % 2^WordBits /\ israw = (p \/ q)
  OBVIOUS
<1>3. /\ Right(s, v, p) /\ p \in BOOLEAN
      /\ Right(t, w, q) /\ q \in BOOLEAN
  BY <1>1, <1>2, Operand
<1>4. israw \in BOOLEAN /\ (~israw => ~p /\ ~q)
  BY <1>2, <1>3
<1>5. /\ Right(And(s, t), Int32(And(u, y)), israw)
      /\ Right(Or(s, t), Int32(Or(u, y)), israw)
      /\ Right(Xor(s, t), Int32(Xor(u, y)), israw)
  BY <1>2, <1>3, <1>4, Joined
<1>6. /\ Fits(And(s, t), Int32(And(u, y)), israw, FALSE)
      /\ Fits(Or(s, t), Int32(Or(u, y)), israw, FALSE)
      /\ Fits(Xor(s, t), Int32(Xor(u, y)), israw, FALSE)
  BY <1>5, <1>4, RightFits
<1>7. \/ Put(a, And(s, t), Int32(And(u, y)), israw, FALSE)
      \/ Put(a, Or(s, t), Int32(Or(u, y)), israw, FALSE)
      \/ Put(a, Xor(s, t), Int32(Xor(u, y)), israw, FALSE)
  BY <1>2 DEF IandOrXor
<1>8. QED
  BY <1>6, <1>7, PutKeeps

LEMMA StepIneg ==
  ASSUME SlotInv, NEW a \in Reg, Ineg(a)
  PROVE  SlotInv'
<1>1. Usable(a) /\ Put(a, Bits(-Int64(slot[a]) - 1), Int32(-java[a]), raw[a], TRUE)
  BY DEF Ineg
<1>2. raw[a] \in BOOLEAN /\ slot[a] \in Int /\ java[a] \in Int
  BY <1>1, Operand
<1>3. Int64(slot[a]) \in Int
  BY <1>2, LongIs
<1>4. Bits(-Int64(slot[a]) - 1) \in Slots /\ Int32(-java[a]) \in Ints
  BY <1>2, <1>3, BitsIs, WordOf
<1>5. QED
  BY <1>1, <1>2, <1>4, PutKeeps DEF Fits

LEMMA DistancesAre ==
  ASSUME NEW b, slot[b] \in Int, java[b] \in Int
  PROVE  Far(b) \in Nat /\ Distance(b) \in Nat
<1>1. LongBits \in Nat /\ LongBits > 0 /\ WordBits \in Nat /\ WordBits > 0
  BY Widths
<1>2. QED
  BY <1>1, Divide DEF Far, Distance

LEMMA ShiftedSlots ==
  ASSUME NEW s \in Int, NEW k \in Nat
  PROVE  Bits(Int64(s) \div 2^k) \in Slots
<1>1. Int64(s) \in Int /\ 2^k \in Nat /\ 2^k > 0
  BY LongIs, Power
<1>2. Int64(s) \div 2^k \in Int
  BY <1>1, Divide
<1>3. QED
  BY <1>2, BitsIs

LEMMA StepIshl ==
  ASSUME SlotInv, NEW a \in Reg, NEW b \in Reg, Ishl(a, b)
  PROVE  SlotInv'
<1>1. Usable(a) /\ Usable(b)
  BY DEF Ishl
<1>2. PICK s, v, p, k, l : /\ s = slot[a] /\ v = java[a] /\ p = raw[a]
                           /\ k = Far(b) /\ l = Distance(b)
  OBVIOUS
<1>3. Right(s, v, p) /\ p \in BOOLEAN /\ s \in Int /\ v \in Int
  BY <1>1, <1>2, Operand
<1>4. k \in Nat /\ l \in Nat
  BY <1>1, <1>2, Operand, DistancesAre
<1>5. 2^k \in Nat /\ 2^l \in Nat
  BY <1>4, Power
<1>6. (p \/ v * 2^k \notin Ints) \in BOOLEAN /\ TooFar(b) \in BOOLEAN
  BY <1>3 DEF TooFar
<1>7. Bits(s * 2^k) \in Slots /\ Int32(v * 2^l) \in Ints
  BY <1>3, <1>5, BitsIs, WordOf
<1>8. ~TooFar(b) => Right(Bits(s * 2^k), Int32(v * 2^l), p \/ v * 2^k \notin Ints)
  <2>1. ~TooFar(b) => k = l
    BY <1>2 DEF TooFar
  <2>2. Right(Bits(s * 2^k), Int32(v * 2^k), p \/ v * 2^k \notin Ints)
    BY <1>3, <1>4, ShiftedLeft
  <2>3. QED
    BY <2>1, <2>2
<1>9. Put(a, Bits(s * 2^k), Int32(v * 2^l), p \/ v * 2^k \notin Ints, TooFar(b))
  BY <1>2 DEF Ishl
<1>10. QED
  BY <1>6, <1>7, <1>8, <1>9, PutKeeps DEF Fits

LEMMA StepIshr ==
  ASSUME SlotInv, NEW a \in Reg, NEW b \in Reg, Ishr(a, b)
  PROVE  SlotInv'
<1>1. Usable(a) /\ Usable(b)
  BY DEF Ishr
<1>2. PICK s, v, p, k, l : /\ s = slot[a] /\ v = java[a] /\ p = raw[a]
                           /\ k = Far(b) /\ l = Distance(b)
  OBVIOUS
<1>3. Right(s, v, p) /\ p \in BOOLEAN /\ s \in Int /\ v \in Ints
  BY <1>1, <1>2, Operand
<1>4. k \in Nat /\ l \in Nat
  BY <1>1, <1>2, Operand, DistancesAre
<1>5. (TooFar(b) \/ (p /\ k > 0)) \in BOOLEAN
  BY <1>3, <1>4 DEF TooFar
<1>6. Bits(Int64(s) \div 2^k) \in Slots /\ v \div 2^l \in Ints
  BY <1>3, <1>4, ShiftedSlots, ShiftedInts
<1>7. ~(TooFar(b) \/ (p /\ k > 0)) => Right(Bits(Int64(s) \div 2^k), v \div 2^l, p)
  <2>1. ~TooFar(b) => k = l
    BY <1>2 DEF TooFar
  <2>2. ~(p /\ k > 0) => Right(Bits(Int64(s) \div 2^k), v \div 2^k, p)
    BY <1>3, <1>4, ShiftedRight
  <2>3. QED
    BY <2>1, <2>2
<1>8. Put(a, Bits(Int64(s) \div 2^k), v \div 2^l, p, TooFar(b) \/ (p /\ k > 0))
  BY <1>2 DEF Ishr
<1>9. QED
  BY <1>3, <1>5, <1>6, <1>7, <1>8, PutKeeps DEF Fits

LEMMA StepIushr ==
  ASSUME SlotInv, NEW a \in Reg, NEW b \in Reg, Iushr(a, b)
  PROVE  SlotInv'
<1>1. Usable(a) /\ Usable(b)
  BY DEF Iushr
<1>2. PICK s, v, p, k, l : /\ s = slot[a] /\ v = java[a] /\ p = raw[a]
                           /\ k = Far(b) /\ l = Distance(b)
  OBVIOUS
<1>3. Right(s, v, p) /\ p \in BOOLEAN /\ s \in Int /\ v \in Int
  BY <1>1, <1>2, Operand
<1>4. k \in Nat /\ l \in Nat
  BY <1>1, <1>2, Operand, DistancesAre
<1>5. (TooFar(b) \/ ((p \/ v < 0) /\ k > 0)) \in BOOLEAN
  BY <1>3, <1>4 DEF TooFar
<1>6. Bits(Int64(s) \div 2^k) \in Slots
  BY <1>3, <1>4, ShiftedSlots
<1>7. Int32((v % 2^WordBits) \div 2^l) \in Ints
  <2>1. 2^WordBits \in Nat /\ 2^WordBits > 0 /\ 2^l \in Nat /\ 2^l > 0
    BY <1>4, Widths, Power
  <2>2. v % 2^WordBits \in Int
    BY <1>3, <2>1, Divide
  <2>3. (v % 2^WordBits) \div 2^l \in Int
    BY <2>1, <2>2, Divide
  <2>4. QED
    BY <2>3, WordOf
<1>8. ~(TooFar(b) \/ ((p \/ v < 0) /\ k > 0)) =>
        Right(Bits(Int64(s) \div 2^k), Int32((v % 2^WordBits) \div 2^l), p)
  <2>1. ~TooFar(b) => k = l
    BY <1>2 DEF TooFar
  <2>2. ~((p \/ v < 0) /\ k > 0) =>
          Right(Bits(Int64(s) \div 2^k), Int32((v % 2^WordBits) \div 2^k), p)
    BY <1>3, <1>4, ShiftedUnsigned
  <2>3. QED
    BY <2>1, <2>2
<1>9. Put(a, Bits(Int64(s) \div 2^k), Int32((v % 2^WordBits) \div 2^l), p,
          TooFar(b) \/ ((p \/ v < 0) /\ k > 0))
  BY <1>2 DEF Iushr
<1>10. QED
  BY <1>3, <1>5, <1>6, <1>7, <1>8, <1>9, PutKeeps DEF Fits

LEMMA StepIinc ==
  ASSUME SlotInv, NEW r \in Reg, Iinc(r)
  PROVE  SlotInv'
<1>1. Usable(r)
  BY DEF Iinc
<1>2. PICK c \in Bytes : Put(r, Bits(slot[r] + c), Int32(java[r] + c),
                             raw[r] \/ java[r] + c \notin Ints, FALSE)
  BY DEF Iinc
<1>3. c \in Int
  BY DEF Bytes
<1>4. Right(slot[r], java[r], raw[r]) /\ raw[r] \in BOOLEAN
  BY <1>1, Operand
<1>5. Right(Bits(slot[r] + c), Int32(java[r] + c), raw[r] \/ java[r] + c \notin Ints)
  BY <1>3, <1>4, Incremented
<1>6. (raw[r] \/ java[r] + c \notin Ints) \in BOOLEAN
  BY <1>4
<1>7. Fits(Bits(slot[r] + c), Int32(java[r] + c), raw[r] \/ java[r] + c \notin Ints, FALSE)
  BY <1>5, <1>6, RightFits
<1>8. QED
  BY <1>2, <1>7, PutKeeps

(* A byte is stored, and loaded or kept as an unsigned number. *)
LEMMA ByteFits ==
  ASSUME SlotInv, NEW a \in Reg, Usable(a)
  PROVE  Fits(slot[a] % 2^ByteBits, Signed(java[a], ByteBits), FALSE,
              Signed(java[a], ByteBits) < 0)
<1>1. PICK u, y : u = slot[a] % 2^ByteBits /\ y = Signed(java[a], ByteBits)
  OBVIOUS
<1>2. u \in Slots /\ y \in Ints /\ (~(y < 0) => Right(u, y, FALSE))
  BY <1>1, Operand, ByteLoaded
<1>3. (y < 0) \in BOOLEAN
  BY <1>2, Numbers
<1>4. QED
  BY <1>1, <1>2, <1>3 DEF Fits

LEMMA ShortFits ==
  ASSUME SlotInv, NEW a \in Reg, Usable(a)
  PROVE  Fits(Bits(Signed(slot[a], ShortBits)), Signed(java[a], ShortBits), FALSE, FALSE)
BY Operand, ShortMade, RightFits

LEMMA StepI2b ==
  ASSUME SlotInv, NEW a \in Reg, I2b(a)
  PROVE  SlotInv'
BY ByteFits, PutKeeps DEF I2b

LEMMA StepI2c ==
  ASSUME SlotInv, NEW a \in Reg, I2c(a)
  PROVE  SlotInv'
<1>1. Usable(a) /\ Put(a, slot[a] % 2^ByteBits, java[a] % 2^ShortBits, FALSE,
                       java[a] % 2^ShortBits >= 2^ByteBits)
  BY DEF I2c
<1>2. PICK u, y, z : /\ u = slot[a] % 2^ByteBits /\ y = java[a] % 2^ShortBits
                     /\ z = (y >= 2^ByteBits)
  OBVIOUS
<1>3. u \in Slots /\ y \in Ints /\ (~z => Right(u, y, FALSE))
  BY <1>1, <1>2, Operand, CharMade
<1>4. z \in BOOLEAN
  BY <1>2, <1>3, Numbers, Widths, Power
<1>5. QED
  BY <1>1, <1>2, <1>3, <1>4, PutKeeps DEF Fits

LEMMA StepI2s ==
  ASSUME SlotInv, NEW a \in Reg, I2s(a)
  PROVE  SlotInv'
BY ShortFits, PutKeeps DEF I2s

LEMMA StepThroughArray ==
  ASSUME SlotInv, NEW a \in Reg, ThroughArray(a)
  PROVE  SlotInv'
<1>1. Usable(a)
  BY DEF ThroughArray
<1>2. slot[a] \in Int /\ java[a] \in Ints /\ java[a] \in Int /\ Cong(slot[a], java[a], 2^WordBits)
  BY <1>1, Operand
<1>3. Fits(slot[a] % 2^ShortBits, java[a] % 2^ShortBits, FALSE, FALSE)
  BY <1>2, CharLoaded, RightFits
<1>4. Fits(slot[a] % 2^WordBits, java[a], java[a] < 0, FALSE)
  <2>1. (java[a] < 0) \in BOOLEAN
    BY <1>2
  <2>2. Right(slot[a] % 2^WordBits, java[a], java[a] < 0)
    BY <1>2, WordLoaded
  <2>3. QED
    BY <2>1, <2>2, RightFits
<1>5. \/ Put(a, slot[a] % 2^ByteBits, Signed(java[a], ByteBits), FALSE,
             Signed(java[a], ByteBits) < 0)
      \/ Put(a, slot[a] % 2^ShortBits, java[a] % 2^ShortBits, FALSE, FALSE)
      \/ Put(a, Bits(Signed(slot[a], ShortBits)), Signed(java[a], ShortBits), FALSE, FALSE)
      \/ Put(a, slot[a] % 2^WordBits, java[a], java[a] < 0, FALSE)
  BY DEF ThroughArray
<1>6. QED
  BY <1>1, <1>3, <1>4, <1>5, ByteFits, ShortFits, PutKeeps

(* The length of an array is read from its fieldCnt.                       *)
LEMMA LengthIs ==
  ASSUME NEW n \in Nat
  PROVE  /\ fieldCnt(n) \in Ints /\ fieldCnt(n) \in Slots /\ fieldCnt(n) \in Nat
         /\ fieldCnt(n) > 0 \/ fieldCnt(n) = 0
         /\ \A v \in Ints : v < fieldCnt(n) /\ v >= 0 => Bits(v) = v
<1>1. fieldCnt(n) \in Ints /\ fieldCnt(n) \in Slots /\ fieldCnt(n) \in Int /\ fieldCnt(n) >= 0
  BY Widths, RestIs DEF fieldCnt
<1>2. \A v \in Ints : v >= 0 => Bits(v) = v
  BY Plain
<1>3. QED
  BY <1>1, <1>2

LEMMA StepArrayLength ==
  ASSUME SlotInv, NEW r \in Reg, ArrayLength(r)
  PROVE  SlotInv'
<1>1. PICK n \in Lengths : n \in Ints /\ Put(r, fieldCnt(n), n, FALSE, n # fieldCnt(n))
  BY DEF ArrayLength
<1>2. n \in Nat
  BY WidthAssumption
<1>3. fieldCnt(n) \in Slots /\ (n # fieldCnt(n)) \in BOOLEAN
  BY <1>2, LengthIs
<1>4. n = fieldCnt(n) => Right(fieldCnt(n), n, FALSE)
  <2>1. n \in Ints /\ n >= 0
    BY <1>1, <1>2
  <2>2. Right(n, n, FALSE)
    BY <2>1, Plain
  <2>3. QED
    BY <2>2
<1>5. QED
  BY <1>1, <1>3, <1>4, PutKeeps DEF Fits

LEMMA StepLoad ==
  ASSUME SlotInv, NEW r \in Reg, NEW n \in Lengths, Load(r, n)
  PROVE  SlotInv'
<1>1. \/ outcome' \in {"exit3", "outside"} /\ UNCHANGED <<slot, java, raw, off>>
      \/ Put(r, 0, 0, FALSE, FALSE)
  BY DEF Load
<1>2. Fits(0, 0, FALSE, FALSE)
  BY ZeroRight, RightFits
<1>3. QED
  BY <1>1, <1>2, SameKeeps, PutKeeps

LEMMA StepStore ==
  ASSUME SlotInv, NEW r \in Reg, NEW n \in Lengths, Store(r, n)
  PROVE  SlotInv'
<1>1. \/ outcome' = "exit3" /\ UNCHANGED <<slot, java, raw, off>>
      \/ Put(r, 0, 0, FALSE, FALSE)
  BY DEF Store
<1>2. Fits(0, 0, FALSE, FALSE)
  BY ZeroRight, RightFits
<1>3. QED
  BY <1>1, <1>2, SameKeeps, PutKeeps

(***************************************************************************)
(* Every opcode keeps the types and what Exact says, for all widths.       *)
(***************************************************************************)
LEMMA SlotStep ==
  ASSUME SlotInv, [IntNext]_intVars
  PROVE  SlotInv'
<1>1. CASE UNCHANGED intVars
  BY <1>1, SameKeeps DEF intVars, SlotInv, IntTypeOK
<1>2. ASSUME NEW r \in Reg, \/ Const(r) \/ Ldc(r) \/ Iinc(r) \/ ArrayLength(r)
                            \/ \E n \in Lengths : Load(r, n) \/ Store(r, n)
                            \/ Ineg(r) \/ I2b(r) \/ I2c(r) \/ I2s(r) \/ ThroughArray(r)
      PROVE  SlotInv'
  BY <1>2, StepConst, StepLdc, StepIinc, StepArrayLength, StepLoad, StepStore, StepIneg,
     StepI2b, StepI2c, StepI2s, StepThroughArray
<1>3. ASSUME NEW a \in Reg, NEW b \in Reg,
             \/ Copy(a, b) \/ Iadd(a, b) \/ Isub(a, b) \/ Imul(a, b)
             \/ Idiv(a, b) \/ Irem(a, b) \/ Trap(a, b) \/ IandOrXor(a, b)
             \/ Ishl(a, b) \/ Ishr(a, b) \/ Iushr(a, b)
      PROVE  SlotInv'
  BY <1>3, StepCopy, StepIadd, StepIsub, StepImul, StepIdiv, StepIrem, StepTrap,
     StepIandOrXor, StepIshl, StepIshr, StepIushr
<1>4. QED
  BY <1>1, <1>2, <1>3 DEF IntNext

LEMMA SlotInit ==
  ASSUME IntInit
  PROVE  SlotInv
<1>1. 0 \in Ints /\ 0 \in Slots /\ Int32(0) = 0 /\ 0 = Bits(0)
  BY ZeroRight DEF Right
<1>2. QED
  BY <1>1 DEF IntInit, SlotInv, IntTypeOK, Exact

LEMMA SlotAlways == IntSpec => []SlotInv
<1>1. IntInit => SlotInv
  BY SlotInit
<1>2. SlotInv /\ [IntNext]_intVars => SlotInv'
  BY SlotStep
<1>3. QED
  BY <1>1, <1>2, PTL DEF IntSpec

(* A slot has as many bits as jvm_StackPush stores, and what it stands for is an int. *)
THEOREM IntTypesKept == IntSpec => []IntTypeOK
BY SlotAlways, PTL DEF SlotInv

(* The opcodes on int values (exec.c:557 to 834), whatever they are combined to: a slot *)
(* holds the value of the instruction set, but for the deviations that are marked.      *)
THEOREM NothingElseWrong == IntSpec => []Exact
BY SlotAlways, PTL DEF SlotInv

-----------------------------------------------------------------------------
(* Indexes.                                                                *)

LEMMA LoadJudged ==
  ASSUME SlotInv, NEW r \in Reg, NEW n \in Lengths, Load(r, n)
  PROVE  LET inside == java[r] \in 0..(fieldCnt(n) - 1)
             signed == slot[r] = Bits(java[r])
         IN  CASE outcome' = "running" -> inside
               [] outcome' = "exit3" -> ~(inside /\ signed)
               [] outcome' = "outside" -> java[r] < 0 \/ ~signed
<1>1. Usable(r) /\ outcome = "running"
  BY DEF Load, Usable
<1>2. PICK s, v, f, u : s = slot[r] /\ v = java[r] /\ f = fieldCnt(n) /\ u = Int64(s)
  OBVIOUS
<1>3. /\ s \in Slots /\ s \in Int /\ v \in Ints /\ v \in Int /\ Cong(s, v, 2^WordBits)
      /\ u \in Int /\ Cong(u, s, 2^LongBits)
  BY <1>1, <1>2, Operand, LongIs
<1>4. n \in Nat /\ f \in Nat /\ f \in Ints /\ f \in Int
  BY <1>2, WidthAssumption, LengthIs
<1>5. s = Bits(v) => u = v
  BY <1>2, <1>3, LongOf
<1>6. 0 <= u /\ u < f => v = u
  <2>1. HAVE 0 <= u /\ u < f
  <2>2. u \in Ints
    <3>1. PICK h, p, q, e \in Nat : h > 0 /\ Ints = (-h)..(h - 1)
      BY Sizes
    <3>2. QED
      BY <1>3, <1>4, <2>1, <3>1
  <2>3. Cong(u, v, 2^WordBits)
    BY <1>3, SlotToWord, Widths, Power, CongThen
  <2>4. Int32(u) = v /\ Int32(u) = u
    BY <1>3, <2>2, <2>3, WordIs, OwnWord
  <2>5. QED
    BY <2>4
<1>7. CASE u >= f
  <2>1. outcome' = "exit3"
    <3>1. Int64(slot[r]) >= fieldCnt(n) /\ ~(Int64(slot[r]) < 0)
      BY <1>2, <1>3, <1>4, <1>7
    <3>2. QED
      BY <3>1 DEF Load
  <2>2. ~(v \in 0..(f - 1) /\ s = Bits(v))
    BY <1>3, <1>4, <1>5, <1>7
  <2>3. QED
    BY <1>2, <2>1, <2>2
<1>8. CASE u < 0
  <2>1. outcome' = "outside"
    BY <1>2, <1>3, <1>4, <1>8 DEF Load
  <2>2. v < 0 \/ s # Bits(v)
    BY <1>3, <1>5, <1>8
  <2>3. QED
    BY <1>2, <2>1, <2>2
<1>9. CASE 0 <= u /\ u < f
  <2>1. outcome' = "running"
    BY <1>1, <1>2, <1>3, <1>4, <1>9 DEF Load, Put
  <2>2. v \in 0..(f - 1)
    BY <1>3, <1>4, <1>6, <1>9
  <2>3. QED
    BY <1>2, <2>1, <2>2
<1>10. u >= f \/ u < 0 \/ (0 <= u /\ u < f)
  BY <1>3, <1>4
<1>11. QED
  BY <1>7, <1>8, <1>9, <1>10

LEMMA StoreJudged ==
  ASSUME SlotInv, NEW r \in Reg, NEW n \in Lengths, Store(r, n)
  PROVE  LET inside == java[r] \in 0..(fieldCnt(n) - 1)
             signed == slot[r] = Bits(java[r])
         IN  IF outcome' = "running" THEN inside ELSE ~(inside /\ signed)
<1>1. Usable(r) /\ outcome = "running"
  BY DEF Store, Usable
<1>2. PICK s, v, f : s = slot[r] /\ v = java[r] /\ f = fieldCnt(n)
  OBVIOUS
<1>3. s \in Nat /\ s \in Int /\ v \in Ints /\ v \in Int /\ Cong(s, v, 2^WordBits)
  BY <1>1, <1>2, Operand
<1>4. n \in Nat /\ f \in Nat /\ f \in Ints /\ f \in Int
  BY <1>2, WidthAssumption, LengthIs
<1>5. CASE s >= f
  <2>1. outcome' = "exit3"
    BY <1>2, <1>5 DEF Store
  <2>2. v \in 0..(f - 1) => Bits(v) = v
    <3>1. HAVE v \in 0..(f - 1)
    <3>2. v >= 0
      BY <1>3, <1>4, <3>1
    <3>3. QED
      BY <1>3, <3>2, Plain
  <2>3. ~(v \in 0..(f - 1) /\ s = Bits(v))
    BY <1>3, <1>4, <1>5, <2>2
  <2>4. QED
    BY <1>2, <2>1, <2>3
<1>6. CASE s < f
  <2>1. outcome' = "running"
    BY <1>1, <1>2, <1>3, <1>4, <1>6 DEF Store, Put
  <2>2. s \in Ints
    <3>1. PICK h, p, q, e \in Nat : h > 0 /\ Ints = (-h)..(h - 1)
      BY Sizes
    <3>2. QED
      BY <1>3, <1>4, <1>6, <3>1
  <2>3. Int32(s) = v /\ Int32(s) = s
    BY <1>3, <2>2, WordIs, OwnWord
  <2>4. v \in 0..(f - 1)
    BY <1>3, <1>4, <1>6, <2>3
  <2>5. QED
    BY <1>2, <2>1, <2>4
<1>7. QED
  BY <1>3, <1>4, <1>5, <1>6

(* An index that the comparisons of exec.c:877 and 953 let through is one of the array, *)
(* and one of the array is refused only when its slot has no sign above its word.       *)
THEOREM IndexesJudged == IntSpec => IndexJudged
<1>. DEFINE Judged ==
       \A r \in Reg, n \in Lengths :
         LET inside == java[r] \in 0..(fieldCnt(n) - 1)
             signed == slot[r] = Bits(java[r])
         IN  /\ Load(r, n) => CASE outcome' = "running" -> inside
                                [] outcome' = "exit3" -> ~(inside /\ signed)
                                [] outcome' = "outside" -> java[r] < 0 \/ ~signed
             /\ Store(r, n) => IF outcome' = "running" THEN inside ELSE ~(inside /\ signed)
<1>1. SlotInv => Judged
  BY LoadJudged, StoreJudged
<1>2. [][Judged]_intVars <=> IndexJudged
  BY DEF IndexJudged
<1>. HIDE DEF Judged
<1>3. QED
  BY <1>1, <1>2, SlotAlways, PTL DEF IntSpec
=============================================================================
