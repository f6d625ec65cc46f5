--------------------------- MODULE RhinoVMProofs ---------------------------
(***************************************************************************)
(* Proofs about the interpreter and about the virtual machine as a whole:  *)
(* first that every opcode keeps the types and leaves the stack counts     *)
(* exact, then that exec.c and rjvm.c, which meet in nothing but these     *)
(* counts, agree on what is in use - for every number of addresses,        *)
(* frames, operands and locals.                                            *)
(***************************************************************************)
EXTENDS RhinoVM, CollectorProofs, FiniteSetTheorems, TLAPS

(***************************************************************************)
(* What the exactness of the counts rests on: compilers leave nothing on   *)
(* the operand stack at a return, jvm_ScrubLocals is told all the locals,  *)
(* what an array reads as before it is written is no address, and the      *)
(* places there are do not exceed the width of the counter.                *)
(***************************************************************************)
CountsFit ==
  /\ "leftover" \notin Ops
  /\ MaxLocals <= MaxScrub
  /\ Unwritten \cap Obj = {}
  /\ MaxDepth * MaxStack + MaxDepth * MaxLocals <= MaxCnt

-----------------------------------------------------------------------------
(* Frames as a value: the same with another operand stack on top, the      *)
(* places of an object in them, and how many these are.                    *)

FramesOK(fs) ==
  /\ fs \in Seq(Frame)
  /\ Len(fs) <= MaxDepth
  /\ \A d \in DOMAIN fs : Len(fs[d].stack) <= MaxStack

With(fs, st) == [fs EXCEPT ![Len(fs)].stack = st]

OnStacks(fs, o) ==
  {p \in (DOMAIN fs) \X (1..MaxStack) :
     p[2] \in DOMAIN fs[p[1]].stack /\ fs[p[1]].stack[p[2]] = o}

InLocals(fs, o) == {p \in (DOMAIN fs) \X Local : fs[p[1]].locals[p[2]] = o}

Count(fs, o) == Cardinality(OnStacks(fs, o)) + Cardinality(InLocals(fs, o))

One(v, o) == IF v = o THEN 1 ELSE 0

(* All the references in the frames are to objects of S. *)
RefersTo(fs, S) ==
  \A d \in DOMAIN fs :
    /\ \A k \in DOMAIN fs[d].stack : fs[d].stack[k] \in Obj => fs[d].stack[k] \in S
    /\ \A i \in Local : fs[d].locals[i] \in Obj => fs[d].locals[i] \in S

(* The counts cnt of the objects of S are right for the frames fs. *)
Exact(fs, cnt, S) ==
  /\ FramesOK(fs)
  /\ S \subseteq Obj
  /\ RefersTo(fs, S)
  /\ cnt \in [Obj -> 0..MaxCnt]
  /\ \A o \in S : cnt[o] = Count(fs, o)

-----------------------------------------------------------------------------
(* Counters and sequences.                                                 *)

LEMMA ModRange ==
  ASSUME NEW c \in Int PROVE c % (MaxCnt + 1) \in 0..MaxCnt
BY CntAssumption, SMT

LEMMA ModSmall ==
  ASSUME NEW c \in 0..MaxCnt PROVE c % (MaxCnt + 1) = c
BY CntAssumption, SMT

LEMMA IncType ==
  ASSUME NEW cnt \in [Obj -> 0..MaxCnt], NEW v
  PROVE  Inc(cnt, v) \in [Obj -> 0..MaxCnt] /\ Dec(cnt, v) \in [Obj -> 0..MaxCnt]
<1>1. CASE v \notin Obj
  BY <1>1 DEF Inc, Dec
<1>2. CASE v \in Obj
  <2>1. cnt[v] + 1 \in Int /\ cnt[v] - 1 \in Int
    BY <1>2, CntAssumption
  <2>2. (cnt[v] + 1) % (MaxCnt + 1) \in 0..MaxCnt /\ (cnt[v] - 1) % (MaxCnt + 1) \in 0..MaxCnt
    BY <2>1, ModRange
  <2>3. QED
    BY <1>2, <2>2, Zenon DEF Inc, Dec
<1>3. QED
  BY <1>1, <1>2

LEMMA IncIsOne ==
  ASSUME NEW cnt \in [Obj -> 0..MaxCnt], NEW v, v \in Obj => cnt[v] < MaxCnt, NEW o \in Obj
  PROVE  Inc(cnt, v)[o] = cnt[o] + One(v, o)
<1>1. CASE v \notin Obj
  BY <1>1 DEF Inc, One
<1>2. CASE v \in Obj
  <2>1. cnt[v] + 1 \in 0..MaxCnt
    BY <1>2, CntAssumption
  <2>2. (cnt[v] + 1) % (MaxCnt + 1) = cnt[v] + 1
    BY <2>1, ModSmall
  <2>3. Inc(cnt, v) = [cnt EXCEPT ![v] = cnt[v] + 1]
    BY <1>2, <2>2, Zenon DEF Inc
  <2>4. QED
    BY <1>2, <2>3, CntAssumption DEF One
<1>3. QED
  BY <1>1, <1>2

LEMMA DecIsOne ==
  ASSUME NEW cnt \in [Obj -> 0..MaxCnt], NEW v, v \in Obj => cnt[v] > 0, NEW o \in Obj
  PROVE  Dec(cnt, v)[o] = cnt[o] - One(v, o)
<1>1. CASE v \notin Obj
  BY <1>1 DEF Dec, One
<1>2. CASE v \in Obj
  <2>1. cnt[v] - 1 \in 0..MaxCnt
    BY <1>2, CntAssumption
  <2>2. (cnt[v] - 1) % (MaxCnt + 1) = cnt[v] - 1
    BY <2>1, ModSmall
  <2>3. Dec(cnt, v) = [cnt EXCEPT ![v] = cnt[v] - 1]
    BY <1>2, <2>2, Zenon DEF Dec
  <2>4. QED
    BY <1>2, <2>3, CntAssumption DEF One
<1>3. QED
  BY <1>1, <1>2

(* Two counts may be taken down in either order. *)
LEMMA DecCommutes ==
  ASSUME NEW cnt \in [Obj -> 0..MaxCnt], NEW v, NEW w
  PROVE  Dec(Dec(cnt, v), w) = Dec(Dec(cnt, w), v)
<1>1. CASE v \notin Obj \/ w \notin Obj
  BY <1>1 DEF Dec
<1>2. CASE v \in Obj /\ w \in Obj /\ v # w
  <2>. DEFINE dv == (cnt[v] - 1) % (MaxCnt + 1)
              dw == (cnt[w] - 1) % (MaxCnt + 1)
  <2>1. Dec(cnt, v) = [cnt EXCEPT ![v] = dv] /\ Dec(cnt, w) = [cnt EXCEPT ![w] = dw]
    BY <1>2 DEF Dec
  <2>2. Dec(cnt, v)[w] = cnt[w] /\ Dec(cnt, w)[v] = cnt[v]
    BY <1>2, <2>1
  <2>3. /\ Dec(Dec(cnt, v), w) = [[cnt EXCEPT ![v] = dv] EXCEPT ![w] = dw]
        /\ Dec(Dec(cnt, w), v) = [[cnt EXCEPT ![w] = dw] EXCEPT ![v] = dv]
    BY <1>2, <2>1, <2>2 DEF Dec
  <2>. HIDE DEF dv, dw
  <2>4. QED
    BY <1>2, <2>3
<1>3. CASE v = w
  BY <1>3
<1>4. QED
  BY <1>1, <1>2, <1>3

(* A sequence is what is under its last element, and that. *)
LEMMA BelowStep ==
  ASSUME NEW S, NEW st \in Seq(S), NEW k \in Nat, k < Len(st)
  PROVE  /\ SubSeq(st, 1, Len(st) - k) =
              Append(SubSeq(st, 1, Len(st) - (k + 1)), st[Len(st) - k])
         /\ SubSeq(st, 1, Len(st) - (k + 1)) \in Seq(S)
         /\ Len(SubSeq(st, 1, Len(st) - (k + 1))) = Len(st) - (k + 1)
         /\ st[Len(st) - k] \in S
OBVIOUS

LEMMA BelowNone ==
  ASSUME NEW S, NEW st \in Seq(S) PROVE SubSeq(st, 1, Len(st) - 0) = st
OBVIOUS

-----------------------------------------------------------------------------
(* Counting the places of an object.                                       *)

LEMMA DisjointUnion ==
  ASSUME NEW A, NEW B, IsFiniteSet(A), IsFiniteSet(B), A \cap B = {}
  PROVE  Cardinality(A \cup B) = Cardinality(A) + Cardinality(B)
<1>1. Cardinality(A \cup B) = Cardinality(A) + Cardinality(B) - Cardinality(A \cap B)
  BY FS_Union
<1>2. Cardinality(A \cap B) = 0
  BY FS_EmptySet
<1>3. Cardinality(A) \in Nat /\ Cardinality(B) \in Nat
  BY FS_CardinalityType
<1>4. QED
  BY <1>1, <1>2, <1>3

LEMMA FrameType ==
  ASSUME NEW fs, FramesOK(fs), NEW d \in DOMAIN fs
  PROVE  /\ fs[d].stack \in Seq(Item) /\ fs[d].locals \in [Local -> Item]
         /\ fs[d] = [stack |-> fs[d].stack, locals |-> fs[d].locals]
         /\ d \in 1..Len(fs) /\ d \in 1..MaxDepth
         /\ Len(fs) \in Nat /\ Len(fs[d].stack) \in 0..MaxStack
<1>1. fs[d] \in Frame
  BY DEF FramesOK
<1>2. QED
  BY <1>1, FrameAssumption DEF FramesOK, Frame

LEMMA PlacesFinite ==
  ASSUME NEW fs, FramesOK(fs), NEW o
  PROVE  /\ IsFiniteSet(OnStacks(fs, o)) /\ IsFiniteSet(InLocals(fs, o))
         /\ Cardinality(OnStacks(fs, o)) \in Nat /\ Cardinality(InLocals(fs, o)) \in Nat
         /\ Count(fs, o) \in Nat
         /\ Count(fs, o) <= MaxDepth * MaxStack + MaxDepth * MaxLocals
<1>1. /\ IsFiniteSet(1..MaxDepth) /\ Cardinality(1..MaxDepth) = MaxDepth
      /\ IsFiniteSet(1..MaxStack) /\ Cardinality(1..MaxStack) = MaxStack
      /\ IsFiniteSet(Local) /\ Cardinality(Local) = MaxLocals
  <2>1. /\ MaxDepth \in Int /\ MaxStack \in Int /\ MaxLocals - 1 \in Int
        /\ MaxDepth >= 1 /\ MaxStack >= 1 /\ MaxLocals >= 1 /\ 1 \in Int /\ 0 \in Int
    BY FrameAssumption
  <2>2. /\ IsFiniteSet(1..MaxDepth)
        /\ Cardinality(1..MaxDepth) = IF 1 > MaxDepth THEN 0 ELSE MaxDepth - 1 + 1
    BY <2>1, FS_Interval, Zenon
  <2>3. /\ IsFiniteSet(1..MaxStack)
        /\ Cardinality(1..MaxStack) = IF 1 > MaxStack THEN 0 ELSE MaxStack - 1 + 1
    BY <2>1, FS_Interval, Zenon
  <2>4. /\ IsFiniteSet(0..(MaxLocals - 1))
        /\ Cardinality(0..(MaxLocals - 1)) =
             IF 0 > MaxLocals - 1 THEN 0 ELSE (MaxLocals - 1) - 0 + 1
    BY <2>1, FS_Interval, Zenon
  <2>5. QED
    BY <2>1, <2>2, <2>3, <2>4, FrameAssumption DEF Local
<1>2. /\ IsFiniteSet((1..MaxDepth) \X (1..MaxStack))
      /\ Cardinality((1..MaxDepth) \X (1..MaxStack)) = MaxDepth * MaxStack
      /\ IsFiniteSet((1..MaxDepth) \X Local)
      /\ Cardinality((1..MaxDepth) \X Local) = MaxDepth * MaxLocals
  <2>1. /\ IsFiniteSet((1..MaxDepth) \X (1..MaxStack))
        /\ Cardinality((1..MaxDepth) \X (1..MaxStack)) =
             Cardinality(1..MaxDepth) * Cardinality(1..MaxStack)
    BY <1>1, FS_Product, Zenon
  <2>2. /\ IsFiniteSet((1..MaxDepth) \X Local)
        /\ Cardinality((1..MaxDepth) \X Local) = Cardinality(1..MaxDepth) * Cardinality(Local)
    BY <1>1, FS_Product, Zenon
  <2>3. QED
    BY <1>1, <2>1, <2>2, Zenon
<1>3. DOMAIN fs \subseteq 1..MaxDepth
  BY FrameType
<1>4. /\ OnStacks(fs, o) \in SUBSET ((1..MaxDepth) \X (1..MaxStack))
      /\ InLocals(fs, o) \in SUBSET ((1..MaxDepth) \X Local)
  BY <1>3 DEF OnStacks, InLocals
<1>5. /\ IsFiniteSet(OnStacks(fs, o)) /\ Cardinality(OnStacks(fs, o)) <= MaxDepth * MaxStack
      /\ IsFiniteSet(InLocals(fs, o)) /\ Cardinality(InLocals(fs, o)) <= MaxDepth * MaxLocals
  BY <1>2, <1>4, FS_Subset
<1>6. Cardinality(OnStacks(fs, o)) \in Nat /\ Cardinality(InLocals(fs, o)) \in Nat
  BY <1>5, FS_CardinalityType
<1>7. MaxDepth * MaxStack \in Int /\ MaxDepth * MaxLocals \in Int
  BY FrameAssumption
<1>8. QED
  BY <1>5, <1>6, <1>7 DEF Count

LEMMA WithType ==
  ASSUME NEW fs, FramesOK(fs), Len(fs) > 0, NEW st \in Seq(Item), Len(st) <= MaxStack
  PROVE  /\ FramesOK(With(fs, st))
         /\ DOMAIN With(fs, st) = DOMAIN fs /\ Len(With(fs, st)) = Len(fs)
         /\ Len(fs) \in DOMAIN fs
         /\ With(fs, st)[Len(fs)].stack = st
         /\ \A d \in DOMAIN fs : d # Len(fs) => With(fs, st)[d] = fs[d]
         /\ \A d \in DOMAIN fs : With(fs, st)[d].locals = fs[d].locals
<1>1. fs \in Seq(Frame) /\ Len(fs) \in DOMAIN fs
  BY DEF FramesOK
<1>2. fs[Len(fs)] \in Frame
  BY <1>1
<1>3. [fs[Len(fs)] EXCEPT !.stack = st] \in Frame
  BY <1>2 DEF Frame
<1>4. With(fs, st) = [fs EXCEPT ![Len(fs)] = [fs[Len(fs)] EXCEPT !.stack = st]]
  BY DEF With
<1>5. With(fs, st) \in Seq(Frame) /\ Len(With(fs, st)) = Len(fs)
  BY <1>1, <1>3, <1>4
<1>6. /\ DOMAIN With(fs, st) = DOMAIN fs
      /\ \A d \in DOMAIN fs : d # Len(fs) => With(fs, st)[d] = fs[d]
  BY <1>1, <1>4
<1>7. With(fs, st)[Len(fs)] = [fs[Len(fs)] EXCEPT !.stack = st]
  BY <1>1, <1>4
<1>8. With(fs, st)[Len(fs)].stack = st /\ With(fs, st)[Len(fs)].locals = fs[Len(fs)].locals
  BY <1>2, <1>7 DEF Frame
<1>9. FramesOK(With(fs, st))
  BY <1>5, <1>6, <1>8 DEF FramesOK
<1>10. QED
  BY <1>1, <1>5, <1>6, <1>8, <1>9

LEMMA WithOwn ==
  ASSUME NEW fs, FramesOK(fs), Len(fs) > 0
  PROVE  With(fs, fs[Len(fs)].stack) = fs
<1>1. fs \in Seq(Frame) /\ Len(fs) \in DOMAIN fs /\ fs[Len(fs)] \in Frame
  BY DEF FramesOK
<1>2. [fs[Len(fs)] EXCEPT !.stack = fs[Len(fs)].stack] = fs[Len(fs)]
  BY <1>1 DEF Frame
<1>3. QED
  BY <1>1, <1>2 DEF With

(* One more operand is one more place of the object it refers to. *)
LEMMA AppendCount ==
  ASSUME NEW fs, FramesOK(fs), Len(fs) > 0,
         NEW st \in Seq(Item), Len(st) < MaxStack, NEW v \in Item, NEW o
  PROVE  Count(With(fs, Append(st, v)), o) = Count(With(fs, st), o) + One(v, o)
<1>. DEFINE d == Len(fs)
            n == Len(st) + 1
            a == With(fs, st)
            b == With(fs, Append(st, v))
<1>0. /\ Append(st, v) \in Seq(Item) /\ Len(Append(st, v)) = n
      /\ n \in 1..MaxStack /\ Len(st) <= MaxStack /\ Len(Append(st, v)) <= MaxStack
      /\ DOMAIN Append(st, v) = DOMAIN st \cup {n} /\ n \notin DOMAIN st
      /\ Append(st, v)[n] = v /\ \A k \in DOMAIN st : Append(st, v)[k] = st[k]
  BY FrameAssumption
<1>1. /\ FramesOK(a) /\ DOMAIN a = DOMAIN fs /\ d \in DOMAIN fs
      /\ a[d].stack = st
      /\ \A e \in DOMAIN fs : e # d => a[e] = fs[e]
      /\ \A e \in DOMAIN fs : a[e].locals = fs[e].locals
  BY <1>0, WithType
<1>2. /\ FramesOK(b) /\ DOMAIN b = DOMAIN fs
      /\ b[d].stack = Append(st, v)
      /\ \A e \in DOMAIN fs : e # d => b[e] = fs[e]
      /\ \A e \in DOMAIN fs : b[e].locals = fs[e].locals
  BY <1>0, WithType
<1>. HIDE DEF a, b, d, n
<1>3. InLocals(b, o) = InLocals(a, o)
  BY <1>1, <1>2 DEF InLocals
<1>4. <<d, n>> \notin OnStacks(a, o)
  BY <1>0, <1>1 DEF OnStacks
<1>5. OnStacks(b, o) = IF v = o THEN OnStacks(a, o) \cup {<<d, n>>} ELSE OnStacks(a, o)
  <2>1. ASSUME NEW e, NEW k
        PROVE <<e, k>> \in OnStacks(b, o) <=>
                <<e, k>> \in OnStacks(a, o) \/ (v = o /\ e = d /\ k = n)
    <3>1. CASE e = d
      <4>1. <<d, k>> \in OnStacks(a, o) <=> k \in 1..MaxStack /\ k \in DOMAIN st /\ st[k] = o
        BY <1>1 DEF OnStacks
      <4>2. <<d, k>> \in OnStacks(b, o) <=> /\ k \in 1..MaxStack /\ k \in DOMAIN Append(st, v)
                                           /\ Append(st, v)[k] = o
        BY <1>1, <1>2 DEF OnStacks
      <4>3. QED
        BY <1>0, <3>1, <4>1, <4>2, Zenon
    <3>2. CASE e # d
      BY <3>2, <1>1, <1>2 DEF OnStacks
    <3>3. QED
      BY <3>1, <3>2
  <2>2. /\ \A p \in OnStacks(b, o) : p = <<p[1], p[2]>>
        /\ \A p \in OnStacks(a, o) : p = <<p[1], p[2]>>
    BY DEF OnStacks
  <2>3. \A p \in OnStacks(b, o) : p \in OnStacks(a, o) \/ (v = o /\ p = <<d, n>>)
    <3>1. TAKE p \in OnStacks(b, o)
    <3>2. p = <<p[1], p[2]>>
      BY <2>2
    <3>3. <<p[1], p[2]>> \in OnStacks(b, o)
      BY <3>2
    <3>4. <<p[1], p[2]>> \in OnStacks(a, o) \/ (v = o /\ p[1] = d /\ p[2] = n)
      BY <2>1, <3>3
    <3>5. QED
      BY <3>2, <3>4
  <2>4. \A p \in OnStacks(a, o) : p \in OnStacks(b, o)
    <3>1. TAKE p \in OnStacks(a, o)
    <3>2. p = <<p[1], p[2]>>
      BY <2>2
    <3>3. <<p[1], p[2]>> \in OnStacks(a, o)
      BY <3>2
    <3>4. <<p[1], p[2]>> \in OnStacks(b, o)
      BY <2>1, <3>3
    <3>5. QED
      BY <3>2, <3>4
  <2>5. v = o => <<d, n>> \in OnStacks(b, o)
    BY <2>1
  <2>6. QED
    BY <2>3, <2>4, <2>5
<1>6. IsFiniteSet(OnStacks(a, o)) /\ Cardinality(OnStacks(a, o)) \in Nat
      /\ Cardinality(InLocals(a, o)) \in Nat
  BY <1>1, PlacesFinite
<1>7. Cardinality(OnStacks(a, o) \cup {<<d, n>>}) = Cardinality(OnStacks(a, o)) + 1
  BY <1>4, <1>6, FS_AddElement
<1>8. Count(b, o) = Count(a, o) + One(v, o)
  BY <1>3, <1>5, <1>6, <1>7 DEF Count, One
<1>9. QED
  BY <1>8 DEF a, b

-----------------------------------------------------------------------------
(* Counts that stay right.                                                 *)

(* A pop takes off the count what was on top. *)
LEMMA PopExact ==
  ASSUME NEW fs, FramesOK(fs), Len(fs) > 0,
         NEW st \in Seq(Item), Len(st) < MaxStack, NEW v \in Item, NEW cnt, NEW S,
         Exact(With(fs, Append(st, v)), cnt, S)
  PROVE  Exact(With(fs, st), Dec(cnt, v), S)
<1>. DEFINE a == With(fs, st)
            b == With(fs, Append(st, v))
            d == Len(fs)
            n == Len(st) + 1
<1>0. /\ Append(st, v) \in Seq(Item) /\ Len(Append(st, v)) <= MaxStack /\ Len(st) <= MaxStack
      /\ n \in DOMAIN Append(st, v) /\ Append(st, v)[n] = v
      /\ \A k \in DOMAIN st : k \in DOMAIN Append(st, v) /\ Append(st, v)[k] = st[k]
  BY FrameAssumption
<1>1. /\ FramesOK(a) /\ DOMAIN a = DOMAIN fs /\ d \in DOMAIN fs /\ a[d].stack = st
      /\ \A e \in DOMAIN fs : e # d => a[e] = fs[e]
      /\ \A e \in DOMAIN fs : a[e].locals = fs[e].locals
  BY <1>0, WithType
<1>2. /\ FramesOK(b) /\ DOMAIN b = DOMAIN fs /\ b[d].stack = Append(st, v)
      /\ \A e \in DOMAIN fs : e # d => b[e] = fs[e]
      /\ \A e \in DOMAIN fs : b[e].locals = fs[e].locals
  BY <1>0, WithType
<1>3. \A o : /\ Count(b, o) = Count(a, o) + One(v, o)
             /\ Count(a, o) \in Nat
  BY <1>1, AppendCount, PlacesFinite
<1>4. Exact(b, cnt, S)
  OBVIOUS
<1>. HIDE DEF a, b, d, n
<1>5. v \in Obj => v \in S
  BY <1>0, <1>1, <1>2, <1>4 DEF Exact, RefersTo
<1>6. RefersTo(a, S)
  <2>1. RefersTo(b, S)
    BY <1>4 DEF Exact
  <2>2. ASSUME NEW e \in DOMAIN a PROVE
          /\ \A k \in DOMAIN a[e].stack : a[e].stack[k] \in Obj => a[e].stack[k] \in S
          /\ \A i \in Local : a[e].locals[i] \in Obj => a[e].locals[i] \in S
    <3>0. e \in DOMAIN b
      BY <1>1, <1>2
    <3>1. \A i \in Local : a[e].locals[i] \in Obj => a[e].locals[i] \in S
      BY <1>1, <1>2, <2>1, <3>0 DEF RefersTo
    <3>2. CASE e = d
      <4>1. \A k \in DOMAIN b[d].stack : b[d].stack[k] \in Obj => b[d].stack[k] \in S
        BY <2>1, <3>0, <3>2 DEF RefersTo
      <4>2. QED
        BY <1>0, <1>1, <1>2, <3>1, <3>2, <4>1
    <3>3. CASE e # d
      BY <1>1, <1>2, <2>1, <3>0, <3>1, <3>3 DEF RefersTo
    <3>4. QED
      BY <3>2, <3>3
  <2>3. QED
    BY <2>2 DEF RefersTo
<1>7. v \in Obj => cnt[v] > 0
  BY <1>3, <1>4, <1>5 DEF Exact, One
<1>8. Dec(cnt, v) \in [Obj -> 0..MaxCnt]
  BY <1>4, IncType DEF Exact
<1>9. \A o \in S : Dec(cnt, v)[o] = Count(a, o)
  <2>1. TAKE o \in S
  <2>2. Dec(cnt, v)[o] = cnt[o] - One(v, o)
    BY <1>4, <1>7, DecIsOne DEF Exact
  <2>3. cnt[o] = Count(a, o) + One(v, o)
    BY <1>3, <1>4 DEF Exact
  <2>4. QED
    BY <1>3, <2>2, <2>3 DEF One
<1>10. Exact(a, Dec(cnt, v), S)
  BY <1>1, <1>4, <1>6, <1>8, <1>9 DEF Exact
<1>11. QED
  BY <1>10 DEF a

(* A push counts what comes on top. *)
LEMMA PushExact ==
  ASSUME CountsFit,
         NEW fs, FramesOK(fs), Len(fs) > 0,
         NEW st \in Seq(Item), Len(st) < MaxStack, NEW v \in Item, NEW cnt, NEW S,
         v \in Obj => v \in S,
         Exact(With(fs, st), cnt, S)
  PROVE  Exact(With(fs, Append(st, v)), Inc(cnt, v), S)
<1>. DEFINE a == With(fs, st)
            b == With(fs, Append(st, v))
            d == Len(fs)
            n == Len(st) + 1
<1>0. /\ Append(st, v) \in Seq(Item) /\ Len(Append(st, v)) <= MaxStack /\ Len(st) <= MaxStack
      /\ DOMAIN Append(st, v) = DOMAIN st \cup {n} /\ Append(st, v)[n] = v
      /\ \A k \in DOMAIN st : Append(st, v)[k] = st[k]
  BY FrameAssumption
<1>1. /\ FramesOK(a) /\ DOMAIN a = DOMAIN fs /\ d \in DOMAIN fs /\ a[d].stack = st
      /\ \A e \in DOMAIN fs : e # d => a[e] = fs[e]
      /\ \A e \in DOMAIN fs : a[e].locals = fs[e].locals
  BY <1>0, WithType
<1>2. /\ FramesOK(b) /\ DOMAIN b = DOMAIN fs /\ b[d].stack = Append(st, v)
      /\ \A e \in DOMAIN fs : e # d => b[e] = fs[e]
      /\ \A e \in DOMAIN fs : b[e].locals = fs[e].locals
  BY <1>0, WithType
<1>3. \A o : /\ Count(b, o) = Count(a, o) + One(v, o)
             /\ Count(a, o) \in Nat /\ Count(b, o) \in Nat
             /\ Count(b, o) <= MaxDepth * MaxStack + MaxDepth * MaxLocals
  BY <1>1, <1>2, AppendCount, PlacesFinite
<1>4. Exact(a, cnt, S)
  OBVIOUS
<1>. HIDE DEF a, b, d, n
<1>5. RefersTo(b, S)
  <2>1. RefersTo(a, S)
    BY <1>4 DEF Exact
  <2>2. ASSUME NEW e \in DOMAIN b PROVE
          /\ \A k \in DOMAIN b[e].stack : b[e].stack[k] \in Obj => b[e].stack[k] \in S
          /\ \A i \in Local : b[e].locals[i] \in Obj => b[e].locals[i] \in S
    <3>0. e \in DOMAIN a
      BY <1>1, <1>2
    <3>1. \A i \in Local : b[e].locals[i] \in Obj => b[e].locals[i] \in S
      BY <1>1, <1>2, <2>1, <3>0 DEF RefersTo
    <3>2. CASE e = d
      <4>1. \A k \in DOMAIN a[d].stack : a[d].stack[k] \in Obj => a[d].stack[k] \in S
        BY <2>1, <3>0, <3>2 DEF RefersTo
      <4>2. \A k \in DOMAIN st : st[k] \in Obj => st[k] \in S
        BY <1>1, <4>1
      <4>3. \A k \in DOMAIN Append(st, v) : Append(st, v)[k] \in Obj => Append(st, v)[k] \in S
        BY <1>0, <4>2, Zenon
      <4>4. QED
        BY <1>2, <3>1, <3>2, <4>3
    <3>3. CASE e # d
      BY <1>1, <1>2, <2>1, <3>0, <3>1, <3>3 DEF RefersTo
    <3>4. QED
      BY <3>2, <3>3
  <2>3. QED
    BY <2>2 DEF RefersTo
<1>6. MaxDepth * MaxStack \in Int /\ MaxDepth * MaxLocals \in Int
  BY FrameAssumption
<1>7. v \in Obj => cnt[v] < MaxCnt
  <2>1. HAVE v \in Obj
  <2>2. cnt[v] + 1 = Count(b, v)
    BY <1>3, <1>4, <2>1 DEF Exact, One
  <2>3. cnt[v] \in 0..MaxCnt
    BY <1>4, <2>1 DEF Exact
  <2>4. QED
    BY <1>3, <1>6, <2>2, <2>3, CntAssumption DEF CountsFit
<1>8. Inc(cnt, v) \in [Obj -> 0..MaxCnt]
  BY <1>4, IncType DEF Exact
<1>9. \A o \in S : Inc(cnt, v)[o] = Count(b, o)
  <2>1. TAKE o \in S
  <2>2. Inc(cnt, v)[o] = cnt[o] + One(v, o)
    BY <1>4, <1>7, IncIsOne DEF Exact
  <2>3. QED
    BY <1>3, <1>4, <2>2 DEF Exact
<1>10. Exact(b, Inc(cnt, v), S)
  BY <1>2, <1>4, <1>5, <1>8, <1>9 DEF Exact
<1>11. QED
  BY <1>10 DEF b

(* No place holds an object the frames do not refer to. *)
LEMMA NotReferred ==
  ASSUME NEW fs, NEW S, FramesOK(fs), RefersTo(fs, S), NEW o \in Obj, o \notin S
  PROVE  Count(fs, o) = 0
<1>1. OnStacks(fs, o) = {} /\ InLocals(fs, o) = {}
  BY DEF OnStacks, InLocals, RefersTo
<1>2. QED
  BY <1>1, FS_EmptySet DEF Count

(* A new object is in no place yet. *)
LEMMA FreshExact ==
  ASSUME NEW fs, NEW cnt, NEW S, Exact(fs, cnt, S), NEW o \in Obj, o \notin S
  PROVE  Exact(fs, [cnt EXCEPT ![o] = 0], S \cup {o})
<1>1. Count(fs, o) = 0
  BY NotReferred DEF Exact
<1>2. [cnt EXCEPT ![o] = 0] \in [Obj -> 0..MaxCnt]
  BY CntAssumption DEF Exact
<1>3. RefersTo(fs, S \cup {o})
  BY DEF Exact, RefersTo
<1>4. QED
  BY <1>1, <1>2, <1>3 DEF Exact

(* The header of a new object that is pushed has the count 1. *)
LEMMA IncFresh ==
  ASSUME NEW cnt \in [Obj -> 0..MaxCnt], NEW o \in Obj
  PROVE  Inc([cnt EXCEPT ![o] = 0], o) = [cnt EXCEPT ![o] = 1]
<1>1. 0 + 1 \in 0..MaxCnt
  BY CntAssumption
<1>2. (0 + 1) % (MaxCnt + 1) = 0 + 1
  BY <1>1, ModSmall
<1>3. [cnt EXCEPT ![o] = 0][o] = 0
  OBVIOUS
<1>4. Inc([cnt EXCEPT ![o] = 0], o) = [[cnt EXCEPT ![o] = 0] EXCEPT ![o] = (0 + 1) % (MaxCnt + 1)]
  BY <1>3 DEF Inc
<1>5. Inc([cnt EXCEPT ![o] = 0], o) = [[cnt EXCEPT ![o] = 0] EXCEPT ![o] = 1]
  BY <1>2, <1>4
<1>6. QED
  BY <1>5

(* A new object that nothing in the frames refers to keeps the counts right *)
(* whatever its fields.                                                    *)
LEMMA NewPushed ==
  ASSUME CountsFit,
         NEW fs, FramesOK(fs), Len(fs) > 0, NEW st \in Seq(Item), Len(st) < MaxStack,
         NEW cnt, NEW S, NEW o \in Obj, o \notin S, Exact(With(fs, st), cnt, S)
  PROVE  Exact(With(fs, Append(st, o)), [cnt EXCEPT ![o] = 1], S \cup {o})
<1>1. Exact(With(fs, st), [cnt EXCEPT ![o] = 0], S \cup {o})
  BY FreshExact
<1>2. Exact(With(fs, Append(st, o)), Inc([cnt EXCEPT ![o] = 0], o), S \cup {o})
  BY <1>1, PushExact DEF Item
<1>3. cnt \in [Obj -> 0..MaxCnt]
  BY DEF Exact
<1>4. QED
  BY <1>2, <1>3, IncFresh

-----------------------------------------------------------------------------
(* Locals.                                                                 *)

WithLocal(fs, i, v) ==
  [fs EXCEPT ![Len(fs)] = [stack |-> fs[Len(fs)].stack,
                           locals |-> [fs[Len(fs)].locals EXCEPT ![i] = v]]]

LEMMA WithLocalType ==
  ASSUME NEW fs, FramesOK(fs), Len(fs) > 0, NEW i \in Local, NEW v \in Item
  PROVE  /\ FramesOK(WithLocal(fs, i, v))
         /\ DOMAIN WithLocal(fs, i, v) = DOMAIN fs /\ Len(fs) \in DOMAIN fs
         /\ \A e \in DOMAIN fs : WithLocal(fs, i, v)[e].stack = fs[e].stack
         /\ \A e \in DOMAIN fs : e # Len(fs) => WithLocal(fs, i, v)[e].locals = fs[e].locals
         /\ WithLocal(fs, i, v)[Len(fs)].locals = [fs[Len(fs)].locals EXCEPT ![i] = v]
<1>. DEFINE g == WithLocal(fs, i, v)
            new == [stack |-> fs[Len(fs)].stack,
                    locals |-> [fs[Len(fs)].locals EXCEPT ![i] = v]]
<1>1. /\ fs \in Seq(Frame) /\ Len(fs) \in DOMAIN fs
      /\ fs[Len(fs)].stack \in Seq(Item) /\ fs[Len(fs)].locals \in [Local -> Item]
  BY FrameType DEF FramesOK
<1>2. new \in Frame
  BY <1>1 DEF Frame
<1>3. new.stack = fs[Len(fs)].stack /\ new.locals = [fs[Len(fs)].locals EXCEPT ![i] = v]
  OBVIOUS
<1>4. g = [fs EXCEPT ![Len(fs)] = new]
  BY DEF WithLocal
<1>. HIDE DEF new, g
<1>5. /\ g \in Seq(Frame) /\ Len(g) = Len(fs) /\ DOMAIN g = DOMAIN fs
      /\ g[Len(fs)] = new /\ \A e \in DOMAIN fs : e # Len(fs) => g[e] = fs[e]
  BY <1>1, <1>2, <1>4
<1>6. \A e \in DOMAIN fs : g[e].stack = fs[e].stack
  BY <1>3, <1>5
<1>7. FramesOK(g)
  BY <1>5, <1>6 DEF FramesOK
<1>8. QED
  BY <1>1, <1>3, <1>5, <1>6, <1>7 DEF g

(* An assignment to a local takes one place from the object that was in it *)
(* and gives it to the one that comes.                                     *)
LEMMA LocalCount ==
  ASSUME NEW fs, FramesOK(fs), Len(fs) > 0, NEW i \in Local, NEW v \in Item, NEW o
  PROVE  \E r \in Nat : /\ Count(fs, o) = r + One(fs[Len(fs)].locals[i], o)
                        /\ Count(WithLocal(fs, i, v), o) = r + One(v, o)
<1>. DEFINE d == Len(fs)
            g == WithLocal(fs, i, v)
            rest == InLocals(fs, o) \ {<<d, i>>}
<1>1. /\ FramesOK(g) /\ DOMAIN g = DOMAIN fs /\ d \in DOMAIN fs
      /\ \A e \in DOMAIN fs : g[e].stack = fs[e].stack
      /\ \A e \in DOMAIN fs : e # d => g[e].locals = fs[e].locals
      /\ g[d].locals = [fs[d].locals EXCEPT ![i] = v]
      /\ fs[d].locals \in [Local -> Item]
  BY WithLocalType, FrameType
<1>. HIDE DEF d, g
<1>2. OnStacks(g, o) = OnStacks(fs, o)
  BY <1>1 DEF OnStacks
<1>3. \A e \in DOMAIN fs, j \in Local : <<e, j>> # <<d, i>> => g[e].locals[j] = fs[e].locals[j]
  BY <1>1
<1>4. InLocals(g, o) \ {<<d, i>>} = rest
  BY <1>1, <1>3 DEF InLocals
<1>5. /\ <<d, i>> \in InLocals(fs, o) <=> fs[d].locals[i] = o
      /\ <<d, i>> \in InLocals(g, o) <=> v = o
  BY <1>1 DEF InLocals
<1>6. /\ IsFiniteSet(InLocals(fs, o)) /\ IsFiniteSet(InLocals(g, o))
      /\ Cardinality(OnStacks(fs, o)) \in Nat
      /\ Cardinality(InLocals(fs, o)) \in Nat /\ Cardinality(InLocals(g, o)) \in Nat
  BY <1>1, PlacesFinite
<1>7. /\ IsFiniteSet(rest)
      /\ Cardinality(rest) = IF <<d, i>> \in InLocals(fs, o)
                             THEN Cardinality(InLocals(fs, o)) - 1 ELSE Cardinality(InLocals(fs, o))
      /\ Cardinality(rest) = IF <<d, i>> \in InLocals(g, o)
                             THEN Cardinality(InLocals(g, o)) - 1 ELSE Cardinality(InLocals(g, o))
  BY <1>4, <1>6, FS_RemoveElement
<1>8. Cardinality(rest) \in Nat
  BY <1>7, FS_CardinalityType
<1>. HIDE DEF rest
<1>9. /\ Cardinality(InLocals(fs, o)) = Cardinality(rest) + One(fs[d].locals[i], o)
      /\ Cardinality(InLocals(g, o)) = Cardinality(rest) + One(v, o)
  BY <1>5, <1>6, <1>7, <1>8 DEF One
<1>10. /\ Count(fs, o) = Cardinality(OnStacks(fs, o)) + Cardinality(rest) + One(fs[d].locals[i], o)
       /\ Count(g, o) = Cardinality(OnStacks(fs, o)) + Cardinality(rest) + One(v, o)
  <2>1. One(fs[d].locals[i], o) \in Nat /\ One(v, o) \in Nat
    BY DEF One
  <2>2. Count(fs, o) = Cardinality(OnStacks(fs, o)) + (Cardinality(rest) + One(fs[d].locals[i], o))
    BY <1>9 DEF Count
  <2>3. Count(g, o) = Cardinality(OnStacks(fs, o)) + (Cardinality(rest) + One(v, o))
    BY <1>2, <1>9 DEF Count
  <2>4. QED
    BY <1>6, <1>8, <2>1, <2>2, <2>3
<1>11. Cardinality(OnStacks(fs, o)) + Cardinality(rest) \in Nat
  BY <1>6, <1>8
<1>12. QED
  BY <1>10, <1>11 DEF d, g

LEMMA LocalExact ==
  ASSUME CountsFit,
         NEW fs, FramesOK(fs), Len(fs) > 0, NEW i \in Local, NEW v \in Item, NEW cnt, NEW S,
         v \in Obj => v \in S,
         Exact(fs, cnt, S)
  PROVE  Exact(WithLocal(fs, i, v), Inc(Dec(cnt, fs[Len(fs)].locals[i]), v), S)
<1>. DEFINE d == Len(fs)
            g == WithLocal(fs, i, v)
            old == fs[d].locals[i]
            down == Dec(cnt, old)
<1>1. /\ FramesOK(g) /\ DOMAIN g = DOMAIN fs /\ d \in DOMAIN fs
      /\ \A e \in DOMAIN fs : g[e].stack = fs[e].stack
      /\ \A e \in DOMAIN fs : e # d => g[e].locals = fs[e].locals
      /\ g[d].locals = [fs[d].locals EXCEPT ![i] = v]
      /\ fs[d].locals \in [Local -> Item]
  BY WithLocalType, FrameType
<1>2. \A o : \E r \in Nat : Count(fs, o) = r + One(old, o) /\ Count(g, o) = r + One(v, o)
  BY LocalCount
<1>3. /\ \A o : Count(g, o) \in Nat /\ Count(g, o) <= MaxDepth * MaxStack + MaxDepth * MaxLocals
      /\ MaxDepth * MaxStack \in Int /\ MaxDepth * MaxLocals \in Int
  BY <1>1, PlacesFinite, FrameAssumption
<1>. HIDE DEF d, g
<1>4. RefersTo(g, S)
  <2>1. \A e \in DOMAIN fs, j \in Local : g[e].locals[j] = fs[e].locals[j] \/ g[e].locals[j] = v
    BY <1>1
  <2>2. QED
    BY <1>1, <2>1 DEF Exact, RefersTo
<1>5. old \in Obj => old \in S
  BY <1>1 DEF Exact, RefersTo
<1>. HIDE DEF old
<1>6. old \in Obj => cnt[old] > 0
  BY <1>2, <1>5 DEF Exact, One
<1>7. down \in [Obj -> 0..MaxCnt]
  BY IncType DEF Exact
<1>8. \A o \in S : down[o] = cnt[o] - One(old, o)
  BY <1>6, DecIsOne DEF Exact
<1>. HIDE DEF down
<1>9. v \in Obj => down[v] < MaxCnt
  <2>1. HAVE v \in Obj
  <2>2. PICK r \in Nat : Count(fs, v) = r + One(old, v) /\ Count(g, v) = r + One(v, v)
    BY <1>2
  <2>3. down[v] = r
    BY <1>8, <2>1, <2>2 DEF Exact, One
  <2>4. QED
    BY <1>3, <2>2, <2>3, CntAssumption DEF CountsFit, One
<1>10. Inc(down, v) \in [Obj -> 0..MaxCnt]
  BY <1>7, IncType
<1>11. \A o \in S : Inc(down, v)[o] = Count(g, o)
  <2>1. TAKE o \in S
  <2>2. Inc(down, v)[o] = down[o] + One(v, o)
    BY <1>7, <1>9, IncIsOne DEF Exact
  <2>3. PICK r \in Nat : Count(fs, o) = r + One(old, o) /\ Count(g, o) = r + One(v, o)
    BY <1>2
  <2>4. down[o] = r
    BY <1>8, <2>3 DEF Exact, One
  <2>5. QED
    BY <2>2, <2>3, <2>4
<1>12. Exact(g, Inc(down, v), S)
  BY <1>1, <1>4, <1>10, <1>11 DEF Exact
<1>13. QED
  BY <1>12 DEF g, down, old, d

-----------------------------------------------------------------------------
(* Calls and returns.                                                      *)

(* The frames after a call with n arguments. *)
Called(fs, n) ==
  LET st == fs[Len(fs)].stack
  IN  Append(With(fs, SubSeq(st, 1, Len(st) - n)), NewFrame(SubSeq(st, Len(st) - n + 1, Len(st))))

(* What the callee finds in its locals is what the caller had on its stack. *)
LEMMA CallCount ==
  ASSUME NEW fs, FramesOK(fs), Len(fs) > 0, Len(fs) < MaxDepth,
         NEW n \in 0..MaxLocals, n <= Len(fs[Len(fs)].stack), NEW S, RefersTo(fs, S)
  PROVE  /\ FramesOK(Called(fs, n)) /\ RefersTo(Called(fs, n), S)
         /\ Len(Called(fs, n)) = Len(fs) + 1
         /\ \A o \in Obj : Count(Called(fs, n), o) = Count(fs, o)
<1>. DEFINE d == Len(fs)
            gs == Called(fs, n)
            st == fs[Len(fs)].stack
            args == SubSeq(st, Len(st) - n + 1, Len(st))
            low == Len(st) - n
            below == SubSeq(st, 1, low)
            cs == With(fs, below)
            new == NewFrame(args)
<1>0. /\ d \in DOMAIN fs /\ d \in Nat /\ d > 0 /\ d < MaxDepth /\ DOMAIN fs = 1..d
      /\ st \in Seq(Item) /\ Len(st) <= MaxStack /\ n \in Nat /\ low \in Nat
      /\ fs[d].stack = st
  BY FrameType, FrameAssumption DEF FramesOK
<1>1. /\ below \in Seq(Item) /\ Len(below) = low /\ Len(below) <= MaxStack
      /\ DOMAIN below = 1..low /\ \A k \in 1..low : below[k] = st[k] /\ k \in DOMAIN st
  BY <1>0, FrameAssumption
<1>2. /\ args \in Seq(Item) /\ Len(args) = n /\ DOMAIN args = 1..n
      /\ \A k \in 1..n : args[k] = st[low + k] /\ low + k \in DOMAIN st
      /\ \A k \in 1..n : args[k] \in Item
  BY <1>0
<1>3. /\ FramesOK(cs) /\ DOMAIN cs = DOMAIN fs /\ Len(cs) = d
      /\ cs[d].stack = below
      /\ \A e \in DOMAIN fs : e # d => cs[e] = fs[e]
      /\ \A e \in DOMAIN fs : cs[e].locals = fs[e].locals
  BY <1>0, <1>1, WithType
<1>. HIDE DEF d, low, below, cs, st, args, gs
<1>4. /\ new \in Frame /\ new.stack = <<>>
      /\ \A i \in Local : new.locals[i] = IF i < n THEN args[i + 1] ELSE Null
  <2>1. \A i \in Local : i < n => i + 1 \in 1..n
    BY <1>0 DEF Local
  <2>2. \A i \in Local : (IF i < n THEN args[i + 1] ELSE Null) \in Item
    <3>1. \A k \in 1..n : args[k] \in Item
      BY <1>2
    <3>2. Null \in Item
      BY DEF Item
    <3>3. QED
      BY <2>1, <3>1, <3>2
  <2>3. [i \in Local |-> IF i < n THEN args[i + 1] ELSE Null] \in [Local -> Item]
    BY <2>2
  <2>4. new = [stack |-> <<>>, locals |-> [i \in Local |-> IF i < n THEN args[i + 1] ELSE Null]]
    BY <1>2 DEF NewFrame
  <2>. HIDE DEF new
  <2>5. QED
    <3>1. new \in Frame
      <4>1. <<>> \in Seq(Item)
        OBVIOUS
      <4>2. QED
        BY <2>3, <2>4, <4>1, Zenon DEF Frame
    <3>2. new.stack = <<>>
      BY <2>4
    <3>3. new.locals = [i \in Local |-> IF i < n THEN args[i + 1] ELSE Null]
      BY <2>4
    <3>4. QED
      BY <3>1, <3>2, <3>3
<1>. HIDE DEF new
<1>5. /\ gs \in Seq(Frame) /\ Len(gs) = d + 1 /\ DOMAIN gs = DOMAIN fs \cup {d + 1}
      /\ d + 1 \notin DOMAIN fs
      /\ gs[d + 1] = new /\ \A e \in DOMAIN fs : gs[e] = cs[e]
  <2>1. gs = Append(cs, new)
    BY DEF Called, gs, args, st, cs, new, below, low
  <2>2. QED
    <3>1. cs \in Seq(Frame) /\ Len(cs) = d /\ new \in Frame
      BY <1>3, <1>4 DEF FramesOK
    <3>2. /\ Append(cs, new) \in Seq(Frame) /\ Len(Append(cs, new)) = Len(cs) + 1
          /\ Append(cs, new)[Len(cs) + 1] = new
          /\ \A e \in 1..Len(cs) : Append(cs, new)[e] = cs[e]
      BY <3>1
    <3>3. DOMAIN gs = 1..(d + 1) /\ DOMAIN fs = 1..d
      BY <1>0, <2>1, <3>1, <3>2
    <3>4. DOMAIN gs = DOMAIN fs \cup {d + 1} /\ d + 1 \notin DOMAIN fs
      BY <1>0, <3>3
    <3>5. \A e \in DOMAIN fs : gs[e] = cs[e]
      BY <2>1, <3>1, <3>2, <3>3
    <3>6. QED
      BY <2>1, <3>1, <3>2, <3>4, <3>5
<1>6. FramesOK(gs)
  <2>1. \A e \in DOMAIN gs : Len(gs[e].stack) <= MaxStack
    <3>1. TAKE e \in DOMAIN gs
    <3>2. CASE e = d + 1
      BY <1>4, <1>5, <3>2, FrameAssumption
    <3>3. CASE e \in DOMAIN fs
      BY <1>3, <1>5, <3>3 DEF FramesOK
    <3>4. QED
      BY <1>5, <3>2, <3>3
  <2>2. Len(gs) <= MaxDepth
    BY <1>0, <1>5, FrameAssumption
  <2>3. QED
    BY <1>5, <2>1, <2>2 DEF FramesOK
<1>7. RefersTo(gs, S)
  <2>1. \A k \in DOMAIN st : st[k] \in Obj => st[k] \in S
    BY <1>0 DEF RefersTo
  <2>2. ASSUME NEW e \in DOMAIN gs PROVE
          /\ \A k \in DOMAIN gs[e].stack : gs[e].stack[k] \in Obj => gs[e].stack[k] \in S
          /\ \A i \in Local : gs[e].locals[i] \in Obj => gs[e].locals[i] \in S
    <3>1. CASE e = d + 1
      <4>1. \A i \in Local : i < n => i + 1 \in 1..n
        BY <1>0 DEF Local
      <4>2. \A i \in Local : new.locals[i] \in Obj => new.locals[i] \in S
        <5>1. \A k \in 1..n : args[k] \in Obj => args[k] \in S
          BY <1>2, <2>1
        <5>2. Null \notin Obj
          BY ValueAssumption
        <5>3. QED
          BY <1>4, <4>1, <5>1, <5>2
      <4>3. QED
        BY <1>4, <1>5, <3>1, <4>2
    <3>2. CASE e = d
      <4>1. gs[e].stack = below /\ gs[e].locals = fs[d].locals
        BY <1>0, <1>3, <1>5, <3>2
      <4>2. \A k \in DOMAIN below : below[k] \in Obj => below[k] \in S
        BY <1>1, <2>1
      <4>3. \A i \in Local : fs[d].locals[i] \in Obj => fs[d].locals[i] \in S
        BY <1>0 DEF RefersTo
      <4>4. QED
        BY <4>1, <4>2, <4>3
    <3>3. CASE e # d + 1 /\ e # d
      BY <1>3, <1>5, <3>3 DEF RefersTo
    <3>4. QED
      BY <3>1, <3>2, <3>3
  <2>3. QED
    BY <2>2 DEF RefersTo
<1>8. ASSUME NEW o \in Obj PROVE Count(gs, o) = Count(fs, o)
  <2>. DEFINE passed == {p \in OnStacks(fs, o) : p[1] = d /\ p[2] > low}
              bound == {p \in InLocals(gs, o) : p[1] = d + 1}
  <2>1. OnStacks(fs, o) = OnStacks(gs, o) \cup passed /\ OnStacks(gs, o) \cap passed = {}
    <3>1. \A e, k : <<e, k>> \in OnStacks(gs, o) <=>
                      <<e, k>> \in OnStacks(fs, o) /\ ~(e = d /\ k > low)
      <4>1. TAKE e, k
      <4>2. CASE e = d
        BY <1>0, <1>1, <1>3, <1>5, <4>2 DEF OnStacks
      <4>3. CASE e # d /\ e # d + 1
        BY <1>0, <1>3, <1>5, <4>3 DEF OnStacks
      <4>4. CASE e = d + 1
        BY <1>4, <1>5, <4>4 DEF OnStacks
      <4>5. QED
        BY <4>2, <4>3, <4>4
    <3>2. /\ \A p \in OnStacks(gs, o) : p = <<p[1], p[2]>>
          /\ \A p \in OnStacks(fs, o) : p = <<p[1], p[2]>>
      BY DEF OnStacks
    <3>3. \A p \in OnStacks(gs, o) : p \in OnStacks(fs, o) /\ ~(p[1] = d /\ p[2] > low)
      <4>1. TAKE p \in OnStacks(gs, o)
      <4>2. p = <<p[1], p[2]>>
        BY <3>2
      <4>3. <<p[1], p[2]>> \in OnStacks(fs, o) /\ ~(p[1] = d /\ p[2] > low)
        BY <3>1, <4>2
      <4>4. QED
        BY <4>2, <4>3
    <3>4. \A p \in OnStacks(fs, o) : ~(p[1] = d /\ p[2] > low) => p \in OnStacks(gs, o)
      <4>1. TAKE p \in OnStacks(fs, o)
      <4>2. p = <<p[1], p[2]>>
        BY <3>2
      <4>3. ~(p[1] = d /\ p[2] > low) => <<p[1], p[2]>> \in OnStacks(gs, o)
        BY <3>1, <4>2
      <4>4. QED
        BY <4>2, <4>3
    <3>5. QED
      BY <3>3, <3>4
  <2>2. InLocals(gs, o) = InLocals(fs, o) \cup bound /\ InLocals(fs, o) \cap bound = {}
    <3>1. \A e \in DOMAIN fs : gs[e].locals = fs[e].locals
      BY <1>3, <1>5
    <3>2. \A p \in InLocals(fs, o) : p \in InLocals(gs, o) /\ p[1] # d + 1
      BY <1>5, <3>1 DEF InLocals
    <3>3. \A p \in InLocals(gs, o) : p[1] # d + 1 => p \in InLocals(fs, o)
      BY <1>5, <3>1 DEF InLocals
    <3>4. QED
      BY <3>2, <3>3
  <2>3. /\ IsFiniteSet(OnStacks(gs, o)) /\ IsFiniteSet(OnStacks(fs, o))
        /\ IsFiniteSet(InLocals(gs, o)) /\ IsFiniteSet(InLocals(fs, o))
        /\ Cardinality(OnStacks(gs, o)) \in Nat /\ Cardinality(InLocals(fs, o)) \in Nat
    BY <1>6, PlacesFinite
  <2>4. IsFiniteSet(passed) /\ IsFiniteSet(bound)
    BY <2>3, FS_Subset
  <2>5. Cardinality(bound) = Cardinality(passed)
    <3>. DEFINE f == [p \in passed |-> <<d + 1, p[2] - low - 1>>]
    <3>1. \A p \in passed : /\ p = <<d, p[2]>> /\ p[2] \in Int
                            /\ p[2] - low \in 1..n /\ st[p[2]] = o
      BY <1>0 DEF OnStacks, low
    <3>2. \A p \in passed : f[p] \in bound
      <4>1. TAKE p \in passed
      <4>2. /\ p[2] - low \in 1..n /\ p[2] - low - 1 \in Local /\ p[2] - low - 1 < n
            /\ args[p[2] - low] = o /\ (p[2] - low - 1) + 1 = p[2] - low
            /\ low + (p[2] - low) = p[2]
        <5>1. p[2] \in Int /\ p[2] - low \in 1..n /\ st[p[2]] = o
          BY <3>1
        <5>2. low + (p[2] - low) = p[2]
          BY <1>0, <5>1
        <5>3. args[p[2] - low] = st[low + (p[2] - low)]
          BY <1>2, <5>1
        <5>4. args[p[2] - low] = o
          BY <5>1, <5>2, <5>3
        <5>5. p[2] - low - 1 \in Local /\ p[2] - low - 1 < n /\ (p[2] - low - 1) + 1 = p[2] - low
          BY <1>0, <5>1, FrameAssumption DEF Local
        <5>6. QED
          BY <5>1, <5>2, <5>4, <5>5
      <4>3. new.locals[p[2] - low - 1] = o
        BY <1>4, <4>2
      <4>4. <<d + 1, p[2] - low - 1>> \in InLocals(gs, o)
        BY <1>5, <4>2, <4>3 DEF InLocals
      <4>5. QED
        BY <4>4
    <3>3. \A p, q \in passed : f[p] = f[q] => p = q
      <4>1. TAKE p, q \in passed
      <4>2. HAVE f[p] = f[q]
      <4>3. p[2] - low - 1 = q[2] - low - 1
        BY <4>2
      <4>4. p[2] = q[2]
        BY <1>0, <3>1, <4>3
      <4>5. QED
        BY <3>1, <4>4
    <3>4. \A q \in bound : \E p \in passed : f[p] = q
      <4>1. TAKE q \in bound
      <4>2. /\ q = <<d + 1, q[2]>> /\ q[2] \in Local /\ new.locals[q[2]] = o
        BY <1>5 DEF InLocals
      <4>3. q[2] < n /\ args[q[2] + 1] = o
        BY <1>4, <4>2, ValueAssumption
      <4>4. /\ q[2] \in Int /\ q[2] + 1 \in 1..n
        BY <1>0, <4>2, <4>3 DEF Local
      <4>5. st[low + (q[2] + 1)] = o /\ low + (q[2] + 1) \in DOMAIN st
        BY <1>2, <4>3, <4>4
      <4>6. low + (q[2] + 1) \in 1..MaxStack /\ low + (q[2] + 1) > low
        <5>1. DOMAIN st = 1..Len(st) /\ Len(st) \in Nat
          BY <1>0
        <5>2. low + (q[2] + 1) \in 1..Len(st)
          BY <4>5, <5>1
        <5>3. ASSUME NEW x \in 1..n, low + x \in 1..Len(st)
              PROVE  low + x \in 1..MaxStack /\ low + x > low
          BY <1>0, <5>1, <5>3, FrameAssumption
        <5>4. QED
          BY <4>4, <5>2, <5>3
      <4>7. PICK x \in Int : x = low + (q[2] + 1)
        BY <1>0, <4>4
      <4>8. x - low - 1 = q[2]
        <5>1. \A y, z \in Int : z = low + (y + 1) => z - low - 1 = y
          BY <1>0
        <5>2. QED
          BY <4>4, <4>7, <5>1
      <4>9. <<d, x>> \in passed
        BY <1>0, <4>5, <4>6, <4>7 DEF OnStacks
      <4>10. f[<<d, x>>] = <<d + 1, x - low - 1>>
        BY <4>9
      <4>11. QED
        BY <4>2, <4>8, <4>9, <4>10
    <3>. HIDE DEF passed, bound
    <3>5. f \in [passed -> bound]
      BY <3>2
    <3>6. f \in Bijection(passed, bound)
      <4>. HIDE DEF f
      <4>1. QED
        BY <3>3, <3>4, <3>5 DEF Bijection, Injection, Surjection, IsInjective
    <3>7. ExistsBijection(passed, bound)
      BY <3>6 DEF ExistsBijection
    <3>8. QED
      BY <2>4, <3>7, FS_Bijection
  <2>6. Cardinality(passed) \in Nat
    BY <2>4, FS_CardinalityType
  <2>. HIDE DEF passed, bound
  <2>7. Cardinality(OnStacks(fs, o)) = Cardinality(OnStacks(gs, o)) + Cardinality(passed)
    BY <2>1, <2>3, <2>4, <2>6, DisjointUnion
  <2>8. Cardinality(InLocals(gs, o)) = Cardinality(InLocals(fs, o)) + Cardinality(bound)
    BY <2>2, <2>3, <2>4, DisjointUnion
  <2>9. QED
    BY <2>3, <2>5, <2>6, <2>7, <2>8 DEF Count
<1>9. QED
  BY <1>5, <1>6, <1>7, <1>8 DEF gs, d

(* The locals of the innermost frame that hold o. *)
Own(fs, o) == Cardinality({i \in Local : fs[Len(fs)].locals[i] = o})

(* The places of the frame that returns are its locals. *)
LEMMA ReturnCount ==
  ASSUME NEW fs, FramesOK(fs), Len(fs) > 0, fs[Len(fs)].stack = <<>>,
         NEW gs, gs = SubSeq(fs, 1, Len(fs) - 1), NEW S, RefersTo(fs, S)
  PROVE  /\ FramesOK(gs) /\ RefersTo(gs, S) /\ Len(gs) = Len(fs) - 1
         /\ \A o : Own(fs, o) \in Nat /\ Count(fs, o) = Count(gs, o) + Own(fs, o)
<1>. DEFINE d == Len(fs)
<1>1. /\ d \in DOMAIN fs /\ d \in Nat /\ d > 0 /\ d <= MaxDepth
      /\ fs \in Seq(Frame) /\ DOMAIN fs = 1..d
  BY DEF FramesOK
<1>2. /\ gs \in Seq(Frame) /\ Len(gs) = d - 1 /\ DOMAIN gs = 1..(d - 1)
      /\ \A e \in 1..(d - 1) : gs[e] = fs[e]
  BY <1>1
<1>. HIDE DEF d
<1>3. /\ DOMAIN fs = DOMAIN gs \cup {d} /\ d \notin DOMAIN gs
      /\ \A e \in DOMAIN gs : gs[e] = fs[e]
  BY <1>1, <1>2
<1>4. FramesOK(gs)
  <2>1. \A e \in DOMAIN gs : Len(gs[e].stack) <= MaxStack
    BY <1>3 DEF FramesOK
  <2>2. Len(gs) <= MaxDepth
    BY <1>1, <1>2, FrameAssumption
  <2>3. QED
    BY <1>2, <2>1, <2>2 DEF FramesOK
<1>5. RefersTo(gs, S)
  BY <1>3 DEF RefersTo
<1>6. ASSUME NEW o
      PROVE  Own(fs, o) \in Nat /\ Count(fs, o) = Count(gs, o) + Own(fs, o)
  <2>. DEFINE own == {i \in Local : fs[d].locals[i] = o}
              bound == {p \in InLocals(fs, o) : p[1] = d}
  <2>1. OnStacks(fs, o) = OnStacks(gs, o)
    <3>1. fs[d].stack = <<>>
      BY DEF d
    <3>2. \A e, k : <<e, k>> \in OnStacks(gs, o) <=> <<e, k>> \in OnStacks(fs, o)
      <4>1. TAKE e, k
      <4>2. CASE e = d
        BY <1>3, <3>1, <4>2 DEF OnStacks
      <4>3. CASE e # d
        BY <1>3, <4>3 DEF OnStacks
      <4>4. QED
        BY <4>2, <4>3
    <3>3. /\ \A p \in OnStacks(gs, o) : p = <<p[1], p[2]>>
          /\ \A p \in OnStacks(fs, o) : p = <<p[1], p[2]>>
      BY DEF OnStacks
    <3>4. \A p \in OnStacks(gs, o) : p \in OnStacks(fs, o)
      <4>1. TAKE p \in OnStacks(gs, o)
      <4>2. p = <<p[1], p[2]>>
        BY <3>3
      <4>3. <<p[1], p[2]>> \in OnStacks(fs, o)
        BY <3>2, <4>2
      <4>4. QED
        BY <4>2, <4>3
    <3>5. \A p \in OnStacks(fs, o) : p \in OnStacks(gs, o)
      <4>1. TAKE p \in OnStacks(fs, o)
      <4>2. p = <<p[1], p[2]>>
        BY <3>3
      <4>3. <<p[1], p[2]>> \in OnStacks(gs, o)
        BY <3>2, <4>2
      <4>4. QED
        BY <4>2, <4>3
    <3>6. QED
      BY <3>4, <3>5
  <2>2. InLocals(fs, o) = InLocals(gs, o) \cup bound /\ InLocals(gs, o) \cap bound = {}
    <3>1. \A p \in InLocals(gs, o) : p \in InLocals(fs, o) /\ p[1] # d
      BY <1>3 DEF InLocals
    <3>2. \A p \in InLocals(fs, o) : p[1] # d => p \in InLocals(gs, o)
      BY <1>3 DEF InLocals
    <3>3. QED
      BY <3>1, <3>2
  <2>3. /\ IsFiniteSet(InLocals(fs, o)) /\ IsFiniteSet(InLocals(gs, o))
        /\ Cardinality(OnStacks(gs, o)) \in Nat /\ Cardinality(InLocals(gs, o)) \in Nat
    BY <1>4, PlacesFinite
  <2>4. IsFiniteSet(bound)
    BY <2>3, FS_Subset
  <2>5. Cardinality(own) = Cardinality(bound)
    <3>. DEFINE f == [p \in bound |-> p[2]]
    <3>1. \A p \in bound : p = <<d, p[2]>> /\ p[2] \in own
      BY DEF InLocals
    <3>2. \A i \in own : <<d, i>> \in bound
      BY <1>1 DEF InLocals
    <3>. HIDE DEF own, bound
    <3>3. f \in [bound -> own]
      BY <3>1
    <3>4. \A p, q \in bound : f[p] = f[q] => p = q
      BY <3>1
    <3>5. \A i \in own : \E p \in bound : f[p] = i
      <4>1. TAKE i \in own
      <4>2. f[<<d, i>>] = i
        BY <3>2
      <4>3. QED
        BY <3>2, <4>2
    <3>6. f \in Bijection(bound, own)
      <4>. HIDE DEF f
      <4>1. QED
        BY <3>3, <3>4, <3>5 DEF Bijection, Injection, Surjection, IsInjective
    <3>7. ExistsBijection(bound, own)
      BY <3>6 DEF ExistsBijection
    <3>8. QED
      BY <2>4, <3>7, FS_Bijection
  <2>6. Cardinality(bound) \in Nat
    BY <2>4, FS_CardinalityType
  <2>. HIDE DEF own, bound
  <2>7. Cardinality(InLocals(fs, o)) = Cardinality(InLocals(gs, o)) + Cardinality(bound)
    BY <2>2, <2>3, <2>4, DisjointUnion
  <2>8. Cardinality(own) \in Nat /\ Count(fs, o) = Count(gs, o) + Cardinality(own)
    BY <2>1, <2>3, <2>5, <2>6, <2>7 DEF Count
  <2>9. QED
    BY <2>8 DEF own, Own, d
<1>7. QED
  BY <1>2, <1>4, <1>5, <1>6 DEF d

(* The scrub of its locals takes them off the counts. *)
LEMMA ReturnExact ==
  ASSUME NEW fs, FramesOK(fs), Len(fs) > 0, fs[Len(fs)].stack = <<>>,
         NEW cnt, NEW S, Exact(fs, cnt, S)
  PROVE  Exact(SubSeq(fs, 1, Len(fs) - 1), DecAll(cnt, fs[Len(fs)].locals, 1), S)
<1>. DEFINE gs == SubSeq(fs, 1, Len(fs) - 1)
            down == DecAll(cnt, fs[Len(fs)].locals, 1)
<1>1. RefersTo(fs, S) /\ S \subseteq Obj /\ cnt \in [Obj -> 0..MaxCnt]
  BY DEF Exact
<1>2. /\ FramesOK(gs) /\ RefersTo(gs, S)
      /\ \A o : Own(fs, o) \in Nat /\ Count(fs, o) = Count(gs, o) + Own(fs, o)
  BY <1>1, ReturnCount
<1>3. DOMAIN fs[Len(fs)].locals = Local
  <2>1. Len(fs) \in DOMAIN fs
    BY DEF FramesOK
  <2>2. QED
    BY <2>1, FrameType
<1>4. down = [o \in Obj |-> (cnt[o] - 1 * Own(fs, o)) % (MaxCnt + 1)]
  BY <1>3 DEF DecAll, Occurrences, Own
<1>. HIDE DEF gs, down
<1>5. down \in [Obj -> 0..MaxCnt]
  <2>1. ASSUME NEW o \in Obj PROVE (cnt[o] - 1 * Own(fs, o)) % (MaxCnt + 1) \in 0..MaxCnt
    <3>1. cnt[o] - 1 * Own(fs, o) \in Int
      BY <1>1, <1>2, CntAssumption
    <3>2. QED
      BY <3>1, ModRange
  <2>2. QED
    BY <1>4, <2>1, Zenon
<1>6. ASSUME NEW o \in S PROVE down[o] = Count(gs, o)
  <2>1. cnt[o] = Count(gs, o) + Own(fs, o) /\ Own(fs, o) \in Nat /\ cnt[o] \in 0..MaxCnt
    BY <1>1, <1>2 DEF Exact
  <2>2. Count(gs, o) \in Nat
    BY <1>2, PlacesFinite
  <2>3. cnt[o] - 1 * Own(fs, o) = Count(gs, o) /\ Count(gs, o) \in 0..MaxCnt
    BY <2>1, <2>2, CntAssumption
  <2>4. (cnt[o] - 1 * Own(fs, o)) % (MaxCnt + 1) = Count(gs, o)
    BY <2>3, ModSmall
  <2>5. QED
    BY <1>1, <1>4, <2>4
<1>7. Exact(gs, down, S)
  BY <1>1, <1>2, <1>5, <1>6 DEF Exact
<1>8. QED
  BY <1>7 DEF gs, down

(* Nothing to scrub, nothing happens. *)
LEMMA ScrubNothing ==
  ASSUME NEW cnt \in [Obj -> 0..MaxCnt]
  PROVE  DecAll(cnt, <<>>, 2) = cnt
<1>1. ASSUME NEW o \in Obj PROVE (cnt[o] - 2 * Occurrences(<<>>, o)) % (MaxCnt + 1) = cnt[o]
  <2>1. {i \in DOMAIN <<>> : <<>>[i] = o} = {}
    OBVIOUS
  <2>2. Occurrences(<<>>, o) = 0
    BY <2>1, FS_EmptySet DEF Occurrences
  <2>3. cnt[o] - 2 * Occurrences(<<>>, o) = cnt[o] /\ cnt[o] \in 0..MaxCnt
    BY <2>2, CntAssumption
  <2>4. QED
    BY <2>3, ModSmall
<1>2. DecAll(cnt, <<>>, 2) = [o \in Obj |-> cnt[o]]
  BY <1>1, Zenon DEF DecAll
<1>3. QED
  BY <1>2

-----------------------------------------------------------------------------
(* The types.                                                              *)

(* The fields of an object are never the word that is no value. *)
Tame == \A o \in Obj, s \in Slot : otype[o] = "object" => fields[o][s] \in Item

TypeInv ==
  /\ InterpTypeOK
  /\ Tame
  /\ status = "running" => Len(frames) > 0

LEMMA TopTypes ==
  ASSUME TypeInv, NEW k \in Nat, Operands(k)
  PROVE  /\ FramesOK(frames) /\ Len(frames) > 0 /\ depth = Len(frames)
         /\ depth \in DOMAIN frames /\ status = "running"
         /\ stack \in Seq(Item) /\ Len(stack) \in 0..MaxStack /\ k <= Len(stack)
         /\ locals \in [Local -> Item]
         /\ Below(k) \in Seq(Item) /\ Len(Below(k)) = Len(stack) - k
         /\ Len(Below(k)) <= MaxStack
         /\ \A j \in 0..(k - 1) : Arg(j) \in Item
<1>1. /\ FramesOK(frames) /\ Len(frames) > 0 /\ depth = Len(frames)
      /\ depth \in DOMAIN frames /\ status = "running" /\ k <= Len(stack)
  BY DEF TypeInv, InterpTypeOK, FramesOK, Operands, depth
<1>2. /\ stack \in Seq(Item) /\ Len(stack) \in 0..MaxStack /\ locals \in [Local -> Item]
  BY <1>1, FrameType DEF stack, locals
<1>3. /\ Below(k) \in Seq(Item) /\ Len(Below(k)) = Len(stack) - k
      /\ Len(Below(k)) <= MaxStack
  BY <1>1, <1>2, FrameAssumption DEF Below
<1>4. \A j \in 0..(k - 1) : Arg(j) \in Item
  BY <1>1, <1>2 DEF Arg
<1>5. QED
  BY <1>1, <1>2, <1>3, <1>4

LEMMA SetStackType ==
  ASSUME TypeInv, NEW k \in Nat, Operands(k), NEW st \in Seq(Item), SetStack(st)
  PROVE  /\ frames' = With(frames, st) /\ Len(st) <= MaxStack
         /\ FramesOK(frames') /\ Len(frames') > 0
<1>1. frames' = With(frames, st) /\ Len(st) <= MaxStack
  BY DEF SetStack, With, depth
<1>2. FramesOK(With(frames, st)) /\ Len(With(frames, st)) > 0
  BY <1>1, TopTypes, WithType
<1>3. QED
  BY <1>1, <1>2

LEMMA YieldType ==
  ASSUME TypeInv, NEW k \in Nat, Operands(k), NEW v \in Item, Yield(k, v)
  PROVE  /\ frames' = With(frames, Append(Below(k), v))
         /\ Len(Below(k)) < MaxStack
         /\ FramesOK(frames') /\ Len(frames') > 0
<1>1. Below(k) \in Seq(Item)
  BY TopTypes
<1>2. Append(Below(k), v) \in Seq(Item) /\ Len(Append(Below(k), v)) = Len(Below(k)) + 1
      /\ Len(Below(k)) \in Nat
  BY <1>1
<1>3. /\ frames' = With(frames, Append(Below(k), v))
      /\ Len(Append(Below(k), v)) <= MaxStack
      /\ FramesOK(frames') /\ Len(frames') > 0
  BY <1>2, SetStackType DEF Yield
<1>4. QED
  BY <1>2, <1>3, FrameAssumption

(* A new header is in range. *)
LEMMA LinkType ==
  ASSUME HeapTypeOK, Tame, NEW o \in Obj, NEW t \in ObjType, NEW v \in Value,
         t = "object" => v \in Item, NEW m \in Mark, NEW h \in BOOLEAN, NEW n \in 0..MaxCnt,
         Link(o, t, v, m, h, n)
  PROVE  HeapTypeOK' /\ Tame'
<1>1. HeapTypeOK'
  BY DEF HeapTypeOK, Link
<1>2. \A p \in Obj, s \in Slot : otype'[p] = "object" => fields'[p][s] \in Item
  BY DEF HeapTypeOK, Link, Tame
<1>3. QED
  BY <1>1, <1>2 DEF Tame

LEMMA StoreFieldType ==
  ASSUME HeapTypeOK, Tame, NEW o \in Obj, NEW s \in Slot, NEW v \in Item, Store(o, s, v)
  PROVE  /\ fields' \in [Obj -> [Slot -> Value]]
         /\ \A p \in Obj, r \in Slot : otype[p] = "object" => fields'[p][r] \in Item
<1>1. v \in Value
  BY DEF Item, Value
<1>2. fields' = [fields EXCEPT ![o] = [fields[o] EXCEPT ![s] = v]]
  BY DEF Store
<1>3. [fields[o] EXCEPT ![s] = v] \in [Slot -> Value]
  BY <1>1 DEF HeapTypeOK
<1>4. fields' \in [Obj -> [Slot -> Value]]
  BY <1>2, <1>3 DEF HeapTypeOK
<1>5. \A p \in Obj, r \in Slot : otype[p] = "object" => fields'[p][r] \in Item
  BY <1>2 DEF HeapTypeOK, Tame
<1>6. QED
  BY <1>4, <1>5

LEMMA SameHeapType ==
  ASSUME TypeInv, UNCHANGED <<chain, otype, fields, cmark, hold>>,
         stackCnt' \in [Obj -> 0..MaxCnt]
  PROVE  HeapTypeOK' /\ Tame'
BY DEF TypeInv, InterpTypeOK, HeapTypeOK, Tame

LEMMA TypeParts ==
  ASSUME TypeInv
  PROVE  /\ HeapTypeOK /\ Tame /\ statics \in [Static -> Item] /\ FramesOK(frames)
         /\ stackCnt \in [Obj -> 0..MaxCnt] /\ otype \in [Obj -> ObjType]
         /\ fields \in [Obj -> [Slot -> Value]]
         /\ status \in {"boot", "running", "returned", "exited", "crashed", "finished"}
         /\ Null \in Item /\ Num \in Item /\ Obj \subseteq Item
BY DEF TypeInv, InterpTypeOK, FramesOK, HeapTypeOK, Item

LEMMA TypeJoin ==
  ASSUME HeapTypeOK', Tame', statics' \in [Static -> Item], FramesOK(frames'),
         status' \in {"boot", "running", "returned", "exited", "crashed", "finished"},
         status' = "running" => Len(frames') > 0
  PROVE  TypeInv'
BY DEF TypeInv, InterpTypeOK, FramesOK

(* What takes operands off, or puts an item on in their place, and changes *)
(* no more of the heap than counts.                                        *)
LEMMA PopType ==
  ASSUME TypeInv, NEW k \in Nat, Operands(k), SetStack(Below(k)),
         stackCnt' \in [Obj -> 0..MaxCnt],
         UNCHANGED <<chain, otype, fields, cmark, hold, statics, status>>
  PROVE  TypeInv'
<1>1. FramesOK(frames') /\ Len(frames') > 0
  BY TopTypes, SetStackType
<1>2. QED
  BY <1>1, SameHeapType, TypeParts, TypeJoin

LEMMA PushType ==
  ASSUME TypeInv, NEW k \in Nat, Operands(k), NEW v \in Item, Yield(k, v),
         stackCnt' \in [Obj -> 0..MaxCnt],
         UNCHANGED <<chain, otype, fields, cmark, hold, statics, status>>
  PROVE  TypeInv'
<1>1. FramesOK(frames') /\ Len(frames') > 0
  BY YieldType
<1>2. QED
  BY <1>1, SameHeapType, TypeParts, TypeJoin

(* What makes an object and pushes it. *)
LEMMA MakeType ==
  ASSUME TypeInv, NEW k \in Nat, Operands(k), NEW o \in Obj, Yield(k, o),
         HeapTypeOK', Tame', UNCHANGED <<statics, status>>
  PROVE  TypeInv'
<1>1. FramesOK(frames') /\ Len(frames') > 0
  BY YieldType, TypeParts
<1>2. QED
  BY <1>1, TypeParts, TypeJoin

LEMMA NewFrameType ==
  ASSUME NEW args \in Seq(Item) PROVE NewFrame(args) \in Frame
<1>1. \A i \in Local : i < Len(args) => i + 1 \in DOMAIN args
  BY DEF Local
<1>2. \A k \in DOMAIN args : args[k] \in Item
  OBVIOUS
<1>3. Null \in Item
  BY DEF Item
<1>4. [i \in Local |-> IF i < Len(args) THEN args[i + 1] ELSE Null] \in [Local -> Item]
  BY <1>1, <1>2, <1>3
<1>5. <<>> \in Seq(Item)
  OBVIOUS
<1>6. QED
  BY <1>4, <1>5, Zenon DEF NewFrame, Frame

(* Opcodes that move operands and locals. *)
LEMMA MoveTypes ==
  ASSUME TypeInv,
         \/ \E v \in {Null, Num} : Constant(v)
         \/ \E k \in 1..2 : Consume(k) \/ LoadNumber(k) \/ Arithmetic(k)
         \/ Duplicate \/ DuplicateUnder \/ StoreNumber \/ PrintNothing \/ Crash \/ Fail
         \/ \E i \in Local : LoadLocal(i) \/ StoreLocal(i)
  PROVE  TypeInv'
<1>0. /\ stackCnt \in [Obj -> 0..MaxCnt] /\ Null \in Item /\ Num \in Item
      /\ \A v : \A cnt \in [Obj -> 0..MaxCnt] : /\ Inc(cnt, v) \in [Obj -> 0..MaxCnt]
                                               /\ Dec(cnt, v) \in [Obj -> 0..MaxCnt]
  BY IncType, TypeParts
<1>1. ASSUME NEW v \in {Null, Num}, Constant(v) PROVE TypeInv'
  BY <1>0, <1>1, PushType DEF Constant, heapVars
<1>2. ASSUME NEW k \in 1..2, Consume(k) PROVE TypeInv'
  <2>1. stackCnt' \in [Obj -> 0..MaxCnt]
    BY <1>0, <1>2, Zenon DEF Consume
  <2>2. QED
    BY <1>2, <2>1, PopType DEF Consume
<1>3. ASSUME NEW k \in 1..2, LoadNumber(k) PROVE TypeInv'
  <2>1. stackCnt' \in [Obj -> 0..MaxCnt]
    BY <1>0, <1>3, Zenon DEF LoadNumber
  <2>2. PICK v \in {Null, Num} : Yield(k, v)
    BY <1>3 DEF LoadNumber
  <2>3. QED
    BY <1>0, <1>3, <2>1, <2>2, PushType DEF LoadNumber
<1>4. ASSUME NEW k \in 1..2, Arithmetic(k) PROVE TypeInv'
  <2>1. PICK v \in {Null, Num} : Yield(k, v)
    BY <1>4 DEF Arithmetic
  <2>2. QED
    BY <1>0, <1>4, <2>1, PushType DEF Arithmetic, heapVars
<1>5. CASE Duplicate
  <2>1. Operands(1) /\ Operands(0) /\ Arg(0) \in Item
    BY <1>5, TopTypes DEF Duplicate, Operands
  <2>2. stackCnt' \in [Obj -> 0..MaxCnt]
    BY <1>0, <1>5, Zenon DEF Duplicate
  <2>3. QED
    BY <1>5, <2>1, <2>2, PushType DEF Duplicate
<1>6. CASE DuplicateUnder
  <2>1. Operands(2) /\ Arg(0) \in Item /\ Arg(1) \in Item /\ Below(2) \in Seq(Item)
    BY <1>6, TopTypes DEF DuplicateUnder
  <2>2. Below(2) \o <<Arg(0), Arg(1), Arg(0)>> \in Seq(Item)
    BY <2>1
  <2>3. FramesOK(frames') /\ Len(frames') > 0
    BY <1>6, <2>1, <2>2, SetStackType DEF DuplicateUnder
  <2>4. stackCnt' \in [Obj -> 0..MaxCnt]
    BY <1>0, <1>6, Zenon DEF DuplicateUnder
  <2>5. QED
    BY <1>6, <2>3, <2>4, SameHeapType, TypeParts, TypeJoin DEF DuplicateUnder
<1>7. CASE StoreNumber
  <2>1. stackCnt' \in [Obj -> 0..MaxCnt]
    BY <1>0, <1>7, Zenon DEF StoreNumber
  <2>2. QED
    BY <1>7, <2>1, PopType DEF StoreNumber
<1>8. CASE PrintNothing
  <2>1. stackCnt' \in [Obj -> 0..MaxCnt]
    BY <1>0, <1>8, Zenon DEF PrintNothing
  <2>2. QED
    BY <1>8, <2>1, PopType DEF PrintNothing
<1>9. CASE Crash \/ Fail
  BY <1>0, <1>9, SameHeapType, TypeParts, TypeJoin DEF Crash, Fail, heapVars
<1>10. ASSUME NEW i \in Local, LoadLocal(i) PROVE TypeInv'
  <2>1. Operands(0) /\ locals[i] \in Item
    BY <1>10, TopTypes DEF LoadLocal
  <2>2. stackCnt' \in [Obj -> 0..MaxCnt]
    BY <1>0, <1>10, Zenon DEF LoadLocal
  <2>3. QED
    BY <1>10, <2>1, <2>2, PushType DEF LoadLocal
<1>11. ASSUME NEW i \in Local, StoreLocal(i) PROVE TypeInv'
  <2>1. /\ frames \in Seq(Frame) /\ Len(frames) > 0 /\ depth = Len(frames) /\ FramesOK(frames)
        /\ depth \in DOMAIN frames /\ Below(1) \in Seq(Item) /\ Len(Below(1)) <= MaxStack
        /\ Arg(0) \in Item /\ locals \in [Local -> Item]
    BY <1>11, TopTypes DEF StoreLocal, FramesOK
  <2>2. [stack |-> Below(1), locals |-> [locals EXCEPT ![i] = Arg(0)]] \in Frame
    BY <2>1 DEF Frame
  <2>3. frames' = [frames EXCEPT ![depth] =
                     [stack |-> Below(1), locals |-> [locals EXCEPT ![i] = Arg(0)]]]
    BY <1>11 DEF StoreLocal
  <2>4. frames' \in Seq(Frame) /\ Len(frames') = Len(frames) /\ DOMAIN frames' = DOMAIN frames
    BY <2>1, <2>2, <2>3
  <2>5. \A e \in DOMAIN frames' : Len(frames'[e].stack) <= MaxStack
    BY <2>1, <2>3, <2>4 DEF FramesOK
  <2>6. FramesOK(frames') /\ Len(frames') > 0
    BY <2>1, <2>4, <2>5 DEF FramesOK
  <2>7. stackCnt' \in [Obj -> 0..MaxCnt]
    BY <1>0, <1>11, Zenon DEF StoreLocal
  <2>8. QED
    BY <1>11, <2>6, <2>7, SameHeapType, TypeParts, TypeJoin DEF StoreLocal
<1>12. QED
  BY <1>1, <1>2, <1>3, <1>4, <1>5, <1>6, <1>7, <1>8, <1>9, <1>10, <1>11

(* Opcodes and native methods that make objects. *)
LEMMA MakeTypes ==
  ASSUME TypeInv, NEW o \in Obj,
         \/ Start(o) \/ NewObject(o) \/ NewClassObject(o) \/ NewArray(o) \/ LoadResource(o)
         \/ \E a \in Obj, s \in Slot : NewString(o, a, s)
         \/ \E str, data \in [Slot -> Obj], f \in Slot : EnumClasses(o, str, data, f)
  PROVE  TypeInv'
<1>0. /\ HeapTypeOK /\ Tame /\ Null \in Item /\ Num \in Item /\ Obj \subseteq Item
      /\ Null \in Value /\ Num \in Value /\ Wild \in Value /\ Obj \subseteq Value
      /\ 0 \in Mark /\ Junk \subseteq Mark /\ 0 \in 0..MaxCnt /\ 1 \in 0..MaxCnt
  BY TypeParts, MarkAssumption, CntAssumption DEF Value, Mark
<1>1. CASE Start(o)
  <2>1. HeapTypeOK' /\ Tame'
    BY <1>0, <1>1, LinkType DEF Start, CreateObject, ObjType
  <2>2. <<o>> \in Seq(Item)
    BY <1>0
  <2>3. NewFrame(<<o>>) \in Frame /\ NewFrame(<<o>>).stack = <<>>
    BY <2>2, NewFrameType DEF NewFrame
  <2>4. frames' = <<NewFrame(<<o>>)>>
    BY <1>1 DEF Start
  <2>5. frames' \in Seq(Frame) /\ Len(frames') = 1 /\ DOMAIN frames' = {1}
    BY <2>3, <2>4
  <2>6. FramesOK(frames')
    BY <2>3, <2>4, <2>5, FrameAssumption DEF FramesOK
  <2>7. QED
    BY <1>1, <2>1, <2>5, <2>6, TypeParts, TypeJoin DEF Start
<1>2. CASE NewObject(o)
  <2>1. HeapTypeOK' /\ Tame'
    BY <1>0, <1>2, LinkType DEF NewObject, CreateObject, ObjType
  <2>2. QED
    BY <1>2, <2>1, MakeType DEF NewObject
<1>3. CASE NewClassObject(o)
  <2>1. HeapTypeOK' /\ Tame'
    BY <1>0, <1>3, LinkType DEF NewClassObject, CreateObject, ObjType
  <2>2. QED
    BY <1>3, <2>1, MakeType DEF NewClassObject
<1>4. CASE NewArray(o)
  <2>1. CASE CreateObjectArray(o, FALSE, 1)
    <3>1. PICK m \in Junk, v \in Unwritten : Link(o, "oarray", v, m, FALSE, 1)
      BY <2>1 DEF CreateObjectArray
    <3>2. m \in Mark /\ v \in Value
      BY <1>0, ValueAssumption
    <3>3. HeapTypeOK' /\ Tame'
      BY <1>0, <3>1, <3>2, LinkType DEF ObjType
    <3>4. QED
      BY <1>4, <3>3, MakeType DEF NewArray
  <2>2. CASE CreatePrimArray(o, 1)
    <3>1. HeapTypeOK' /\ Tame'
      BY <1>0, <2>2, LinkType DEF CreatePrimArray, ObjType
    <3>2. QED
      BY <1>4, <3>1, MakeType DEF NewArray
  <2>3. QED
    BY <1>4, <2>1, <2>2 DEF NewArray
<1>5. CASE LoadResource(o)
  <2>1. Dec(stackCnt, Arg(0)) \in [Obj -> 0..MaxCnt]
    BY <1>0, IncType DEF HeapTypeOK
  <2>2. stackCnt' \in [Obj -> 0..MaxCnt]
    BY <1>0, <1>5, <2>1 DEF LoadResource
  <2>3. HeapTypeOK'
    BY <1>0, <1>5, <2>2 DEF LoadResource, HeapTypeOK, ObjType
  <2>4. Tame'
    BY <1>0, <1>5 DEF LoadResource, Tame, HeapTypeOK
  <2>5. QED
    BY <1>5, <2>3, <2>4, MakeType DEF LoadResource
<1>6. ASSUME NEW a \in Obj, NEW s \in Slot, NewString(o, a, s) PROVE TypeInv'
  <2>1. [r \in Slot |-> IF r = s THEN a ELSE Null] \in [Slot -> Item]
    BY <1>0
  <2>2. [r \in Slot |-> Num] \in [Slot -> Item]
    BY <1>0
  <2>3. Item \subseteq Value
    BY DEF Item, Value
  <2>4. /\ [r \in Slot |-> IF r = s THEN a ELSE Null] \in [Slot -> Value]
        /\ [r \in Slot |-> Num] \in [Slot -> Value]
    BY <1>0
  <2>5. HeapTypeOK'
    BY <1>0, <1>6, <2>4 DEF NewString, HeapTypeOK, ObjType
  <2>6. Tame'
    BY <1>0, <1>6, <2>1, <2>2 DEF NewString, Tame, HeapTypeOK
  <2>7. QED
    BY <1>6, <2>5, <2>6, MakeType DEF NewString
<1>7. ASSUME NEW str \in [Slot -> Obj], NEW data \in [Slot -> Obj], NEW f \in Slot,
             EnumClasses(o, str, data, f)
      PROVE  TypeInv'
  <2>. DEFINE strs == {str[s] : s \in Slot}
              datas == {data[s] : s \in Slot}
              new == {o} \cup strs \cup datas
              named(p) == LET x == CHOOSE t \in Slot : str[t] = p
                          IN  [s \in Slot |-> IF s = f THEN data[x] ELSE Null]
  <2>1. new \subseteq Obj
    OBVIOUS
  <2>2. \A p \in strs : named(p) \in [Slot -> Item]
    <3>1. TAKE p \in strs
    <3>2. \E t \in Slot : str[t] = p
      OBVIOUS
    <3>3. (CHOOSE t \in Slot : str[t] = p) \in Slot
      BY <3>2
    <3>4. QED
      BY <1>0, <3>3
  <2>3. [s \in Slot |-> Num] \in [Slot -> Item]
    BY <1>0
  <2>. HIDE DEF named
  <2>4. /\ chain' = chain \cup new
        /\ otype' = [p \in Obj |-> IF p = o THEN "oarray"
                                  ELSE IF p \in strs THEN "object"
                                  ELSE IF p \in datas THEN "parray" ELSE otype[p]]
        /\ fields' = [p \in Obj |-> IF p = o THEN str
                                   ELSE IF p \in datas THEN [s \in Slot |-> Num]
                                   ELSE IF p \in strs THEN named(p) ELSE fields[p]]
        /\ hold' = [p \in Obj |-> IF p \in new THEN p \notin datas ELSE hold[p]]
        /\ stackCnt' = [p \in Obj |-> IF p = o THEN 1 ELSE IF p \in new THEN 0 ELSE stackCnt[p]]
    BY <1>7 DEF EnumClasses, named
  <2>5. PICK m \in Junk :
          cmark' = [p \in Obj |-> IF p = o THEN m ELSE IF p \in new THEN 0 ELSE cmark[p]]
    BY <1>7 DEF EnumClasses
  <2>. HIDE DEF strs, datas, new
  <2>6. Item \subseteq Value
    BY DEF Item, Value
  <2>7. chain' \subseteq Obj /\ otype' \in [Obj -> ObjType]
    BY <1>0, <2>1, <2>4 DEF HeapTypeOK, ObjType
  <2>8. fields' \in [Obj -> [Slot -> Value]]
    <3>1. \A p \in Obj : (IF p = o THEN str ELSE IF p \in datas THEN [s \in Slot |-> Num]
                          ELSE IF p \in strs THEN named(p) ELSE fields[p]) \in [Slot -> Value]
      BY <1>0, <2>2, <2>3, <2>6 DEF HeapTypeOK
    <3>2. QED
      BY <2>4, <3>1
  <2>9. stackCnt' \in [Obj -> 0..MaxCnt]
    BY <1>0, <2>4 DEF HeapTypeOK
  <2>10. cmark' \in [Obj -> Mark]
    BY <1>0, <2>5 DEF HeapTypeOK
  <2>11. hold' \in [Obj -> BOOLEAN]
    BY <1>0, <2>4 DEF HeapTypeOK
  <2>12. HeapTypeOK'
    BY <2>7, <2>8, <2>9, <2>10, <2>11 DEF HeapTypeOK
  <2>13. Tame'
    <3>1. ASSUME NEW p \in Obj, NEW s \in Slot, otype'[p] = "object"
          PROVE  fields'[p][s] \in Item
      <4>1. p # o
        BY <2>4, <3>1
      <4>2. CASE p \in datas
        BY <1>0, <2>4, <4>1, <4>2
      <4>3. CASE p \notin datas /\ p \in strs
        BY <2>2, <2>4, <4>1, <4>3
      <4>4. CASE p \notin datas /\ p \notin strs
        BY <1>0, <2>4, <3>1, <4>1, <4>4 DEF Tame
      <4>5. QED
        BY <4>2, <4>3, <4>4
    <3>2. QED
      BY <3>1 DEF Tame
  <2>14. Operands(0) /\ Yield(0, o) /\ UNCHANGED <<statics, status>>
    BY <1>7 DEF EnumClasses
  <2>15. QED
    BY <2>12, <2>13, <2>14, MakeType
<1>8. QED
  BY <1>1, <1>2, <1>3, <1>4, <1>5, <1>6, <1>7

(* Opcodes that read and write fields, elements and static fields. *)
LEMMA FieldTypes ==
  ASSUME TypeInv,
         \/ \E s \in Slot : GetField(s) \/ PutField(s) \/ LoadElement(s) \/ StoreElement(s)
         \/ \E x \in Static : PutStatic(x) \/ GetStatic(x)
  PROVE  TypeInv'
<1>0. /\ HeapTypeOK /\ Tame /\ statics \in [Static -> Item]
      /\ stackCnt \in [Obj -> 0..MaxCnt]
      /\ \A v : \A cnt \in [Obj -> 0..MaxCnt] : /\ Inc(cnt, v) \in [Obj -> 0..MaxCnt]
                                               /\ Dec(cnt, v) \in [Obj -> 0..MaxCnt]
  BY IncType, TypeParts
<1>1. ASSUME NEW s \in Slot, GetField(s) PROVE TypeInv'
  <2>1. fields[Arg(0)][s] \in Item
    BY <1>0, <1>1 DEF GetField, Tame
  <2>2. stackCnt' \in [Obj -> 0..MaxCnt]
    BY <1>0, <1>1, Zenon DEF GetField
  <2>3. QED
    BY <1>1, <2>1, <2>2, PushType DEF GetField
<1>2. ASSUME NEW s \in Slot, LoadElement(s) PROVE TypeInv'
  <2>1. fields[Arg(1)][s] \in Item
    BY <1>2 DEF LoadElement
  <2>2. stackCnt' \in [Obj -> 0..MaxCnt]
    BY <1>0, <1>2, Zenon DEF LoadElement
  <2>3. QED
    BY <1>2, <2>1, <2>2, PushType DEF LoadElement
<1>3. ASSUME NEW o \in Obj, NEW v \in Item, NEW k \in 2..3, NEW s \in Slot,
             Operands(k), SetStack(Below(k)), Store(o, s, v), stackCnt' \in [Obj -> 0..MaxCnt],
             UNCHANGED <<chain, otype, cmark, hold, statics, status>>
      PROVE  TypeInv'
  <2>1. /\ fields' \in [Obj -> [Slot -> Value]]
        /\ \A p \in Obj, r \in Slot : otype[p] = "object" => fields'[p][r] \in Item
    BY <1>0, <1>3, StoreFieldType
  <2>2. HeapTypeOK' /\ Tame'
    BY <1>0, <1>3, <2>1 DEF HeapTypeOK, Tame
  <2>3. FramesOK(frames') /\ Len(frames') > 0
    BY <1>3, TopTypes, SetStackType
  <2>4. QED
    BY <1>3, <2>2, <2>3, TypeParts, TypeJoin
<1>4. ASSUME NEW s \in Slot, PutField(s) PROVE TypeInv'
  <2>1. stackCnt' \in [Obj -> 0..MaxCnt]
    BY <1>0, <1>4, Zenon DEF PutField
  <2>2. Arg(0) \in Item
    BY <1>4, TopTypes DEF PutField
  <2>3. QED
    BY <1>3, <1>4, <2>1, <2>2 DEF PutField
<1>5. ASSUME NEW s \in Slot, StoreElement(s) PROVE TypeInv'
  <2>1. stackCnt' \in [Obj -> 0..MaxCnt]
    BY <1>0, <1>5, Zenon DEF StoreElement
  <2>2. Arg(0) \in Item
    BY <1>5, TopTypes DEF StoreElement
  <2>3. QED
    BY <1>3, <1>5, <2>1, <2>2 DEF StoreElement
<1>6. ASSUME NEW x \in Static, PutStatic(x) PROVE TypeInv'
  <2>1. stackCnt' \in [Obj -> 0..MaxCnt]
    BY <1>0, <1>6, Zenon DEF PutStatic
  <2>2. Arg(0) \in Item
    BY <1>6, TopTypes DEF PutStatic
  <2>3. statics' \in [Static -> Item]
    BY <1>0, <1>6, <2>2 DEF PutStatic
  <2>4. FramesOK(frames') /\ Len(frames') > 0
    BY <1>6, TopTypes, SetStackType DEF PutStatic
  <2>5. QED
    BY <1>6, <2>1, <2>3, <2>4, SameHeapType, TypeParts, TypeJoin DEF PutStatic
<1>7. ASSUME NEW x \in Static, GetStatic(x) PROVE TypeInv'
  <2>1. stackCnt' \in [Obj -> 0..MaxCnt]
    BY <1>0, <1>7, Zenon DEF GetStatic
  <2>2. statics[x] \in Item
    BY <1>0
  <2>3. QED
    BY <1>7, <2>1, <2>2, PushType DEF GetStatic
<1>8. QED
  BY <1>1, <1>2, <1>4, <1>5, <1>6, <1>7

LEMMA DecAllType ==
  ASSUME NEW cnt \in [Obj -> 0..MaxCnt], NEW f, NEW times \in Nat,
         \A o \in Obj : Occurrences(f, o) \in Nat
  PROVE  DecAll(cnt, f, times) \in [Obj -> 0..MaxCnt]
<1>1. ASSUME NEW o \in Obj PROVE (cnt[o] - times * Occurrences(f, o)) % (MaxCnt + 1) \in 0..MaxCnt
  <2>1. cnt[o] \in Int /\ times * Occurrences(f, o) \in Int
    BY CntAssumption
  <2>2. QED
    BY <2>1, ModRange
<1>2. QED
  BY <1>1, Zenon DEF DecAll

LEMMA OccurrencesType ==
  ASSUME NEW f, IsFiniteSet(DOMAIN f), NEW o PROVE Occurrences(f, o) \in Nat
<1>1. IsFiniteSet({i \in DOMAIN f : f[i] = o})
  BY FS_Subset
<1>2. QED
  BY <1>1, FS_CardinalityType DEF Occurrences

(* Calls and returns. *)
LEMMA CallTypes ==
  ASSUME TypeInv,
         \/ \E n \in 0..MaxLocals : Invoke(n)
         \/ \E k \in 0..1 : Return(k)
  PROVE  TypeInv'
<1>1. ASSUME NEW n \in 0..MaxLocals, Invoke(n) PROVE TypeInv'
  <2>1. /\ n \in Nat /\ Operands(n) /\ depth < MaxDepth /\ frames' = Called(frames, n)
    BY <1>1 DEF Invoke, Called, With, Below, depth, stack
  <2>2. /\ FramesOK(frames) /\ Len(frames) > 0 /\ n <= Len(frames[Len(frames)].stack)
        /\ Len(frames) \in Nat /\ Len(frames) < MaxDepth
    BY <2>1, TopTypes DEF stack, depth, FramesOK
  <2>3. RefersTo(frames, Obj)
    BY DEF RefersTo
  <2>4. FramesOK(frames') /\ Len(frames') > 0
    BY <2>1, <2>2, <2>3, CallCount
  <2>5. QED
    BY <1>1, <2>4, SameHeapType, TypeParts, TypeJoin DEF Invoke, heapVars
<1>2. ASSUME NEW k \in 0..1, Return(k) PROVE TypeInv'
  <2>. DEFINE result == IF k = 1 THEN Arg(0) ELSE Null
              popped == Dec(stackCnt, result)
              scrubbed == DecAll(DecAll(popped, Below(k), 2), ScrubbedLocals, 1)
              caller == SubSeq(frames, 1, depth - 1)
  <2>1. /\ k \in Nat /\ Operands(k) /\ UNCHANGED <<chain, otype, fields, cmark, hold, statics>>
        /\ stackCnt' = IF depth = 1 THEN scrubbed ELSE Inc(scrubbed, result)
    BY <1>2 DEF Return
  <2>2. /\ FramesOK(frames) /\ Len(frames) > 0 /\ depth = Len(frames) /\ status = "running"
        /\ depth \in DOMAIN frames /\ Below(k) \in Seq(Item)
        /\ result \in Item
    BY <2>1, TopTypes, TypeParts
  <2>3. stackCnt' \in [Obj -> 0..MaxCnt]
    <3>1. popped \in [Obj -> 0..MaxCnt]
      BY TypeParts, IncType
    <3>2. \A o \in Obj : Occurrences(Below(k), o) \in Nat
      <4>1. DOMAIN Below(k) = 1..Len(Below(k)) /\ Len(Below(k)) \in Int /\ 1 \in Int
        BY <2>2
      <4>2. IsFiniteSet(1..Len(Below(k)))
        BY <4>1, FS_Interval, Zenon
      <4>3. QED
        BY <4>1, <4>2, OccurrencesType
    <3>3. \A o \in Obj : Occurrences(ScrubbedLocals, o) \in Nat
      <4>1. DOMAIN ScrubbedLocals \subseteq Local
        BY DEF ScrubbedLocals
      <4>2. MaxLocals - 1 \in Int /\ 0 \in Int
        BY FrameAssumption
      <4>3. IsFiniteSet(Local)
        BY <4>2, FS_Interval, Zenon DEF Local
      <4>4. IsFiniteSet(DOMAIN ScrubbedLocals)
        BY <4>1, <4>3, FS_Subset
      <4>5. QED
        BY <4>4, OccurrencesType
    <3>4. DecAll(popped, Below(k), 2) \in [Obj -> 0..MaxCnt]
      BY <3>1, <3>2, DecAllType
    <3>5. scrubbed \in [Obj -> 0..MaxCnt]
      BY <3>3, <3>4, DecAllType
    <3>6. Inc(scrubbed, result) \in [Obj -> 0..MaxCnt]
      BY <3>5, IncType
    <3>7. QED
      BY <2>1, <3>5, <3>6
  <2>. HIDE DEF result, popped, scrubbed
  <2>4. CASE depth = 1
    <3>1. frames' = <<>> /\ status' = "returned"
      BY <1>2, <2>4 DEF Return
    <3>2. FramesOK(frames')
      BY <3>1, FrameAssumption DEF FramesOK
    <3>3. QED
      BY <2>1, <2>3, <3>1, <3>2, SameHeapType, TypeParts, TypeJoin
  <2>5. CASE depth # 1
    <3>1. /\ k = 1 => Len(caller[depth - 1].stack) < MaxStack
          /\ frames' = IF k = 0 THEN caller
                       ELSE [caller EXCEPT ![depth - 1].stack = Append(@, result)]
          /\ status' = status
      BY <1>2, <2>5 DEF Return, result
    <3>2. /\ caller \in Seq(Frame) /\ Len(caller) = depth - 1 /\ Len(caller) > 0
          /\ DOMAIN caller = 1..(depth - 1) /\ \A e \in 1..(depth - 1) : caller[e] = frames[e]
          /\ \A e \in 1..(depth - 1) : e \in DOMAIN frames
      BY <2>2, <2>5 DEF FramesOK
    <3>. HIDE DEF caller
    <3>3. FramesOK(caller)
      <4>1. Len(caller) <= MaxDepth
        BY <2>2, <3>2, FrameAssumption DEF FramesOK
      <4>2. \A e \in DOMAIN caller : Len(caller[e].stack) <= MaxStack
        BY <2>2, <3>2 DEF FramesOK
      <4>3. QED
        BY <3>2, <4>1, <4>2 DEF FramesOK
    <3>4. CASE k = 0
      BY <2>1, <2>3, <3>1, <3>2, <3>3, <3>4, SameHeapType, TypeParts, TypeJoin
    <3>5. CASE k = 1
      <4>1. frames' = With(caller, Append(caller[Len(caller)].stack, result))
        BY <3>1, <3>2, <3>5 DEF With
      <4>2. /\ caller[Len(caller)].stack \in Seq(Item)
            /\ Len(caller[Len(caller)].stack) < MaxStack
        BY <3>1, <3>2, <3>3, <3>5, FrameType
      <4>3. /\ Append(caller[Len(caller)].stack, result) \in Seq(Item)
            /\ Len(Append(caller[Len(caller)].stack, result)) <= MaxStack
        BY <2>2, <4>2, FrameAssumption
      <4>4. FramesOK(frames') /\ Len(frames') > 0
        BY <3>2, <3>3, <4>1, <4>3, WithType
      <4>5. QED
        BY <2>1, <2>2, <2>3, <3>1, <4>4, SameHeapType, TypeParts, TypeJoin
    <3>6. QED
      BY <3>4, <3>5
  <2>6. QED
    BY <2>4, <2>5
<1>3. QED
  BY <1>1, <1>2

(* The machine starts with values of their kinds, and every step keeps them. *)
LEMMA InterpInitTypes == InterpInit => TypeInv
<1>1. SUFFICES ASSUME InterpInit PROVE TypeInv
  OBVIOUS
<1>2. HeapTypeOK
  <2>1. /\ Null \in Value /\ 0 \in Mark /\ 0 \in 0..MaxCnt /\ "object" \in ObjType
    BY MarkAssumption, CntAssumption DEF ObjType, Value, Mark
  <2>2. /\ chain \subseteq Obj
        /\ otype \in [Obj -> ObjType]
        /\ stackCnt \in [Obj -> 0..MaxCnt]
        /\ cmark \in [Obj -> Mark]
        /\ hold \in [Obj -> BOOLEAN]
    BY <1>1, <2>1 DEF InterpInit, HeapInit
  <2>3. fields \in [Obj -> [Slot -> Value]]
    BY <1>1, <2>1 DEF InterpInit, HeapInit
  <2>4. QED
    BY <2>2, <2>3 DEF HeapTypeOK
<1>3. Tame
  BY <1>1 DEF InterpInit, HeapInit, Tame, Item
<1>4. /\ statics \in [Static -> Item] /\ frames \in Seq(Frame) /\ Len(frames) <= MaxDepth
      /\ \A d \in DOMAIN frames : Len(frames[d].stack) <= MaxStack
      /\ status = "boot"
  BY <1>1, FrameAssumption DEF InterpInit, Item
<1>5. QED
  BY <1>2, <1>3, <1>4 DEF TypeInv, InterpTypeOK

LEMMA InterpNextTypes == TypeInv /\ [InterpNext]_interpVars => TypeInv'
<1>1. ASSUME TypeInv, InterpStep PROVE TypeInv'
  BY <1>1, MoveTypes, MakeTypes, FieldTypes, CallTypes DEF InterpStep
<1>2. ASSUME TypeInv, UNCHANGED interpVars PROVE TypeInv'
  BY <1>2 DEF interpVars, heapVars, TypeInv, Tame, InterpTypeOK, HeapTypeOK
<1>3. QED
  BY <1>1, <1>2 DEF InterpNext, InterpStopped

(***************************************************************************)
(* Whatever the code, the program and the widths: every operand, local,    *)
(* field and static field is a value of its kind, and no stack or call is  *)
(* deeper than it may be.                                                  *)
(***************************************************************************)
THEOREM InterpTypeCorrect == InterpSpec => []InterpTypeOK
<1>1. TypeInv => InterpTypeOK
  BY DEF TypeInv
<1>2. QED
  BY <1>1, InterpInitTypes, InterpNextTypes, PTL DEF InterpSpec

-----------------------------------------------------------------------------
(* The counts.                                                             *)

(***************************************************************************)
(* What keeps the counts right: only objects of the chain are within reach *)
(* of the program.                                                         *)
(***************************************************************************)
CountInv ==
  /\ \A o \in chain, s \in Slot : fields[o][s] \in Obj => fields[o][s] \in chain
  /\ \A x \in Static : statics[x] \in Obj => statics[x] \in chain
  /\ status = "boot" => chain = {}
  /\ Exact(frames, stackCnt, chain)

LEMMA CountJoin ==
  ASSUME CountInv, UNCHANGED <<chain, fields, statics, status>>,
         Exact(frames', stackCnt', chain)
  PROVE  CountInv'
BY DEF CountInv

LEMMA OperandsLess ==
  ASSUME NEW k \in Nat, NEW j \in 0..k, Operands(k), TypeInv PROVE Operands(j)
BY TopTypes DEF Operands

LEMMA PopNone ==
  ASSUME TypeInv, CountInv, Operands(0)
  PROVE  Exact(With(frames, Below(0)), stackCnt, chain)
<1>1. /\ FramesOK(frames) /\ Len(frames) > 0 /\ depth = Len(frames) /\ stack \in Seq(Item)
  BY TopTypes
<1>2. Below(0) = stack
  BY <1>1, BelowNone DEF Below
<1>3. With(frames, Below(0)) = frames
  BY <1>1, <1>2, WithOwn DEF stack
<1>4. QED
  BY <1>3 DEF CountInv

LEMMA PopOne ==
  ASSUME TypeInv, NEW k \in Nat, Operands(k + 1), NEW cnt, NEW S,
         Exact(With(frames, Below(k)), cnt, S)
  PROVE  /\ Exact(With(frames, Below(k + 1)), Dec(cnt, Arg(k)), S)
         /\ Arg(k) \in Obj => Arg(k) \in S
<1>1. /\ FramesOK(frames) /\ Len(frames) > 0 /\ depth = Len(frames) /\ stack \in Seq(Item)
      /\ k < Len(stack) /\ Len(stack) <= MaxStack
  <2>1. k + 1 \in Nat
    OBVIOUS
  <2>2. /\ FramesOK(frames) /\ Len(frames) > 0 /\ depth = Len(frames) /\ stack \in Seq(Item)
        /\ k + 1 <= Len(stack) /\ Len(stack) \in 0..MaxStack
    BY <2>1, TopTypes
  <2>3. QED
    BY <2>2, FrameAssumption
<1>2. /\ Below(k) = Append(Below(k + 1), Arg(k))
      /\ Below(k + 1) \in Seq(Item) /\ Len(Below(k + 1)) = Len(stack) - (k + 1)
      /\ Arg(k) \in Item
  BY <1>1, BelowStep DEF Below, Arg
<1>3. Len(Below(k + 1)) < MaxStack /\ Len(Below(k + 1)) \in Nat
  BY <1>1, <1>2, FrameAssumption
<1>4. Exact(With(frames, Append(Below(k + 1), Arg(k))), cnt, S)
  BY <1>2
<1>5. Exact(With(frames, Below(k + 1)), Dec(cnt, Arg(k)), S)
  BY <1>1, <1>2, <1>3, <1>4, PopExact
<1>6. Arg(k) \in Obj => Arg(k) \in S
  <2>. DEFINE st == Append(Below(k + 1), Arg(k))
  <2>1. /\ st \in Seq(Item) /\ Len(st) <= MaxStack /\ Len(st) \in DOMAIN st
        /\ st[Len(st)] = Arg(k)
    BY <1>2, <1>3, FrameAssumption
  <2>2. RefersTo(With(frames, st), S)
    BY <1>4 DEF Exact
  <2>. HIDE DEF st
  <2>3. /\ Len(frames) \in DOMAIN With(frames, st) /\ With(frames, st)[Len(frames)].stack = st
    BY <1>1, <2>1, WithType
  <2>4. QED
    BY <2>1, <2>2, <2>3 DEF RefersTo
<1>7. QED
  BY <1>5, <1>6

(* One, two or three operands are popped. *)
LEMMA Pops ==
  ASSUME TypeInv, CountInv, NEW k \in 0..3, Operands(k)
  PROVE  /\ Exact(With(frames, Below(0)), stackCnt, chain)
         /\ k >= 1 => /\ Exact(With(frames, Below(1)), Dec(stackCnt, Arg(0)), chain)
                      /\ Arg(0) \in Item /\ (Arg(0) \in Obj => Arg(0) \in chain)
         /\ k >= 2 => /\ Exact(With(frames, Below(2)), Dec(Dec(stackCnt, Arg(0)), Arg(1)), chain)
                      /\ Arg(1) \in Item /\ (Arg(1) \in Obj => Arg(1) \in chain)
         /\ k >= 3 => /\ Exact(With(frames, Below(3)),
                               Dec(Dec(Dec(stackCnt, Arg(0)), Arg(1)), Arg(2)), chain)
                      /\ Arg(2) \in Item /\ (Arg(2) \in Obj => Arg(2) \in chain)
<1>1. Exact(With(frames, Below(0)), stackCnt, chain)
  BY OperandsLess, PopNone
<1>2. CASE k >= 1
  <2>1. Operands(0 + 1) /\ Arg(0) \in Item
    BY <1>2, OperandsLess, TopTypes
  <2>2. /\ Exact(With(frames, Below(0 + 1)), Dec(stackCnt, Arg(0)), chain)
        /\ Arg(0) \in Obj => Arg(0) \in chain
    BY <1>1, <2>1, PopOne
  <2>3. Exact(With(frames, Below(1)), Dec(stackCnt, Arg(0)), chain)
    BY <2>2
  <2>4. CASE k >= 2
    <3>1. Operands(1 + 1) /\ Arg(1) \in Item
      BY <2>4, OperandsLess, TopTypes
    <3>2. /\ Exact(With(frames, Below(1 + 1)), Dec(Dec(stackCnt, Arg(0)), Arg(1)), chain)
          /\ Arg(1) \in Obj => Arg(1) \in chain
      BY <2>3, <3>1, PopOne
    <3>3. Exact(With(frames, Below(2)), Dec(Dec(stackCnt, Arg(0)), Arg(1)), chain)
      BY <3>2
    <3>4. CASE k >= 3
      <4>1. Operands(2 + 1) /\ Arg(2) \in Item
        BY <3>4, OperandsLess, TopTypes
      <4>2. /\ Exact(With(frames, Below(2 + 1)),
                     Dec(Dec(Dec(stackCnt, Arg(0)), Arg(1)), Arg(2)), chain)
            /\ Arg(2) \in Obj => Arg(2) \in chain
        BY <3>3, <4>1, PopOne
      <4>3. QED
        BY <1>1, <2>1, <2>2, <2>3, <3>1, <3>2, <3>3, <4>1, <4>2
    <3>5. QED
      BY <1>1, <2>1, <2>2, <2>3, <3>1, <3>2, <3>3, <3>4
  <2>5. QED
    BY <1>1, <2>1, <2>2, <2>3, <2>4
<1>3. QED
  BY <1>1, <1>2

LEMMA SetStackExact ==
  ASSUME TypeInv, NEW k \in Nat, Operands(k), SetStack(Below(k)), NEW cnt, NEW S,
         Exact(With(frames, Below(k)), cnt, S)
  PROVE  Exact(frames', cnt, S)
BY TopTypes, SetStackType

LEMMA YieldExact ==
  ASSUME CountsFit, TypeInv, NEW k \in Nat, Operands(k), NEW v \in Item, Yield(k, v),
         NEW cnt, NEW S, v \in Obj => v \in S, Exact(With(frames, Below(k)), cnt, S)
  PROVE  Exact(frames', Inc(cnt, v), S)
<1>1. /\ frames' = With(frames, Append(Below(k), v)) /\ Len(Below(k)) < MaxStack
      /\ Below(k) \in Seq(Item) /\ FramesOK(frames) /\ Len(frames) > 0
  BY TopTypes, YieldType
<1>2. QED
  BY <1>1, PushExact

LEMMA YieldNew ==
  ASSUME CountsFit, TypeInv, NEW k \in Nat, Operands(k), NEW o \in Obj, Yield(k, o),
         NEW cnt, NEW S, o \notin S, Exact(With(frames, Below(k)), cnt, S)
  PROVE  Exact(frames', [cnt EXCEPT ![o] = 1], S \cup {o})
<1>1. o \in Item
  BY DEF Item
<1>2. /\ frames' = With(frames, Append(Below(k), o)) /\ Len(Below(k)) < MaxStack
      /\ Below(k) \in Seq(Item) /\ FramesOK(frames) /\ Len(frames) > 0
  BY <1>1, TopTypes, YieldType
<1>3. QED
  BY <1>2, NewPushed

(* Values that are no references change no count. *)
LEMMA NoRefSame ==
  ASSUME NEW cnt, NEW v, v \notin Obj PROVE Inc(cnt, v) = cnt /\ Dec(cnt, v) = cnt
BY DEF Inc, Dec

LEMMA MoveCounts ==
  ASSUME CountsFit, TypeInv, CountInv,
         \/ \E v \in {Null, Num} : Constant(v)
         \/ \E k \in 1..2 : Consume(k) \/ LoadNumber(k) \/ Arithmetic(k)
         \/ Duplicate \/ DuplicateUnder \/ StoreNumber \/ PrintNothing \/ Crash \/ Fail
         \/ \E i \in Local : LoadLocal(i) \/ StoreLocal(i)
  PROVE  CountInv'
<1>0. \A v \in {Null, Num} : v \in Item /\ v \notin Obj
  BY ValueAssumption DEF Item
<1>1. ASSUME NEW v \in {Null, Num}, Constant(v) PROVE CountInv'
  <2>1. Exact(frames', Inc(stackCnt, v), chain)
    BY <1>0, <1>1, Pops, YieldExact DEF Constant
  <2>2. QED
    BY <1>0, <1>1, <2>1, NoRefSame, CountJoin DEF Constant, heapVars
<1>2. ASSUME NEW k \in 1..2, Consume(k) PROVE CountInv'
  <2>1. Operands(k) /\ SetStack(Below(k))
    BY <1>2 DEF Consume
  <2>2. CASE k = 1
    <3>1. Exact(frames', Dec(stackCnt, Arg(0)), chain)
      BY <2>1, <2>2, Pops, SetStackExact
    <3>2. QED
      BY <1>2, <2>2, <3>1, CountJoin DEF Consume
  <2>3. CASE k = 2
    <3>1. Exact(frames', Dec(Dec(stackCnt, Arg(0)), Arg(1)), chain)
      BY <2>1, <2>3, Pops, SetStackExact
    <3>2. stackCnt \in [Obj -> 0..MaxCnt]
      BY TypeParts
    <3>3. stackCnt' = Dec(Dec(stackCnt, Arg(0)), Arg(1))
      BY <1>2, <2>3, <3>2, DecCommutes DEF Consume
    <3>4. QED
      BY <1>2, <3>1, <3>3, CountJoin DEF Consume
  <2>4. QED
    BY <2>2, <2>3
<1>3. ASSUME NEW k \in 1..2, NEW v \in {Null, Num}, NEW cnt, Operands(k), Yield(k, v),
             Exact(With(frames, Below(k)), cnt, chain)
      PROVE  Exact(frames', cnt, chain)
  <2>1. Exact(frames', Inc(cnt, v), chain)
    BY <1>0, <1>3, YieldExact
  <2>2. QED
    BY <1>0, <2>1, NoRefSame
<1>4. ASSUME NEW k \in 1..2, LoadNumber(k) PROVE CountInv'
  <2>1. PICK v \in {Null, Num} : Yield(k, v)
    BY <1>4 DEF LoadNumber
  <2>2. Operands(k)
    BY <1>4 DEF LoadNumber
  <2>3. CASE k = 1
    <3>1. Exact(frames', Dec(stackCnt, Arg(0)), chain)
      BY <1>3, <2>1, <2>2, <2>3, Pops
    <3>2. QED
      BY <1>4, <2>3, <3>1, CountJoin DEF LoadNumber
  <2>4. CASE k = 2
    <3>1. Arg(0) \notin Obj
      BY <1>4, <2>4 DEF LoadNumber, NoRef
    <3>2. Dec(stackCnt, Arg(0)) = stackCnt
      BY <3>1, NoRefSame
    <3>3. Exact(With(frames, Below(2)), Dec(Dec(stackCnt, Arg(0)), Arg(1)), chain)
      BY <2>2, <2>4, Pops
    <3>4. Exact(frames', Dec(stackCnt, Arg(1)), chain)
      BY <1>3, <2>1, <2>2, <2>4, <3>2, <3>3
    <3>5. QED
      BY <1>4, <2>4, <3>4, CountJoin DEF LoadNumber
  <2>5. QED
    BY <2>3, <2>4
<1>5. ASSUME NEW k \in 1..2, Arithmetic(k) PROVE CountInv'
  <2>1. PICK v \in {Null, Num} : Yield(k, v)
    BY <1>5 DEF Arithmetic
  <2>2. Operands(k) /\ Arg(0) \notin Obj /\ Arg(k - 1) \notin Obj
    BY <1>5 DEF Arithmetic, NoRef
  <2>3. Exact(With(frames, Below(k)), stackCnt, chain)
    <3>1. CASE k = 1
      BY <2>2, <3>1, Pops, NoRefSame
    <3>2. CASE k = 2
      <4>1. Arg(1) \notin Obj
        BY <2>2, <3>2
      <4>2. Dec(Dec(stackCnt, Arg(0)), Arg(1)) = stackCnt
        BY <2>2, <4>1, NoRefSame
      <4>3. QED
        BY <2>2, <3>2, <4>2, Pops
    <3>3. QED
      BY <3>1, <3>2
  <2>4. Exact(frames', stackCnt, chain)
    BY <1>3, <2>1, <2>2, <2>3
  <2>5. QED
    BY <1>5, <2>4, CountJoin DEF Arithmetic, heapVars
<1>6. CASE Duplicate
  <2>1. Operands(1) /\ Yield(0, Arg(0)) /\ stackCnt' = Inc(stackCnt, Arg(0))
    BY <1>6 DEF Duplicate
  <2>2. Operands(0)
    BY <2>1, OperandsLess
  <2>3. Arg(0) \in Item /\ (Arg(0) \in Obj => Arg(0) \in chain)
        /\ Exact(With(frames, Below(0)), stackCnt, chain)
    BY <2>1, Pops
  <2>4. Exact(frames', stackCnt', chain)
    BY <2>1, <2>2, <2>3, YieldExact
  <2>5. QED
    BY <1>6, <2>4, CountJoin DEF Duplicate
<1>7. CASE DuplicateUnder
  <2>. DEFINE B == Below(2)
              a == Arg(0)
              b == Arg(1)
              cnt == Dec(Dec(stackCnt, a), b)
              B1 == Append(B, a)
              B2 == Append(B1, b)
              B3 == Append(B2, a)
              C1 == Append(B, b)
              C2 == Append(C1, a)
  <2>1. /\ Operands(2) /\ SetStack(B \o <<a, b, a>>) /\ stackCnt' = Inc(stackCnt, a)
    BY <1>7 DEF DuplicateUnder
  <2>2. /\ FramesOK(frames) /\ Len(frames) > 0
        /\ B \in Seq(Item) /\ Len(B) <= MaxStack /\ Len(B) \in Nat
        /\ Exact(With(frames, B), cnt, chain)
        /\ a \in Item /\ (a \in Obj => a \in chain) /\ b \in Item /\ (b \in Obj => b \in chain)
    BY <2>1, TopTypes, Pops
  <2>3. C2 = stack /\ With(frames, C2) = frames
    <3>1. /\ stack \in Seq(Item) /\ 2 <= Len(stack) /\ depth = Len(frames) /\ Len(stack) \in Nat
      BY <2>1, TopTypes
    <3>2. Below(0) = stack
      BY <3>1, BelowNone DEF Below
    <3>3. Below(0) = Append(Below(0 + 1), Arg(0)) /\ Below(1) = Append(Below(1 + 1), Arg(1))
      <4>1. 0 < Len(stack) /\ 1 < Len(stack) /\ 0 \in Nat /\ 1 \in Nat
        BY <3>1
      <4>2. QED
        BY <3>1, <4>1, BelowStep DEF Below, Arg
    <3>4. 0 + 1 = 1 /\ 1 + 1 = 2
      OBVIOUS
    <3>5. C2 = stack
      BY <3>2, <3>3, <3>4, Zenon
    <3>6. QED
      BY <2>2, <3>1, <3>5, WithOwn DEF stack
  <2>. HIDE DEF a, b, cnt
  <2>4. B \o <<a, b, a>> = B3 /\ B3 \in Seq(Item) /\ Len(B3) = Len(B) + 3
    BY <2>2
  <2>5. /\ B1 \in Seq(Item) /\ Len(B1) = Len(B) + 1 /\ B2 \in Seq(Item) /\ Len(B2) = Len(B) + 2
        /\ C1 \in Seq(Item) /\ Len(C1) = Len(B) + 1
    BY <2>2
  <2>6. frames' = With(frames, B3) /\ Len(B3) <= MaxStack
    BY <2>1, <2>4, SetStackType
  <2>. HIDE DEF B, B1, B2, B3, C1, C2
  <2>7. Len(B) < MaxStack /\ Len(B1) < MaxStack /\ Len(B2) < MaxStack /\ Len(C1) < MaxStack
    BY <2>2, <2>4, <2>5, <2>6, FrameAssumption
  <2>8. Exact(With(frames, B1), Inc(cnt, a), chain)
    BY <2>2, <2>7, PushExact DEF B1
  <2>9. Exact(With(frames, B2), Inc(Inc(cnt, a), b), chain)
    BY <2>2, <2>5, <2>7, <2>8, PushExact DEF B2
  <2>10. Exact(frames', Inc(Inc(Inc(cnt, a), b), a), chain)
    <3>1. Exact(With(frames, B3), Inc(Inc(Inc(cnt, a), b), a), chain)
      BY <2>2, <2>5, <2>7, <2>9, PushExact DEF B3
    <3>2. QED
      BY <2>6, <3>1
  <2>11. ASSUME NEW o \in chain PROVE Count(frames', o) = Count(frames, o) + One(a, o)
    <3>1. Count(With(frames, B1), o) = Count(With(frames, B), o) + One(a, o)
      BY <2>2, <2>7, AppendCount DEF B1
    <3>2. Count(With(frames, B2), o) = Count(With(frames, B1), o) + One(b, o)
      BY <2>2, <2>5, <2>7, AppendCount DEF B2
    <3>3. Count(With(frames, B3), o) = Count(With(frames, B2), o) + One(a, o)
      BY <2>2, <2>5, <2>7, AppendCount DEF B3
    <3>4. Count(With(frames, C1), o) = Count(With(frames, B), o) + One(b, o)
      BY <2>2, <2>7, AppendCount DEF C1
    <3>5. Count(With(frames, C2), o) = Count(With(frames, C1), o) + One(a, o)
      BY <2>2, <2>5, <2>7, AppendCount DEF C2
    <3>6. Count(With(frames, B), o) \in Nat /\ One(a, o) \in Nat /\ One(b, o) \in Nat
      BY <2>2, PlacesFinite DEF One, Exact
    <3>7. QED
      BY <2>3, <2>6, <3>1, <3>2, <3>3, <3>4, <3>5, <3>6
  <2>12. a \in Obj => stackCnt[a] < MaxCnt
    <3>1. HAVE a \in Obj
    <3>2. stackCnt[a] = Count(frames, a) /\ stackCnt[a] \in 0..MaxCnt
      BY <2>2, <3>1 DEF CountInv, Exact
    <3>3. Count(frames', a) = stackCnt[a] + 1
      BY <2>2, <2>11, <3>1, <3>2 DEF One
    <3>4. /\ Count(frames', a) <= MaxDepth * MaxStack + MaxDepth * MaxLocals
          /\ MaxDepth * MaxStack \in Int /\ MaxDepth * MaxLocals \in Int
      BY <2>10, PlacesFinite, FrameAssumption DEF Exact
    <3>5. QED
      BY <3>2, <3>3, <3>4, CntAssumption DEF CountsFit
  <2>13. /\ stackCnt' \in [Obj -> 0..MaxCnt]
         /\ \A o \in chain : stackCnt'[o] = Count(frames', o)
    <3>1. stackCnt \in [Obj -> 0..MaxCnt] /\ chain \subseteq Obj
      BY DEF CountInv, Exact
    <3>2. stackCnt' \in [Obj -> 0..MaxCnt]
      BY <2>1, <3>1, IncType
    <3>3. ASSUME NEW o \in chain PROVE stackCnt'[o] = Count(frames', o)
      <4>1. stackCnt'[o] = stackCnt[o] + One(a, o)
        BY <2>1, <2>12, <3>1, IncIsOne
      <4>2. QED
        BY <2>11, <4>1 DEF CountInv, Exact
    <3>4. QED
      BY <3>2, <3>3
  <2>14. Exact(frames', stackCnt', chain)
    BY <2>10, <2>13 DEF Exact
  <2>15. QED
    BY <1>7, <2>14, CountJoin DEF DuplicateUnder
<1>8. CASE StoreNumber
  <2>1. /\ Operands(3) /\ SetStack(Below(3)) /\ stackCnt' = Dec(stackCnt, Arg(2))
        /\ Arg(0) \notin Obj /\ Arg(1) \notin Obj
    BY <1>8 DEF StoreNumber, NoRef
  <2>2. Dec(Dec(Dec(stackCnt, Arg(0)), Arg(1)), Arg(2)) = stackCnt'
    BY <2>1, NoRefSame
  <2>3. Exact(frames', stackCnt', chain)
    BY <2>1, <2>2, Pops, SetStackExact
  <2>4. QED
    BY <1>8, <2>3, CountJoin DEF StoreNumber
<1>9. CASE PrintNothing
  <2>1. Exact(frames', stackCnt', chain)
    BY <1>9, Pops, SetStackExact DEF PrintNothing
  <2>2. QED
    BY <1>9, <2>1, CountJoin DEF PrintNothing
<1>10. CASE Crash \/ Fail
  <2>1. UNCHANGED <<heapVars, statics, frames>> /\ status' # "boot"
    BY <1>10 DEF Crash, Fail
  <2>2. QED
    BY <2>1 DEF CountInv, heapVars
<1>11. ASSUME NEW i \in Local, LoadLocal(i) PROVE CountInv'
  <2>1. Operands(0) /\ Yield(0, locals[i]) /\ stackCnt' = Inc(stackCnt, locals[i])
    BY <1>11 DEF LoadLocal
  <2>2. locals[i] \in Item /\ depth \in DOMAIN frames
    BY <2>1, TopTypes
  <2>3. locals[i] \in Obj => locals[i] \in chain
    BY <2>2 DEF CountInv, Exact, RefersTo, locals
  <2>4. Exact(frames', stackCnt', chain)
    BY <2>1, <2>2, <2>3, Pops, YieldExact
  <2>5. QED
    BY <1>11, <2>4, CountJoin DEF LoadLocal
<1>12. ASSUME NEW i \in Local, StoreLocal(i) PROVE CountInv'
  <2>. DEFINE fs == With(frames, Below(1))
  <2>1. /\ Operands(1)
        /\ frames' = [frames EXCEPT ![depth] =
                        [stack |-> Below(1), locals |-> [locals EXCEPT ![i] = Arg(0)]]]
        /\ stackCnt' = Inc(Dec(Dec(stackCnt, Arg(0)), locals[i]), Arg(0))
    BY <1>12 DEF StoreLocal
  <2>2. /\ FramesOK(frames) /\ Len(frames) > 0 /\ depth = Len(frames) /\ depth \in DOMAIN frames
        /\ Below(1) \in Seq(Item) /\ Len(Below(1)) <= MaxStack /\ frames \in Seq(Frame)
        /\ Arg(0) \in Item /\ (Arg(0) \in Obj => Arg(0) \in chain)
        /\ Exact(fs, Dec(stackCnt, Arg(0)), chain)
    BY <2>1, TopTypes, Pops DEF FramesOK
  <2>3. /\ FramesOK(fs) /\ Len(fs) = Len(frames) /\ fs[Len(fs)].stack = Below(1)
        /\ fs[Len(fs)].locals = locals
    BY <2>2, WithType DEF locals
  <2>4. frames' = WithLocal(fs, i, Arg(0))
    <3>1. WithLocal(fs, i, Arg(0)) =
            [fs EXCEPT ![depth] = [stack |-> Below(1), locals |-> [locals EXCEPT ![i] = Arg(0)]]]
      BY <2>2, <2>3 DEF WithLocal
    <3>2. QED
      BY <2>1, <2>2, <3>1 DEF With
  <2>. HIDE DEF fs
  <2>5. Exact(WithLocal(fs, i, Arg(0)),
              Inc(Dec(Dec(stackCnt, Arg(0)), fs[Len(fs)].locals[i]), Arg(0)), chain)
    BY <2>2, <2>3, LocalExact
  <2>6. Exact(frames', stackCnt', chain)
    BY <2>1, <2>3, <2>4, <2>5
  <2>7. QED
    BY <1>12, <2>6, CountJoin DEF StoreLocal
<1>13. QED
  BY <1>1, <1>2, <1>4, <1>5, <1>6, <1>7, <1>8, <1>9, <1>10, <1>11, <1>12

(* A new header refers to nothing. *)
LEMMA LinkReach ==
  ASSUME TypeInv, CountInv, NEW o \in Obj, NEW t, NEW v, v \notin Obj, NEW m, NEW h, NEW n,
         Link(o, t, v, m, h, n), statics' = statics
  PROVE  /\ o \notin chain /\ chain' = chain \cup {o}
         /\ stackCnt' = [stackCnt EXCEPT ![o] = n]
         /\ \A p \in chain', s \in Slot : fields'[p][s] \in Obj => fields'[p][s] \in chain'
         /\ \A x \in Static : statics'[x] \in Obj => statics'[x] \in chain'
<1>1. /\ o \notin chain /\ chain' = chain \cup {o}
      /\ stackCnt' = [stackCnt EXCEPT ![o] = n]
      /\ fields' = [fields EXCEPT ![o] = [s \in Slot |-> v]]
  BY DEF Link
<1>2. fields \in [Obj -> [Slot -> Value]] /\ chain \subseteq Obj
  BY TypeParts DEF CountInv, Exact
<1>3. ASSUME NEW p \in chain', NEW s \in Slot, fields'[p][s] \in Obj
      PROVE  fields'[p][s] \in chain'
  <2>1. p # o
    BY <1>1, <1>2, <1>3
  <2>2. p \in chain /\ fields'[p] = fields[p]
    BY <1>1, <1>2, <2>1
  <2>3. QED
    BY <1>1, <1>3, <2>2 DEF CountInv
<1>4. \A x \in Static : statics'[x] \in Obj => statics'[x] \in chain'
  BY <1>1 DEF CountInv
<1>5. QED
  BY <1>1, <1>3, <1>4

LEMMA MakeJoin ==
  ASSUME \A p \in chain', s \in Slot : fields'[p][s] \in Obj => fields'[p][s] \in chain',
         \A x \in Static : statics'[x] \in Obj => statics'[x] \in chain',
         status' = "running", Exact(frames', stackCnt', chain')
  PROVE  CountInv'
BY DEF CountInv

(* Many new objects that nothing in the frames refers to. *)
LEMMA FreshSet ==
  ASSUME NEW fs, NEW cnt, NEW S, Exact(fs, cnt, S), NEW N \in SUBSET Obj, N \cap S = {},
         NEW new \in [Obj -> 0..MaxCnt],
         \A o \in N : new[o] = 0, \A o \in S : new[o] = cnt[o]
  PROVE  Exact(fs, new, S \cup N)
<1>1. \A o \in N : Count(fs, o) = 0
  BY NotReferred DEF Exact
<1>2. RefersTo(fs, S \cup N)
  BY DEF Exact, RefersTo
<1>3. QED
  BY <1>1, <1>2 DEF Exact

(* The frame of the first method refers to the entry object once. *)
LEMMA FirstFrame ==
  ASSUME NEW o \in Obj, NEW cnt \in [Obj -> 0..MaxCnt], cnt[o] = 1
  PROVE  Exact(<<NewFrame(<<o>>)>>, cnt, {o})
<1>. DEFINE new == NewFrame(<<o>>)
            fs == <<new>>
<1>1. /\ new \in Frame /\ new.stack = <<>>
      /\ new.locals = [i \in Local |-> IF i < 1 THEN <<o>>[i + 1] ELSE Null]
  <2>1. <<o>> \in Seq(Item) /\ Len(<<o>>) = 1
    BY DEF Item
  <2>2. QED
    BY <2>1, NewFrameType DEF NewFrame
<1>2. /\ 0 \in Local /\ new.locals[0] = o
      /\ \A i \in Local : i # 0 => new.locals[i] = Null
  <2>1. 0 \in Local /\ \A i \in Local : i < 1 <=> i = 0
    BY FrameAssumption DEF Local
  <2>2. <<o>>[0 + 1] = o
    OBVIOUS
  <2>3. QED
    BY <1>1, <2>1, <2>2
<1>3. fs \in Seq(Frame) /\ Len(fs) = 1 /\ DOMAIN fs = {1} /\ fs[1] = new
  BY <1>1
<1>. HIDE DEF fs, new
<1>4. FramesOK(fs)
  BY <1>1, <1>3, FrameAssumption DEF FramesOK
<1>5. Null \notin Obj
  BY ValueAssumption
<1>6. RefersTo(fs, {o})
  BY <1>1, <1>2, <1>3, <1>5 DEF RefersTo
<1>7. OnStacks(fs, o) = {}
  BY <1>1, <1>3 DEF OnStacks
<1>8. InLocals(fs, o) = {<<1, 0>>}
  <2>1. <<1, 0>> \in InLocals(fs, o)
    BY <1>2, <1>3 DEF InLocals
  <2>2. \A p \in InLocals(fs, o) : p = <<1, 0>>
    BY <1>2, <1>3, <1>5 DEF InLocals
  <2>3. QED
    BY <2>1, <2>2
<1>9. Count(fs, o) = 1
  <2>1. Cardinality(OnStacks(fs, o)) = 0
    BY <1>7, FS_EmptySet
  <2>2. Cardinality({<<1, 0>>}) = 1
    BY FS_Singleton
  <2>3. QED
    BY <1>8, <2>1, <2>2 DEF Count
<1>10. Exact(fs, cnt, {o})
  BY <1>4, <1>6, <1>9 DEF Exact
<1>11. QED
  BY <1>10 DEF fs, new

LEMMA MakeCounts ==
  ASSUME CountsFit, TypeInv, CountInv, NEW o \in Obj,
         \/ Start(o) \/ NewObject(o) \/ NewClassObject(o) \/ NewArray(o) \/ LoadResource(o)
         \/ \E a \in Obj, s \in Slot : NewString(o, a, s)
         \/ \E str, data \in [Slot -> Obj], f \in Slot : EnumClasses(o, str, data, f)
  PROVE  CountInv'
<1>0. /\ Null \notin Obj /\ Num \notin Obj
      /\ chain \subseteq Obj /\ stackCnt \in [Obj -> 0..MaxCnt]
      /\ fields \in [Obj -> [Slot -> Value]]
      /\ 0 \in 0..MaxCnt /\ 1 \in 0..MaxCnt
      /\ \A k \in 0..1 : Operands(k) => status = "running"
  BY TypeParts, ValueAssumption, CntAssumption DEF CountInv, Exact, Operands
<1>1. CASE Start(o)
  <2>1. /\ Link(o, "object", Null, 0, TRUE, 1) /\ statics' = statics /\ status' = "running"
        /\ frames' = <<NewFrame(<<o>>)>> /\ status = "boot"
    BY <1>1 DEF Start, CreateObject
  <2>2. /\ chain' = chain \cup {o} /\ stackCnt' = [stackCnt EXCEPT ![o] = 1]
        /\ \A p \in chain', s \in Slot : fields'[p][s] \in Obj => fields'[p][s] \in chain'
        /\ \A x \in Static : statics'[x] \in Obj => statics'[x] \in chain'
    BY <1>0, <2>1, LinkReach
  <2>3. chain' = {o}
    BY <2>1, <2>2 DEF CountInv
  <2>4. stackCnt' \in [Obj -> 0..MaxCnt] /\ stackCnt'[o] = 1
    BY <1>0, <2>2
  <2>5. Exact(frames', stackCnt', chain')
    BY <2>1, <2>3, <2>4, FirstFrame
  <2>6. QED
    BY <2>1, <2>2, <2>5, MakeJoin
<1>2. ASSUME NEW k \in 0..1, NEW t, NEW v, v \notin Obj, NEW m, NEW h, Operands(k),
             Link(o, t, v, m, h, 1), k = 1 => NoRef(0), Yield(k, o),
             UNCHANGED <<statics, status>>
      PROVE  CountInv'
  <2>1. /\ o \notin chain /\ chain' = chain \cup {o} /\ stackCnt' = [stackCnt EXCEPT ![o] = 1]
        /\ \A p \in chain', s \in Slot : fields'[p][s] \in Obj => fields'[p][s] \in chain'
        /\ \A x \in Static : statics'[x] \in Obj => statics'[x] \in chain'
    BY <1>2, LinkReach
  <2>2. Exact(With(frames, Below(k)), stackCnt, chain)
    BY <1>2, Pops, NoRefSame DEF NoRef
  <2>3. k \in Nat /\ status' = "running"
    BY <1>0, <1>2
  <2>4. Exact(frames', [stackCnt EXCEPT ![o] = 1], chain \cup {o})
    BY <1>2, <2>1, <2>2, <2>3, YieldNew
  <2>5. Exact(frames', stackCnt', chain')
    BY <2>1, <2>4
  <2>6. QED
    BY <2>1, <2>3, <2>5, MakeJoin
<1>3. CASE NewObject(o)
  <2>1. /\ Link(o, "object", Null, 0, FALSE, 1) /\ Operands(0) /\ Yield(0, o)
        /\ UNCHANGED <<statics, status>>
    BY <1>3 DEF NewObject, CreateObject
  <2>2. 0 \in 0..1 /\ 0 # 1
    OBVIOUS
  <2>3. QED
    BY <1>0, <1>2, <2>1, <2>2, Zenon
<1>4. CASE NewClassObject(o)
  <2>1. /\ Link(o, "object", Null, 0, TRUE, 1) /\ Operands(0) /\ Yield(0, o)
        /\ UNCHANGED <<statics, status>>
    BY <1>4 DEF NewClassObject, CreateObject
  <2>2. 0 \in 0..1 /\ 0 # 1
    OBVIOUS
  <2>3. QED
    BY <1>0, <1>2, <2>1, <2>2, Zenon
<1>5. CASE NewArray(o)
  <2>1. Operands(1) /\ NoRef(0) /\ Yield(1, o) /\ UNCHANGED <<statics, status>>
    BY <1>5 DEF NewArray
  <2>2. CASE CreateObjectArray(o, FALSE, 1)
    <3>1. PICK m \in Junk, v \in Unwritten : Link(o, "oarray", v, m, FALSE, 1)
      BY <2>2 DEF CreateObjectArray
    <3>2. v \notin Obj /\ 1 \in 0..1
      BY DEF CountsFit
    <3>3. QED
      BY <1>2, <2>1, <3>1, <3>2, Zenon
  <2>3. CASE CreatePrimArray(o, 1)
    <3>1. Link(o, "parray", Num, 0, FALSE, 1)
      BY <2>3, Zenon DEF CreatePrimArray
    <3>2. 1 \in 0..1
      OBVIOUS
    <3>3. QED
      BY <1>0, <1>2, <2>1, <3>1, <3>2, Zenon
  <2>4. QED
    BY <1>5, <2>2, <2>3 DEF NewArray
<1>6. CASE LoadResource(o)
  <2>1. /\ Operands(1) /\ o \notin chain /\ chain' = chain \cup {o}
        /\ fields' = [fields EXCEPT ![o] = [s \in Slot |-> Num]]
        /\ stackCnt' = [Dec(stackCnt, Arg(0)) EXCEPT ![o] = 1]
        /\ Yield(1, o) /\ UNCHANGED <<statics, status>>
    BY <1>6 DEF LoadResource
  <2>2. Exact(With(frames, Below(1)), Dec(stackCnt, Arg(0)), chain)
    BY <2>1, Pops
  <2>3. Exact(frames', stackCnt', chain')
    BY <2>1, <2>2, YieldNew
  <2>4. \A p \in chain', s \in Slot : fields'[p][s] \in Obj => fields'[p][s] \in chain'
    BY <1>0, <2>1 DEF CountInv
  <2>5. \A x \in Static : statics'[x] \in Obj => statics'[x] \in chain'
    BY <2>1 DEF CountInv
  <2>6. status' = "running"
    BY <1>0, <2>1
  <2>7. QED
    BY <2>3, <2>4, <2>5, <2>6, MakeJoin
<1>7. ASSUME NEW a \in Obj, NEW s \in Slot, NewString(o, a, s) PROVE CountInv'
  <2>1. /\ Operands(0) /\ o # a /\ o \notin chain /\ a \notin chain
        /\ chain' = chain \cup {o, a}
        /\ fields' = [fields EXCEPT ![o] = [r \in Slot |-> IF r = s THEN a ELSE Null],
                                    ![a] = [r \in Slot |-> Num]]
        /\ stackCnt' = [stackCnt EXCEPT ![o] = 1, ![a] = 0]
        /\ Yield(0, o) /\ UNCHANGED <<statics, status>>
    BY <1>7 DEF NewString
  <2>2. Exact(With(frames, Below(0)), stackCnt, chain)
    BY <2>1, Pops
  <2>3. Exact(With(frames, Below(0)), [stackCnt EXCEPT ![a] = 0], chain \cup {a})
    BY <2>1, <2>2, FreshExact
  <2>4. Exact(frames', [[stackCnt EXCEPT ![a] = 0] EXCEPT ![o] = 1], (chain \cup {a}) \cup {o})
    BY <2>1, <2>3, YieldNew
  <2>5. [[stackCnt EXCEPT ![a] = 0] EXCEPT ![o] = 1] = stackCnt'
    BY <1>0, <2>1
  <2>6. (chain \cup {a}) \cup {o} = chain'
    BY <2>1
  <2>7. Exact(frames', stackCnt', chain')
    BY <2>4, <2>5, <2>6
  <2>8. ASSUME NEW p \in chain', NEW r \in Slot, fields'[p][r] \in Obj
        PROVE  fields'[p][r] \in chain'
    <3>1. CASE p = o
      <4>1. fields'[o] = [q \in Slot |-> IF q = s THEN a ELSE Null]
        BY <1>0, <2>1
      <4>2. QED
        BY <1>0, <2>1, <2>8, <3>1, <4>1
    <3>2. CASE p = a
      <4>1. fields'[a] = [q \in Slot |-> Num]
        BY <1>0, <2>1
      <4>2. QED
        BY <1>0, <2>8, <3>2, <4>1
    <3>3. CASE p # o /\ p # a
      <4>1. p \in chain /\ fields'[p] = fields[p]
        BY <1>0, <2>1, <3>3
      <4>2. QED
        BY <2>1, <2>8, <4>1 DEF CountInv
    <3>4. QED
      BY <3>1, <3>2, <3>3
  <2>9. \A x \in Static : statics'[x] \in Obj => statics'[x] \in chain'
    BY <2>1 DEF CountInv
  <2>10. status' = "running"
    BY <1>0, <2>1
  <2>11. QED
    BY <2>7, <2>8, <2>9, <2>10, MakeJoin
<1>8. ASSUME NEW str \in [Slot -> Obj], NEW data \in [Slot -> Obj], NEW f \in Slot,
             EnumClasses(o, str, data, f)
      PROVE  CountInv'
  <2>. DEFINE strs == {str[s] : s \in Slot}
              datas == {data[s] : s \in Slot}
              new == {o} \cup strs \cup datas
              named(p) == LET x == CHOOSE t \in Slot : str[t] = p
                          IN  [s \in Slot |-> IF s = f THEN data[x] ELSE Null]
              cnt == [p \in Obj |-> IF p \in new THEN 0 ELSE stackCnt[p]]
  <2>1. new \subseteq Obj /\ \A s \in Slot : str[s] \in new /\ data[s] \in new
    OBVIOUS
  <2>2. \A p \in strs, s \in Slot : named(p)[s] \in new \/ named(p)[s] = Null
    <3>1. TAKE p \in strs, s \in Slot
    <3>2. (CHOOSE t \in Slot : str[t] = p) \in Slot
      OBVIOUS
    <3>3. QED
      BY <2>1, <3>2
  <2>. HIDE DEF named
  <2>3. /\ Operands(0) /\ Yield(0, o) /\ UNCHANGED <<statics, status>>
        /\ new \cap chain = {} /\ chain' = chain \cup new
        /\ fields' = [p \in Obj |-> IF p = o THEN str
                                   ELSE IF p \in datas THEN [s \in Slot |-> Num]
                                   ELSE IF p \in strs THEN named(p) ELSE fields[p]]
        /\ stackCnt' = [p \in Obj |-> IF p = o THEN 1 ELSE IF p \in new THEN 0 ELSE stackCnt[p]]
    BY <1>8 DEF EnumClasses, named
  <2>4. o \in new /\ (\A p \in new : p = o \/ p \in datas \/ p \in strs)
    OBVIOUS
  <2>5. \A p \in strs \cup datas : p \in new
    OBVIOUS
  <2>. HIDE DEF strs, datas, new
  <2>6. /\ cnt \in [Obj -> 0..MaxCnt] /\ (\A p \in new \ {o} : cnt[p] = 0)
        /\ \A p \in chain : cnt[p] = stackCnt[p]
    BY <1>0, <2>1, <2>3
  <2>7. stackCnt' = [cnt EXCEPT ![o] = 1]
    BY <1>0, <2>3
  <2>. HIDE DEF cnt
  <2>8. Exact(With(frames, Below(0)), cnt, chain \cup (new \ {o}))
    <3>1. Exact(With(frames, Below(0)), stackCnt, chain)
      BY <2>3, Pops
    <3>2. new \ {o} \in SUBSET Obj /\ (new \ {o}) \cap chain = {}
      BY <2>1, <2>3
    <3>3. QED
      BY <2>6, <3>1, <3>2, FreshSet
  <2>9. o \notin chain \cup (new \ {o})
    BY <2>3, <2>4
  <2>10. Exact(frames', [cnt EXCEPT ![o] = 1], (chain \cup (new \ {o})) \cup {o})
    BY <2>3, <2>8, <2>9, YieldNew
  <2>11. (chain \cup (new \ {o})) \cup {o} = chain'
    BY <2>3, <2>4
  <2>12. Exact(frames', stackCnt', chain')
    BY <2>7, <2>10, <2>11
  <2>13. ASSUME NEW p \in chain', NEW s \in Slot, fields'[p][s] \in Obj
         PROVE  fields'[p][s] \in chain'
    <3>0. p \in Obj
      BY <1>0, <2>1, <2>3
    <3>1. CASE p = o
      BY <2>1, <2>3, <3>0, <3>1
    <3>2. CASE p # o /\ p \in datas
      BY <1>0, <2>3, <2>13, <3>0, <3>2
    <3>3. CASE p # o /\ p \notin datas /\ p \in strs
      <4>1. fields'[p] = named(p)
        BY <2>3, <3>0, <3>3
      <4>2. QED
        BY <1>0, <2>2, <2>3, <2>13, <3>3, <4>1
    <3>4. CASE p # o /\ p \notin datas /\ p \notin strs
      <4>1. p \in chain /\ fields'[p] = fields[p]
        BY <2>3, <2>4, <3>0, <3>4
      <4>2. QED
        BY <2>3, <2>13, <4>1 DEF CountInv
    <3>5. QED
      BY <3>1, <3>2, <3>3, <3>4
  <2>14. \A x \in Static : statics'[x] \in Obj => statics'[x] \in chain'
    BY <2>3 DEF CountInv
  <2>15. status' = "running"
    BY <1>0, <2>3
  <2>16. QED
    BY <2>12, <2>13, <2>14, <2>15, MakeJoin
<1>9. QED
  BY <1>1, <1>3, <1>4, <1>5, <1>6, <1>7, <1>8

LEMMA FieldCounts ==
  ASSUME CountsFit, TypeInv, CountInv,
         \/ \E s \in Slot : GetField(s) \/ PutField(s) \/ LoadElement(s) \/ StoreElement(s)
         \/ \E x \in Static : PutStatic(x) \/ GetStatic(x)
  PROVE  CountInv'
<1>0. /\ chain \subseteq Obj /\ stackCnt \in [Obj -> 0..MaxCnt]
      /\ fields \in [Obj -> [Slot -> Value]] /\ statics \in [Static -> Item] /\ Tame
  BY TypeParts DEF CountInv, Exact
<1>1. ASSUME NEW s \in Slot, GetField(s) PROVE CountInv'
  <2>. DEFINE v == fields[Arg(0)][s]
  <2>1. /\ Operands(1) /\ Arg(0) \in Obj /\ otype[Arg(0)] = "object"
        /\ Yield(1, v) /\ stackCnt' = Inc(Dec(stackCnt, Arg(0)), v)
    BY <1>1 DEF GetField
  <2>2. /\ Exact(With(frames, Below(1)), Dec(stackCnt, Arg(0)), chain) /\ Arg(0) \in chain
    BY <2>1, Pops
  <2>3. v \in Item /\ (v \in Obj => v \in chain)
    BY <1>0, <2>1, <2>2 DEF Tame, CountInv
  <2>. HIDE DEF v
  <2>4. Exact(frames', stackCnt', chain)
    BY <2>1, <2>2, <2>3, YieldExact
  <2>5. QED
    BY <1>1, <2>4, CountJoin DEF GetField
<1>2. ASSUME NEW s \in Slot, LoadElement(s) PROVE CountInv'
  <2>. DEFINE v == fields[Arg(1)][s]
  <2>1. /\ Operands(2) /\ Arg(0) \notin Obj /\ Arg(1) \in Obj /\ v \in Item
        /\ Yield(2, v) /\ stackCnt' = Inc(Dec(stackCnt, Arg(1)), v)
    BY <1>2 DEF LoadElement, NoRef
  <2>2. /\ Exact(With(frames, Below(2)), Dec(Dec(stackCnt, Arg(0)), Arg(1)), chain)
        /\ Arg(1) \in chain
    BY <2>1, Pops
  <2>3. Dec(stackCnt, Arg(0)) = stackCnt
    BY <2>1, NoRefSame
  <2>4. v \in Obj => v \in chain
    BY <2>2 DEF CountInv
  <2>. HIDE DEF v
  <2>5. Exact(frames', stackCnt', chain)
    BY <2>1, <2>2, <2>3, <2>4, YieldExact
  <2>6. QED
    BY <1>2, <2>5, CountJoin DEF LoadElement
<1>3. ASSUME NEW o \in Obj, NEW v, v \in Obj => v \in chain, NEW s \in Slot, Store(o, s, v),
             Exact(frames', stackCnt', chain), UNCHANGED <<chain, statics, status>>
      PROVE  CountInv'
  <2>1. \A p \in chain, r \in Slot : fields'[p][r] = fields[p][r] \/ fields'[p][r] = v
    BY <1>0, <1>3 DEF Store
  <2>2. \A p \in chain', r \in Slot : fields'[p][r] \in Obj => fields'[p][r] \in chain'
    BY <1>3, <2>1 DEF CountInv
  <2>3. QED
    BY <1>3, <2>2 DEF CountInv
<1>4. ASSUME NEW s \in Slot, PutField(s) PROVE CountInv'
  <2>1. /\ Operands(2) /\ Arg(1) \in Obj /\ SetStack(Below(2)) /\ Store(Arg(1), s, Arg(0))
        /\ stackCnt' = Dec(Dec(stackCnt, Arg(0)), Arg(1))
        /\ UNCHANGED <<chain, statics, status>>
    BY <1>4 DEF PutField
  <2>2. Exact(frames', stackCnt', chain) /\ (Arg(0) \in Obj => Arg(0) \in chain)
    BY <2>1, Pops, SetStackExact
  <2>3. QED
    BY <1>3, <2>1, <2>2
<1>5. ASSUME NEW s \in Slot, StoreElement(s) PROVE CountInv'
  <2>1. /\ Operands(3) /\ Arg(1) \notin Obj /\ Arg(2) \in Obj
        /\ SetStack(Below(3)) /\ Store(Arg(2), s, Arg(0))
        /\ stackCnt' = Dec(Dec(stackCnt, Arg(0)), Arg(2))
        /\ UNCHANGED <<chain, statics, status>>
    BY <1>5 DEF StoreElement, NoRef
  <2>2. Dec(Dec(stackCnt, Arg(0)), Arg(1)) = Dec(stackCnt, Arg(0))
    BY <2>1, NoRefSame
  <2>3. /\ Exact(With(frames, Below(3)), Dec(Dec(Dec(stackCnt, Arg(0)), Arg(1)), Arg(2)), chain)
        /\ Arg(0) \in Obj => Arg(0) \in chain
    BY <2>1, Pops
  <2>4. Exact(frames', stackCnt', chain)
    BY <2>1, <2>2, <2>3, SetStackExact
  <2>5. QED
    BY <1>3, <2>1, <2>3, <2>4
<1>6. ASSUME NEW x \in Static, PutStatic(x) PROVE CountInv'
  <2>1. /\ Operands(1) /\ SetStack(Below(1)) /\ stackCnt' = Dec(stackCnt, Arg(0))
        /\ statics' = [statics EXCEPT ![x] = Arg(0)]
        /\ UNCHANGED <<chain, fields, status>>
    BY <1>6 DEF PutStatic
  <2>2. Exact(frames', stackCnt', chain) /\ (Arg(0) \in Obj => Arg(0) \in chain)
    BY <2>1, Pops, SetStackExact
  <2>3. \A y \in Static : statics'[y] \in Obj => statics'[y] \in chain'
    BY <1>0, <2>1, <2>2 DEF CountInv
  <2>4. QED
    BY <2>1, <2>2, <2>3 DEF CountInv
<1>7. ASSUME NEW x \in Static, GetStatic(x) PROVE CountInv'
  <2>1. Operands(0) /\ Yield(0, statics[x]) /\ stackCnt' = Inc(stackCnt, statics[x])
    BY <1>7 DEF GetStatic
  <2>2. statics[x] \in Item /\ (statics[x] \in Obj => statics[x] \in chain)
    BY <1>0 DEF CountInv
  <2>3. Exact(frames', stackCnt', chain)
    BY <2>1, <2>2, Pops, YieldExact
  <2>4. QED
    BY <1>7, <2>3, CountJoin DEF GetStatic
<1>8. QED
  BY <1>1, <1>2, <1>4, <1>5, <1>6, <1>7

(* A call moves the places of its arguments, a return removes those left. *)
LEMMA CallCounts ==
  ASSUME CountsFit, TypeInv, CountInv,
         \/ \E n \in 0..MaxLocals : Invoke(n)
         \/ \E k \in 0..1 : Return(k)
  PROVE  CountInv'
<1>0. /\ Exact(frames, stackCnt, chain) /\ FramesOK(frames) /\ RefersTo(frames, chain)
      /\ chain \subseteq Obj /\ stackCnt \in [Obj -> 0..MaxCnt] /\ Null \notin Obj
  BY ValueAssumption DEF CountInv, Exact
<1>1. ASSUME NEW n \in 0..MaxLocals, Invoke(n) PROVE CountInv'
  <2>1. /\ n \in Nat /\ Operands(n) /\ depth < MaxDepth /\ frames' = Called(frames, n)
    BY <1>1 DEF Invoke, Called, With, Below, depth, stack
  <2>2. /\ Len(frames) > 0 /\ n <= Len(frames[Len(frames)].stack) /\ Len(frames) < MaxDepth
    BY <2>1, TopTypes DEF stack, depth
  <2>3. /\ FramesOK(frames') /\ RefersTo(frames', chain)
        /\ \A o \in Obj : Count(frames', o) = Count(frames, o)
    BY <1>0, <2>1, <2>2, CallCount
  <2>4. Exact(frames', stackCnt, chain)
    BY <1>0, <2>3 DEF Exact
  <2>5. QED
    BY <1>1, <2>4, CountJoin DEF Invoke, heapVars
<1>2. ASSUME NEW k \in 0..1, Return(k) PROVE CountInv'
  <2>. DEFINE result == IF k = 1 THEN Arg(0) ELSE Null
              popped == Dec(stackCnt, result)
              scrubbed == DecAll(popped, locals, 1)
              caller == SubSeq(frames, 1, depth - 1)
              fs == With(frames, <<>>)
  <2>1. /\ k \in Nat /\ Operands(k) /\ Below(k) = <<>>
        /\ UNCHANGED <<chain, otype, fields, cmark, hold, statics>>
    BY <1>2 DEF Return, CountsFit
  <2>2. /\ Len(frames) > 0 /\ depth = Len(frames) /\ status = "running"
        /\ depth \in DOMAIN frames /\ locals \in [Local -> Item]
        /\ frames \in Seq(Frame) /\ depth \in Nat
    BY <1>0, <2>1, TopTypes DEF FramesOK
  <2>3. result \in Item /\ (result \in Obj => result \in chain) /\ Exact(fs, popped, chain)
    <3>1. CASE k = 0
      <4>1. result = Null /\ popped = stackCnt
        BY <1>0, <3>1, NoRefSame
      <4>2. Exact(With(frames, Below(0)), stackCnt, chain) /\ Below(0) = <<>>
        BY <2>1, <3>1, Pops
      <4>3. QED
        BY <1>0, <4>1, <4>2, TypeParts
    <3>2. CASE k = 1
      BY <2>1, <3>2, Pops
    <3>3. QED
      BY <3>1, <3>2
  <2>4. popped \in [Obj -> 0..MaxCnt]
    BY <2>3 DEF Exact
  <2>5. ScrubbedLocals = locals
    <3>1. MaxLocals % (MaxScrub + 1) = MaxLocals
      BY FrameAssumption DEF CountsFit
    <3>2. {j \in Local : j < MaxLocals % (MaxScrub + 1)} = Local
      BY <3>1, FrameAssumption DEF Local
    <3>3. ScrubbedLocals = [i \in Local |-> locals[i]]
      BY <3>2, Zenon DEF ScrubbedLocals
    <3>4. QED
      BY <2>2, <3>3
  <2>6. DecAll(DecAll(popped, Below(k), 2), ScrubbedLocals, 1) = scrubbed
    BY <2>1, <2>4, <2>5, ScrubNothing
  <2>7. /\ stackCnt' = IF depth = 1 THEN scrubbed ELSE Inc(scrubbed, result)
        /\ frames' = IF depth = 1 THEN <<>> ELSE IF k = 0 THEN caller
                     ELSE [caller EXCEPT ![depth - 1].stack = Append(@, result)]
        /\ depth # 1 /\ k = 1 => Len(caller[depth - 1].stack) < MaxStack
        /\ status' = IF depth = 1 THEN "returned" ELSE status
    BY <1>2, <2>6 DEF Return
  <2>8. /\ FramesOK(fs) /\ Len(fs) = depth /\ fs[Len(fs)].stack = <<>>
        /\ fs[Len(fs)].locals = locals
        /\ SubSeq(fs, 1, Len(fs) - 1) = caller
    <3>1. /\ <<>> \in Seq(Item) /\ Len(<<>>) <= MaxStack
      BY FrameAssumption
    <3>2. /\ FramesOK(fs) /\ Len(fs) = depth /\ fs[Len(fs)].stack = <<>>
          /\ fs[Len(fs)].locals = locals
          /\ \A e \in DOMAIN frames : e # depth => fs[e] = frames[e]
          /\ fs \in Seq(Frame)
      <4>1. PICK st \in Seq(Item) : st = <<>> /\ Len(st) <= MaxStack
        BY <3>1
      <4>2. /\ FramesOK(With(frames, st)) /\ Len(With(frames, st)) = Len(frames)
            /\ With(frames, st)[Len(frames)].stack = st
            /\ \A d \in DOMAIN frames : d # Len(frames) => With(frames, st)[d] = frames[d]
            /\ \A d \in DOMAIN frames : With(frames, st)[d].locals = frames[d].locals
        BY <1>0, <2>2, <4>1, WithType
      <4>3. With(frames, st) = fs
        BY <4>1
      <4>. HIDE DEF fs
      <4>4. QED
        BY <2>2, <4>1, <4>2, <4>3 DEF locals, FramesOK
    <3>. HIDE DEF fs
    <3>3. SubSeq(fs, 1, depth - 1) = caller
      BY <2>2, <3>2
    <3>4. QED
      BY <3>2, <3>3
  <2>. HIDE DEF result, popped, scrubbed, caller, fs
  <2>9. Exact(caller, scrubbed, chain)
    <3>1. Exact(SubSeq(fs, 1, Len(fs) - 1), DecAll(popped, fs[Len(fs)].locals, 1), chain)
      BY <2>2, <2>3, <2>8, ReturnExact
    <3>2. QED
      BY <2>8, <3>1 DEF scrubbed
  <2>10. Exact(frames', stackCnt', chain)
    <3>1. CASE depth = 1
      <4>1. caller = <<>>
        BY <2>2, <3>1 DEF caller
      <4>2. QED
        BY <2>7, <2>9, <3>1, <4>1
    <3>2. CASE depth # 1 /\ k = 0
      <4>1. Inc(scrubbed, result) = scrubbed
        BY <1>0, <3>2, NoRefSame DEF result
      <4>2. QED
        BY <2>7, <2>9, <3>2, <4>1
    <3>3. CASE depth # 1 /\ k = 1
      <4>1. Len(caller) = depth - 1 /\ Len(caller) > 0
        BY <2>2, <3>3 DEF caller
      <4>2. FramesOK(caller) /\ With(caller, caller[Len(caller)].stack) = caller
        BY <2>9, <4>1, WithOwn DEF Exact
      <4>3. /\ caller[Len(caller)].stack \in Seq(Item)
            /\ Len(caller[Len(caller)].stack) < MaxStack
        <5>1. Len(caller) \in DOMAIN caller
          BY <4>1, <4>2 DEF FramesOK
        <5>2. QED
          BY <2>7, <3>3, <4>1, <4>2, <5>1, FrameType
      <4>4. Exact(With(caller, Append(caller[Len(caller)].stack, result)),
                  Inc(scrubbed, result), chain)
        BY <2>3, <2>9, <4>1, <4>2, <4>3, PushExact
      <4>5. frames' = With(caller, Append(caller[Len(caller)].stack, result))
        BY <2>7, <3>3, <4>1 DEF With
      <4>6. QED
        BY <2>7, <3>3, <4>4, <4>5
    <3>4. QED
      BY <3>1, <3>2, <3>3
  <2>11. status' # "boot"
    BY <2>2, <2>7
  <2>12. QED
    BY <2>1, <2>10, <2>11 DEF CountInv
<1>3. QED
  BY <1>1, <1>2

LEMMA CountInitially == InterpInit => CountInv
<1>1. SUFFICES ASSUME InterpInit PROVE CountInv
  OBVIOUS
<1>2. FramesOK(frames) /\ stackCnt \in [Obj -> 0..MaxCnt]
  BY <1>1, InterpInitTypes, TypeParts
<1>3. frames = <<>> /\ chain = {} /\ status = "boot" /\ statics = [x \in Static |-> Num]
  BY <1>1 DEF InterpInit, HeapInit
<1>4. Exact(frames, stackCnt, chain)
  BY <1>2, <1>3 DEF Exact, RefersTo
<1>5. QED
  BY <1>3, <1>4, ValueAssumption DEF CountInv

LEMMA CountStep ==
  ASSUME CountsFit, TypeInv, CountInv, [InterpNext]_interpVars
  PROVE  CountInv'
<1>1. CASE InterpStep
  BY <1>1, MoveCounts, MakeCounts, FieldCounts, CallCounts DEF InterpStep
<1>2. CASE UNCHANGED interpVars
  BY <1>2 DEF interpVars, heapVars, CountInv
<1>3. QED
  BY <1>1, <1>2 DEF InterpNext, InterpStopped

LEMMA CountInvExact == CountInv => CountExact
  BY DEF CountInv, Exact, Count, OnStacks, InLocals, CountExact, StackPlaces, LocalPlaces

(***************************************************************************)
(* stackCnt is the number of the places on operand stacks and in locals    *)
(* that refer to the object, for programs that leave nothing on the stack  *)
(* at a return, at most 255 locals, and counters that are wide enough for  *)
(* the places there are.                                                   *)
(***************************************************************************)
THEOREM CountCorrect ==
  ASSUME CountsFit PROVE InterpSpec => []CountExact
<1>1. InterpInit => TypeInv /\ CountInv
  BY InterpInitTypes, CountInitially
<1>2. (TypeInv /\ CountInv) /\ [InterpNext]_interpVars => (TypeInv /\ CountInv)'
  BY InterpNextTypes, CountStep
<1>3. QED
  BY <1>1, <1>2, CountInvExact, PTL DEF InterpSpec

-----------------------------------------------------------------------------
(***************************************************************************)
(* The virtual machine as a whole.                                         *)
(***************************************************************************)

-----------------------------------------------------------------------------
(* Types. *)

LEMMA VMInitTypes == Init => TypeInv /\ CollectorTypeOK
  BY InterpInitTypes, MarkAssumption, CollectAssumption
     DEF Init, CollectorInit, CollectorTypeOK, Mark

LEMMA VMNextTypes ==
  ASSUME TypeInv, CollectorTypeOK, [Next]_vars
  PROVE  TypeInv' /\ CollectorTypeOK'
<1>0. HeapTypeOK
  BY TypeParts
<1>1. CASE Execute
  <2>1. TypeInv'
    BY <1>1, InterpNextTypes DEF Execute, InterpNext
  <2>2. CollectorTypeOK'
    BY <1>1 DEF Execute, gcVars, CollectorTypeOK
  <2>3. QED
    BY <2>1, <2>2
(* The collector leaves alone what the types of the interpreter are about. *)
<1>2. ASSUME HeapTypeOK', UNCHANGED <<otype, fields, statics, frames>>,
             status' \in {status, "finished"}
      PROVE  TypeInv'
  <2>1. Tame'
    BY <1>2, TypeParts DEF Tame
  <2>2. QED
    BY <1>2, <2>1, TypeParts, TypeJoin DEF TypeInv
<1>3. CASE NativeCollect \/ FinalCollect
  <2>1. StartCollect /\ UNCHANGED <<statics, frames>> /\ status' \in {status, "finished"}
    BY <1>3 DEF NativeCollect, FinalCollect
  <2>2. HeapTypeOK' /\ CollectorTypeOK'
    BY <1>0, <2>1, StartCollectType
  <2>3. QED
    BY <1>2, <2>1, <2>2 DEF StartCollect, heapVars
<1>4. CASE Collecting
  <2>1. HeapTypeOK' /\ CollectorTypeOK'
    BY <1>0, <1>4, CollectStepType DEF Collecting
  <2>2. UNCHANGED <<otype, fields>>
    BY <1>4 DEF Collecting, CollectStep, ScanEntry, SkipEntry, CrashOnElement,
                NextPass, Sweep, heapVars
  <2>3. QED
    BY <1>2, <1>4, <2>1, <2>2 DEF Collecting
<1>5. CASE UNCHANGED vars
  <2>1. TypeInv'
    BY <1>5, InterpNextTypes DEF vars, interpVars
  <2>2. CollectorTypeOK'
    BY <1>5 DEF vars, gcVars, CollectorTypeOK
  <2>3. QED
    BY <2>1, <2>2
<1>6. QED
  BY <1>1, <1>3, <1>4, <1>5 DEF Next

(***************************************************************************)
(* Operands, locals, fields, headers and lists stay values of their kinds  *)
(* while opcodes and collections alternate: no assumption but those on the *)
(* constants.                                                              *)
(***************************************************************************)
THEOREM VMTypeCorrect == Spec => []TypeOK
<1>1. TypeInv /\ CollectorTypeOK => TypeOK
  BY DEF TypeInv, TypeOK
<1>2. TypeInv /\ CollectorTypeOK /\ [Next]_vars => TypeInv' /\ CollectorTypeOK'
  BY VMNextTypes
<1>3. QED
  BY <1>1, <1>2, VMInitTypes, PTL DEF Spec

-----------------------------------------------------------------------------
(* What the opcodes do that matters to the collector.                      *)

(***************************************************************************)
(* What the agreement rests on: the counts are exact, no mark is used      *)
(* twice, the header of an array comes with a zeroed mark, and the program *)
(* keeps no reference in a static field.                                   *)
(***************************************************************************)
VMFits ==
  /\ CountsFit
  /\ MaxCollects <= MarkMask
  /\ Junk \subseteq {0}
  /\ Static = {}

(* The elements of a primitive array are never written as references. *)
PrimTame == \A o \in Obj, s \in Slot : otype[o] = "parray" => fields[o][s] \notin Obj

(* An object that is allocated after a step was there with its mark, or is *)
(* new and has none.                                                       *)
MarksKept ==
  \A p \in chain' : (p \in chain /\ cmark'[p] = cmark[p]) \/ cmark'[p] = 0

LEMMA LinkShape ==
  ASSUME HeapTypeOK, PrimTame, NEW o \in Obj, NEW t, NEW v, t = "parray" => v \notin Obj,
         NEW h, NEW n, Link(o, t, v, 0, h, n)
  PROVE  PrimTame' /\ MarksKept
<1>1. PrimTame'
  BY DEF Link, PrimTame, HeapTypeOK
<1>2. MarksKept
  BY DEF Link, MarksKept, HeapTypeOK
<1>3. QED
  BY <1>1, <1>2

(* Most opcodes make no object and store in none. *)
LEMMA SameShape ==
  ASSUME PrimTame, UNCHANGED <<chain, otype, fields, cmark>>
  PROVE  PrimTame' /\ MarksKept
  BY DEF PrimTame, MarksKept

LEMMA StoreShape ==
  ASSUME HeapTypeOK, PrimTame, NEW o \in Obj, otype[o] # "parray", NEW s, NEW v,
         Store(o, s, v), UNCHANGED <<chain, otype, cmark>>
  PROVE  PrimTame' /\ MarksKept
<1>1. \A p \in Obj : p # o => fields'[p] = fields[p]
  BY DEF Store, HeapTypeOK
<1>2. QED
  BY <1>1 DEF PrimTame, MarksKept

LEMMA MakeShape ==
  ASSUME Junk \subseteq {0}, TypeInv, PrimTame, NEW o \in Obj,
         \/ Start(o) \/ NewObject(o) \/ NewClassObject(o) \/ NewArray(o) \/ LoadResource(o)
         \/ \E a \in Obj, s \in Slot : NewString(o, a, s)
         \/ \E str, data \in [Slot -> Obj], f \in Slot : EnumClasses(o, str, data, f)
  PROVE  PrimTame' /\ MarksKept
<1>0. HeapTypeOK /\ Num \notin Obj
  BY TypeParts, ValueAssumption
<1>1. CASE Start(o) \/ NewObject(o) \/ NewClassObject(o)
  <2>1. PICK h \in BOOLEAN : Link(o, "object", Null, 0, h, 1)
    BY <1>1 DEF Start, NewObject, NewClassObject, CreateObject
  <2>2. QED
    BY <1>0, <2>1, LinkShape
<1>2. CASE NewArray(o)
  <2>1. CASE CreateObjectArray(o, FALSE, 1)
    <3>1. PICK v : Link(o, "oarray", v, 0, FALSE, 1)
      BY <2>1 DEF CreateObjectArray
    <3>2. QED
      BY <1>0, <3>1, LinkShape
  <2>2. CASE CreatePrimArray(o, 1)
    BY <1>0, <2>2, LinkShape DEF CreatePrimArray
  <2>3. QED
    BY <1>2, <2>1, <2>2 DEF NewArray
<1>3. CASE LoadResource(o)
  <2>1. /\ chain' = chain \cup {o}
        /\ otype' = [otype EXCEPT ![o] = "parray"]
        /\ fields' = [fields EXCEPT ![o] = [s \in Slot |-> Num]]
        /\ cmark' = [cmark EXCEPT ![o] = 0]
    BY <1>3 DEF LoadResource
  <2>2. PrimTame'
    BY <1>0, <2>1 DEF PrimTame, HeapTypeOK
  <2>3. MarksKept
    BY <1>0, <2>1 DEF MarksKept, HeapTypeOK
  <2>4. QED
    BY <2>2, <2>3
<1>4. ASSUME NEW a \in Obj, NEW s \in Slot, NewString(o, a, s) PROVE PrimTame' /\ MarksKept
  <2>1. /\ o # a
        /\ chain' = chain \cup {o, a}
        /\ otype' = [otype EXCEPT ![o] = "object", ![a] = "parray"]
        /\ fields' = [fields EXCEPT ![o] = [r \in Slot |-> IF r = s THEN a ELSE Null],
                                    ![a] = [r \in Slot |-> Num]]
        /\ cmark' = [cmark EXCEPT ![o] = 0, ![a] = 0]
    BY <1>4 DEF NewString
  <2>2. PrimTame'
    <3>1. ASSUME NEW p \in Obj, NEW r \in Slot, otype'[p] = "parray"
          PROVE  fields'[p][r] \notin Obj
      <4>1. p # o
        BY <1>0, <2>1, <3>1 DEF HeapTypeOK
      <4>2. CASE p = a
        BY <1>0, <2>1, <4>2 DEF HeapTypeOK
      <4>3. CASE p # a
        BY <1>0, <2>1, <3>1, <4>1, <4>3 DEF HeapTypeOK, PrimTame
      <4>4. QED
        BY <4>2, <4>3
    <3>2. QED
      BY <3>1 DEF PrimTame
  <2>3. MarksKept
    BY <1>0, <2>1 DEF MarksKept, HeapTypeOK
  <2>4. QED
    BY <2>2, <2>3
<1>5. ASSUME NEW str \in [Slot -> Obj], NEW data \in [Slot -> Obj], NEW f \in Slot,
             EnumClasses(o, str, data, f)
      PROVE  PrimTame' /\ MarksKept
  <2>. DEFINE strs == {str[s] : s \in Slot}
              datas == {data[s] : s \in Slot}
              new == {o} \cup strs \cup datas
              named(p) == LET x == CHOOSE t \in Slot : str[t] = p
                          IN  [s \in Slot |-> IF s = f THEN data[x] ELSE Null]
  <2>1. /\ chain' = chain \cup new
        /\ otype' = [p \in Obj |-> IF p = o THEN "oarray"
                                  ELSE IF p \in strs THEN "object"
                                  ELSE IF p \in datas THEN "parray" ELSE otype[p]]
        /\ fields' = [p \in Obj |-> IF p = o THEN str
                                   ELSE IF p \in datas THEN [s \in Slot |-> Num]
                                   ELSE IF p \in strs THEN named(p) ELSE fields[p]]
    BY <1>5 DEF EnumClasses, named
  <2>2. PICK m \in Junk :
          cmark' = [p \in Obj |-> IF p = o THEN m ELSE IF p \in new THEN 0 ELSE cmark[p]]
    BY <1>5 DEF EnumClasses
  <2>3. m = 0 /\ new \subseteq Obj
    OBVIOUS
  <2>. HIDE DEF strs, datas, new, named
  <2>4. PrimTame'
    <3>1. ASSUME NEW p \in Obj, NEW s \in Slot, otype'[p] = "parray"
          PROVE  fields'[p][s] \notin Obj
      <4>1. p # o /\ p \notin strs
        BY <2>1, <3>1
      <4>2. CASE p \in datas
        BY <1>0, <2>1, <4>1, <4>2
      <4>3. CASE p \notin datas
        BY <2>1, <3>1, <4>1, <4>3 DEF PrimTame
      <4>4. QED
        BY <4>2, <4>3
    <3>2. QED
      BY <3>1 DEF PrimTame
  <2>5. MarksKept
    BY <1>0, <2>1, <2>2, <2>3 DEF MarksKept, HeapTypeOK
  <2>6. QED
    BY <2>4, <2>5
<1>6. QED
  BY <1>1, <1>2, <1>3, <1>4, <1>5

LEMMA StepShape ==
  ASSUME Junk \subseteq {0}, TypeInv, PrimTame, InterpStep
  PROVE  PrimTame' /\ MarksKept
<1>0. HeapTypeOK
  BY TypeParts
<1>1. CASE \/ \E v \in {Null, Num} : Constant(v)
           \/ \E k \in 1..2 : Consume(k) \/ LoadNumber(k) \/ Arithmetic(k)
           \/ Duplicate \/ DuplicateUnder \/ StoreNumber \/ PrintNothing \/ Crash \/ Fail
           \/ \E i \in Local : LoadLocal(i) \/ StoreLocal(i)
  <2>1. UNCHANGED <<chain, otype, fields, cmark>>
    BY <1>1 DEF Constant, Consume, LoadNumber, Arithmetic, Duplicate, DuplicateUnder,
                StoreNumber, PrintNothing, Crash, Fail, LoadLocal, StoreLocal, heapVars
  <2>2. QED
    BY <2>1, SameShape
<1>2. CASE \/ \E s \in Slot : GetField(s) \/ LoadElement(s)
           \/ \E x \in Static : PutStatic(x) \/ GetStatic(x)
           \/ \E n \in 0..MaxLocals : Invoke(n)
           \/ \E k \in 0..1 : Return(k)
  <2>1. UNCHANGED <<chain, otype, fields, cmark>>
    BY <1>2 DEF GetField, LoadElement, PutStatic, GetStatic, Invoke, Return, heapVars
  <2>2. QED
    BY <2>1, SameShape
<1>3. ASSUME NEW s \in Slot, PutField(s) \/ StoreElement(s)
      PROVE  PrimTame' /\ MarksKept
  <2>1. PICK o \in Obj : /\ otype[o] # "parray" /\ Store(o, s, Arg(0))
                         /\ UNCHANGED <<chain, otype, cmark>>
    BY <1>3 DEF PutField, StoreElement
  <2>2. QED
    BY <1>0, <2>1, StoreShape
<1>4. QED
  BY <1>1, <1>2, <1>3, MakeShape DEF InterpStep

(* An opcode executes while the program runs, or starts it, and only the   *)
(* return from the first method ends it, with no frame left.               *)
LEMMA StepStatus ==
  ASSUME InterpStep
  PROVE  /\ status \in {"boot", "running"}
         /\ status' \in {"returned", "finished"} => frames' = <<>>
<1>1. CASE \/ \E v \in {Null, Num} : Constant(v)
           \/ \E k \in 1..2 : Consume(k) \/ LoadNumber(k) \/ Arithmetic(k)
           \/ Duplicate \/ DuplicateUnder \/ StoreNumber \/ PrintNothing \/ Crash \/ Fail
           \/ \E i \in Local : LoadLocal(i) \/ StoreLocal(i)
  BY <1>1 DEF Constant, Consume, LoadNumber, Arithmetic, Duplicate, DuplicateUnder,
              StoreNumber, PrintNothing, Crash, Fail, LoadLocal, StoreLocal, Operands
<1>2. CASE \/ \E o \in Obj : \/ Start(o) \/ NewObject(o) \/ NewClassObject(o)
                             \/ NewArray(o) \/ LoadResource(o)
           \/ \E o, a \in Obj, s \in Slot : NewString(o, a, s)
           \/ \E o \in Obj, str, data \in [Slot -> Obj], f \in Slot :
                EnumClasses(o, str, data, f)
  BY <1>2 DEF Start, NewObject, NewClassObject, NewArray, LoadResource, NewString,
              EnumClasses, Operands
<1>3. CASE \/ \E s \in Slot : GetField(s) \/ PutField(s) \/ LoadElement(s) \/ StoreElement(s)
           \/ \E x \in Static : PutStatic(x) \/ GetStatic(x)
           \/ \E n \in 0..MaxLocals : Invoke(n)
  BY <1>3 DEF GetField, PutField, LoadElement, StoreElement, PutStatic, GetStatic,
              Invoke, Operands
<1>4. CASE \E k \in 0..1 : Return(k)
  BY <1>4 DEF Return, Operands
<1>5. QED
  BY <1>1, <1>2, <1>3, <1>4 DEF InterpStep

-----------------------------------------------------------------------------
(* Counts and references.                                                  *)

(* The frames fs refer to o. *)
RefersIn(fs, o) ==
  \E d \in DOMAIN fs :
    \/ \E k \in DOMAIN fs[d].stack : fs[d].stack[k] = o
    \/ \E i \in Local : fs[d].locals[i] = o

(* A count that is the number of places is zero just when there is none. *)
LEMMA CountedIsReferred ==
  ASSUME NEW fs, FramesOK(fs), NEW o
  PROVE  /\ Count(fs, o) \in Nat
         /\ Count(fs, o) > 0 <=> RefersIn(fs, o)
<1>. DEFINE st == OnStacks(fs, o)
            lo == InLocals(fs, o)
<1>1. /\ IsFiniteSet(st) /\ IsFiniteSet(lo)
      /\ Cardinality(st) \in Nat /\ Cardinality(lo) \in Nat
      /\ Count(fs, o) = Cardinality(st) + Cardinality(lo)
  BY PlacesFinite DEF Count
<1>2. RefersIn(fs, o) <=> st # {} \/ lo # {}
  <2>1. \A d \in DOMAIN fs : DOMAIN fs[d].stack \subseteq 1..MaxStack
    <3>1. TAKE d \in DOMAIN fs
    <3>2. fs[d].stack \in Seq(Item) /\ Len(fs[d].stack) \in 0..MaxStack
      BY FrameType
    <3>3. QED
      BY <3>2, FrameAssumption
  <2>2. ASSUME NEW d \in DOMAIN fs, NEW k \in DOMAIN fs[d].stack, fs[d].stack[k] = o
        PROVE  st # {}
    <3>1. <<d, k>> \in st
      BY <2>1, <2>2 DEF OnStacks
    <3>2. QED
      BY <3>1
  <2>3. ASSUME NEW d \in DOMAIN fs, NEW i \in Local, fs[d].locals[i] = o
        PROVE  lo # {}
    <3>1. <<d, i>> \in lo
      BY <2>3 DEF InLocals
    <3>2. QED
      BY <3>1
  <2>4. ASSUME NEW p \in st PROVE RefersIn(fs, o)
    BY <2>4 DEF OnStacks, RefersIn
  <2>5. ASSUME NEW p \in lo PROVE RefersIn(fs, o)
    BY <2>5 DEF InLocals, RefersIn
  <2>6. QED
    BY <2>2, <2>3, <2>4, <2>5 DEF RefersIn
<1>3. st # {} <=> Cardinality(st) # 0
  BY <1>1, FS_EmptySet
<1>4. lo # {} <=> Cardinality(lo) # 0
  BY <1>1, FS_EmptySet
<1>5. QED
  BY <1>1, <1>2, <1>3, <1>4

LEMMA FrameRefsIn == FrameRefs = {o \in Obj : RefersIn(frames, o)}
  BY DEF FrameRefs, RefersIn

(* What the frames refer to is what the counts of the chain say. *)
LEMMA CountedAreReferred ==
  ASSUME CountInv
  PROVE  FrameRefs = {o \in chain : stackCnt[o] > 0}
<1>1. /\ FramesOK(frames) /\ chain \subseteq Obj /\ RefersTo(frames, chain)
      /\ \A o \in chain : stackCnt[o] = Count(frames, o)
  BY DEF CountInv, Exact
<1>2. FrameRefs \subseteq chain
  BY <1>1 DEF FrameRefs, RefersTo
<1>3. \A o \in chain : stackCnt[o] > 0 <=> RefersIn(frames, o)
  BY <1>1, CountedIsReferred
<1>4. QED
  BY <1>1, <1>2, <1>3, FrameRefsIn

-----------------------------------------------------------------------------
(***************************************************************************)
(* What holds between any two steps.  The counts are right for the objects *)
(* of the chain, all that the frames and the fields refer to is in it, the *)
(* marking is complete as far as it got, and a program that has returned   *)
(* has no frame left.  None of these is kept by every step without the     *)
(* others: the sweep keeps what is referred to because the counts are      *)
(* right, and the counts are right because nothing in use was swept.       *)
(***************************************************************************)
VMInv ==
  /\ PrimTame
  /\ CountInv
  /\ MarkingInv
  /\ ListsReachable
  /\ status \in {"returned", "finished"} => frames = <<>>

LEMMA VMInitially == Init => VMInv
<1>1. SUFFICES ASSUME Init PROVE VMInv
  OBVIOUS
<1>2. CountInv
  BY <1>1, CountInitially DEF Init
<1>3. PrimTame
  BY <1>1, ValueAssumption DEF Init, InterpInit, HeapInit, PrimTame
<1>4. MarkingInv /\ ListsReachable
  BY <1>1 DEF Init, InterpInit, HeapInit, CollectorInit, MarkingInv, ChainClosed,
              IdleMarks, CurrentMarks, ListsSound, MarkClosed, ListsReachable
<1>5. frames = <<>>
  BY <1>1 DEF Init, InterpInit
<1>6. QED
  BY <1>2, <1>3, <1>4, <1>5 DEF VMInv

(* No field leads out of the chain, whichever way that is said. *)
LEMMA ClosedIsClosed ==
  ASSUME PrimTame, chain \subseteq Obj
  PROVE  ChainClosed <=>
           \A o \in chain, s \in Slot : fields[o][s] \in Obj => fields[o][s] \in chain
  BY DEF ChainClosed, Refs, PrimTame

(* An opcode keeps the invariant of the collector. *)
LEMMA ExecuteSafe ==
  ASSUME VMFits, TypeInv, CollectorTypeOK, VMInv, Execute
  PROVE  VMInv'
<1>1. PrimTame' /\ MarksKept
  BY StepShape DEF VMFits, VMInv, Execute
<1>2. CountInv'
  BY CountStep DEF VMFits, VMInv, Execute, InterpNext
<1>3. /\ phase = "idle" /\ phase' = "idle" /\ jmark' = jmark /\ collects' = collects
  BY DEF Execute, gcVars
<1>4. ChainClosed'
  <2>1. \A o \in chain', s \in Slot : fields'[o][s] \in Obj => fields'[o][s] \in chain'
    BY <1>2 DEF CountInv
  <2>2. QED
    BY <2>1 DEF ChainClosed, Refs
<1>5. IdleMarks'
  BY <1>1, <1>3 DEF MarksKept, IdleMarks, VMInv, MarkingInv
<1>6. MarkingInv' /\ ListsReachable'
  BY <1>3, <1>4, <1>5
     DEF VMInv, MarkingInv, CurrentMarks, ListsSound, MarkClosed, ListsReachable
<1>7. status' \in {"returned", "finished"} => frames' = <<>>
  BY StepStatus DEF Execute
<1>8. QED
  BY <1>1, <1>2, <1>6, <1>7 DEF VMInv

(* The sweep frees nothing the frames refer to, and so no count that is    *)
(* still needed.                                                           *)
LEMMA SweepCounts ==
  ASSUME VMFits, TypeInv, CollectorTypeOK, VMInv, Sweep,
         UNCHANGED <<statics, frames, status>>
  PROVE  CountInv'
<1>0. HeapTypeOK /\ chain \subseteq Obj
  BY TypeParts DEF HeapTypeOK
<1>1. chain' = marked /\ Rooted \subseteq chain' /\ chain' \subseteq chain
  BY <1>0, SweepKeepsMarked DEF VMInv
<1>2. FrameRefs \subseteq chain'
  BY <1>1, CountedAreReferred DEF VMInv, Rooted
<1>3. RefersTo(frames, chain')
  BY <1>2 DEF FrameRefs, RefersTo
<1>4. Exact(frames', stackCnt', chain')
  BY <1>1, <1>3 DEF VMInv, CountInv, Exact, Sweep
<1>5. MarkingInv'
  BY <1>0, SweepSafe DEF VMInv
<1>6. \A o \in chain', s \in Slot : fields'[o][s] \in Obj => fields'[o][s] \in chain'
  <2>1. \A o \in chain', s \in Slot : otype[o] # "parray" /\ fields[o][s] \in Obj
                                        => fields[o][s] \in chain'
    BY <1>5 DEF MarkingInv, ChainClosed, Refs, Sweep
  <2>2. QED
    BY <1>0, <1>1, <2>1 DEF Sweep, VMInv, PrimTame
<1>7. status' = "boot" => chain' = {}
  BY <1>1 DEF VMInv, CountInv
<1>8. QED
  BY <1>4, <1>6, <1>7 DEF CountInv, VMFits

LEMMA CollectKeeps ==
  ASSUME VMFits, TypeInv, CollectorTypeOK, VMInv,
         NativeCollect \/ FinalCollect \/ Collecting
  PROVE  VMInv'
<1>0. HeapTypeOK
  BY TypeParts
<1>1. CASE NativeCollect \/ FinalCollect
  <2>1. /\ StartCollect /\ UNCHANGED <<statics, frames>>
        /\ status' = status \/ (status = "returned" /\ status' = "finished")
    BY <1>1 DEF NativeCollect, FinalCollect
  <2>2. MarkingInv' /\ ListsReachable'
    BY <1>0, <2>1, StartCollectSafe, ReachableStart DEF VMInv, VMFits
  <2>3. PrimTame' /\ CountInv'
    BY <2>1 DEF StartCollect, heapVars, VMInv, PrimTame, CountInv
  <2>4. QED
    BY <2>1, <2>2, <2>3 DEF VMInv
<1>2. CASE Collecting
  <2>1. CollectStep /\ UNCHANGED <<statics, frames, status>>
    BY <1>2 DEF Collecting
  <2>2. MarkingInv' /\ ListsReachable'
    BY <1>0, <2>1, CollectStepSafe, ReachableStep DEF VMInv
  <2>3. UNCHANGED <<otype, fields, stackCnt>>
    BY <2>1 DEF CollectStep, ScanEntry, SkipEntry, CrashOnElement, NextPass, Sweep, heapVars
  <2>4. PrimTame'
    BY <2>3 DEF VMInv, PrimTame
  <2>5. CountInv'
    <3>1. CASE Sweep
      BY <2>1, <3>1, SweepCounts
    <3>2. CASE ~Sweep
      <4>1. UNCHANGED chain
        BY <2>1, <3>2
           DEF CollectStep, ScanEntry, SkipEntry, CrashOnElement, NextPass, heapVars
      <4>2. QED
        BY <2>1, <2>3, <4>1 DEF VMInv, CountInv
    <3>3. QED
      BY <3>1, <3>2
  <2>6. QED
    BY <2>1, <2>2, <2>4, <2>5 DEF VMInv
<1>3. QED
  BY <1>1, <1>2

LEMMA VMStep ==
  ASSUME VMFits, TypeInv, CollectorTypeOK, VMInv, [Next]_vars
  PROVE  VMInv'
<1>1. CASE Execute
  BY <1>1, ExecuteSafe
<1>2. CASE NativeCollect \/ FinalCollect \/ Collecting
  BY <1>2, CollectKeeps
<1>3. CASE UNCHANGED vars
  <2>1. UNCHANGED <<interpVars, collectorVars>>
    BY <1>3 DEF vars, interpVars, collectorVars
  <2>2. MarkingInv' /\ ListsReachable'
    BY <2>1, CollectorStutter, TypeParts DEF VMInv
  <2>3. PrimTame' /\ CountInv'
    BY <2>1 DEF interpVars, heapVars, VMInv, PrimTame, CountInv
  <2>4. QED
    BY <2>1, <2>2, <2>3 DEF VMInv, interpVars
<1>4. QED
  BY <1>1, <1>2, <1>3 DEF Next

THEOREM VMInvariant ==
  ASSUME VMFits PROVE Spec => [](TypeInv /\ CollectorTypeOK /\ VMInv)
<1>1. Init => TypeInv /\ CollectorTypeOK /\ VMInv
  BY VMInitTypes, VMInitially
<1>2. (TypeInv /\ CollectorTypeOK /\ VMInv) /\ [Next]_vars
        => (TypeInv /\ CollectorTypeOK /\ VMInv)'
  BY VMNextTypes, VMStep
<1>3. QED
  BY <1>1, <1>2, PTL DEF Spec

(***************************************************************************)
(* The counts of the objects that are allocated stay exact across          *)
(* collections: CountExact of the run vm_calls.                            *)
(***************************************************************************)
THEOREM VMCountExact ==
  ASSUME VMFits PROVE Spec => []CountExact
<1>1. VMInv => CountExact
  BY CountInvExact DEF VMInv
<1>2. QED
  BY <1>1, VMInvariant, PTL

(***************************************************************************)
(* No method, at any depth of calls, ever has a reference to an object     *)
(* that jvm_Collect has freed, and no object refers to one.                *)
(***************************************************************************)
THEOREM FramesAlwaysLive ==
  ASSUME VMFits PROVE Spec => []FramesLive
<1>1. VMInv => FramesLive
  BY CountedAreReferred DEF VMInv, FramesLive, MarkingInv, ChainClosed
<1>2. QED
  BY <1>1, VMInvariant, PTL

(***************************************************************************)
(* Every collection starts from what the frames refer to and from what is  *)
(* held, and from nothing else: no count is ever left behind.              *)
(***************************************************************************)
THEOREM CollectStartsRight ==
  ASSUME VMFits PROVE Spec => StartsFromFrames
<1>1. ASSUME TypeInv, VMInv, [Next]_vars, phase = "idle", phase' = "mark"
      PROVE  ra' = FrameRefs \cup {o \in chain : hold[o]}
  <2>1. StartCollect
    BY <1>1 DEF Next, Execute, NativeCollect, FinalCollect, Collecting, CollectStep,
                ScanEntry, SkipEntry, CrashOnElement, NextPass, Sweep, vars, gcVars
  <2>2. FrameRefs = {o \in chain : stackCnt[o] > 0}
    BY <1>1, CountedAreReferred DEF VMInv
  <2>3. QED
    BY <2>1, <2>2 DEF StartCollect, Rooted
<1>2. (TypeInv /\ CollectorTypeOK /\ VMInv) /\ [Next]_vars
        => [phase = "idle" /\ phase' = "mark"
              => ra' = FrameRefs \cup {o \in chain : hold[o]}]_vars
  BY <1>1
<1>3. QED
  BY <1>2, VMInvariant, PTL DEF Spec, StartsFromFrames

(***************************************************************************)
(* After the last collection of main only what is held, or reached from    *)
(* what is held, is left, and no count is.                                 *)
(***************************************************************************)
THEOREM OnlyHeldIsLeft ==
  ASSUME VMFits PROVE Spec => OnlyHeldRemains
<1>1. ASSUME TypeInv, CollectorTypeOK, VMInv, status = "finished", Sweep
      PROVE  /\ frames = <<>>
             /\ chain' = Reachable(roots)
             /\ \A o \in Obj : stackCnt[o] = 0 \/ o \notin chain
  <2>1. frames = <<>>
    BY <1>1 DEF VMInv
  <2>2. chain' = Reachable(roots)
    BY <1>1, TypeParts, SweepIsExact DEF VMInv
  <2>3. ASSUME NEW o \in chain PROVE stackCnt[o] = 0
    <3>1. FramesOK(frames) /\ stackCnt[o] = Count(frames, o)
      BY <1>1, <2>3 DEF VMInv, CountInv, Exact
    <3>2. ~RefersIn(frames, o)
      BY <2>1 DEF RefersIn
    <3>3. QED
      BY <3>1, <3>2, CountedIsReferred
  <2>4. QED
    BY <2>1, <2>2, <2>3
<1>2. (TypeInv /\ CollectorTypeOK /\ VMInv) /\ [Next]_vars
        => [status = "finished" /\ Collecting /\ Sweep =>
              /\ frames = <<>>
              /\ chain' = Reachable(roots)
              /\ \A o \in Obj : stackCnt[o] = 0 \/ o \notin chain]_vars
  BY <1>1
<1>3. QED
  BY <1>2, VMInvariant, PTL DEF Spec, OnlyHeldRemains
=============================================================================
