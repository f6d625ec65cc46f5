-------------------------- MODULE ManagedHeapProofs --------------------------
(***************************************************************************)
(* Proofs about the collected heap, for every number of addresses, slots   *)
(* and objects.                                                            *)
(***************************************************************************)
EXTENDS ManagedHeap, CollectorProofs

USE DEF Mark, ObjType, Value

-----------------------------------------------------------------------------
(* Away from its bounds a stack count is counted without wrapping. *)

LEMMA CountUp ==
  ASSUME HeapTypeOK, NEW o \in Obj, stackCnt[o] < MaxCnt
  PROVE  Inc(stackCnt, o) = [stackCnt EXCEPT ![o] = @ + 1]
<1>1. stackCnt[o] \in 0..MaxCnt
  BY DEF HeapTypeOK
<1>2. \A c \in 0..MaxCnt : c < MaxCnt => (c + 1) % (MaxCnt + 1) = c + 1
  BY CntAssumption, SMT
<1>3. QED
  BY <1>1, <1>2, Zenon DEF Inc

LEMMA CountDown ==
  ASSUME HeapTypeOK, NEW o \in Obj, stackCnt[o] > 0
  PROVE  Dec(stackCnt, o) = [stackCnt EXCEPT ![o] = @ - 1]
<1>1. stackCnt[o] \in 0..MaxCnt
  BY DEF HeapTypeOK
<1>2. \A c \in 0..MaxCnt : c > 0 => (c - 1) % (MaxCnt + 1) = c - 1
  BY CntAssumption, SMT
<1>3. QED
  BY <1>1, <1>2, Zenon DEF Dec

-----------------------------------------------------------------------------
(* Type correctness. *)

LEMMA LinkType ==
  ASSUME HeapTypeOK,
         NEW o \in Obj, NEW t \in ObjType, NEW v \in Value, NEW m \in Mark,
         NEW h \in BOOLEAN, NEW n \in 0..MaxCnt,
         Link(o, t, v, m, h, n)
  PROVE  HeapTypeOK'
<1>1. [s \in Slot |-> v] \in [Slot -> Value]
  OBVIOUS
<1>2. chain' \subseteq Obj /\ otype' \in [Obj -> ObjType]
  BY DEF HeapTypeOK, Link
<1>3. fields' \in [Obj -> [Slot -> Value]]
  BY <1>1 DEF HeapTypeOK, Link
<1>4. stackCnt' \in [Obj -> 0..MaxCnt] /\ cmark' \in [Obj -> Mark]
  BY DEF HeapTypeOK, Link
<1>5. hold' \in [Obj -> BOOLEAN]
  BY Zenon DEF HeapTypeOK, Link
<1>6. QED
  BY <1>2, <1>3, <1>4, <1>5 DEF HeapTypeOK

LEMMA MutateType == ASSUME TypeOK, Mutate PROVE TypeOK'
<1> USE DEF TypeOK, InHand
<1>0. /\ {Null, Num, Wild} \subseteq Value /\ Unwritten \subseteq Value
      /\ 0 \in Mark /\ Junk \subseteq Mark
      /\ 1 \in 0..MaxCnt
      /\ {"object", "oarray", "parray"} \subseteq ObjType
  BY ValueAssumption, MarkAssumption, CntAssumption
<1>1. ASSUME NEW o \in Obj, New(o) PROVE TypeOK'
  <2>1. HeapTypeOK'
    BY <1>0, <1>1, LinkType, Zenon DEF New, CreateObject
  <2>2. QED
    BY <1>1, <2>1 DEF New, gcVars, CollectorTypeOK
<1>2. ASSUME NEW o \in Obj, NewHeld(o) PROVE TypeOK'
  <2>1. HeapTypeOK'
    BY <1>0, <1>2, LinkType, Zenon DEF NewHeld, CreateObject
  <2>2. QED
    BY <1>2, <2>1 DEF NewHeld, gcVars, CollectorTypeOK
<1>3. ASSUME NEW o \in Obj, NewObjectArray(o) PROVE TypeOK'
  <2>1. PICK m \in Junk, v \in Unwritten : Link(o, "oarray", v, m, FALSE, 1)
    BY <1>3 DEF NewObjectArray, CreateObjectArray
  <2>2. HeapTypeOK'
    BY <1>0, <2>1, LinkType, Zenon
  <2>3. QED
    BY <1>3, <2>2 DEF NewObjectArray, gcVars, CollectorTypeOK
<1>4. ASSUME NEW o \in Obj, NewPrimArray(o) PROVE TypeOK'
  <2>1. HeapTypeOK'
    BY <1>0, <1>4, LinkType, Zenon DEF NewPrimArray, CreatePrimArray
  <2>2. QED
    BY <1>4, <2>1 DEF NewPrimArray, gcVars, CollectorTypeOK
<1>5. ASSUME NEW o \in Obj, Push(o) PROVE TypeOK'
  <2>1. stackCnt' = [stackCnt EXCEPT ![o] = @ + 1] /\ stackCnt[o] \in 0..MaxCnt
    BY <1>5, CountUp DEF Push, HeapTypeOK
  <2>2. QED
    BY <1>5, <2>1, CntAssumption DEF Push, HeapTypeOK, gcVars, CollectorTypeOK
<1>6. ASSUME NEW o \in Obj, Pop(o) PROVE TypeOK'
  <2>1. stackCnt' = [stackCnt EXCEPT ![o] = @ - 1] /\ stackCnt[o] \in 0..MaxCnt
    BY <1>6, CountDown DEF Pop, HeapTypeOK
  <2>2. QED
    BY <1>6, <2>1, CntAssumption DEF Pop, HeapTypeOK, gcVars, CollectorTypeOK
<1>7. ASSUME NEW p \in Obj, NEW s \in Slot, NEW v \in Value, PutField(p, s, v)
      PROVE  TypeOK'
  BY <1>7 DEF PutField, Store, HeapTypeOK, gcVars, CollectorTypeOK
<1>8. ASSUME NEW p \in Obj, NEW s \in Slot, NEW v \in Value, StoreElement(p, s, v)
      PROVE  TypeOK'
  BY <1>8 DEF StoreElement, Store, HeapTypeOK, gcVars, CollectorTypeOK
<1>9. ASSUME NEW p \in Obj, NEW s \in Slot, Fetch(p, s) PROVE TypeOK'
  <2> DEFINE v == fields[p][s]
  <2>1. v \in Obj /\ stackCnt[v] \in 0..MaxCnt /\ stackCnt[v] < MaxCnt
    BY <1>9 DEF Fetch, HeapTypeOK
  <2>2. stackCnt' = [stackCnt EXCEPT ![v] = @ + 1]
    BY <1>9, <2>1, CountUp DEF Fetch
  <2>3. stackCnt' \in [Obj -> 0..MaxCnt]
    BY <2>1, <2>2, CntAssumption DEF HeapTypeOK
  <2>4. QED
    BY <1>9, <2>3 DEF Fetch, HeapTypeOK, gcVars, CollectorTypeOK
<1>10. ASSUME NEW p \in Obj, NEW s \in Slot, FetchWild(p, s) PROVE TypeOK'
  BY <1>10 DEF FetchWild, HeapTypeOK, heapVars, CollectorTypeOK
<1>11. ASSUME NEW x \in Static, GetStatic(x) PROVE TypeOK'
  <2> DEFINE v == statics[x]
  <2>1. v \in Obj /\ stackCnt[v] \in 0..MaxCnt /\ stackCnt[v] < MaxCnt
    BY <1>11 DEF GetStatic, HeapTypeOK
  <2>2. stackCnt' = [stackCnt EXCEPT ![v] = @ + 1]
    BY <1>11, <2>1, CountUp DEF GetStatic
  <2>3. stackCnt' \in [Obj -> 0..MaxCnt]
    BY <2>1, <2>2, CntAssumption DEF HeapTypeOK
  <2>4. QED
    BY <1>11, <2>3 DEF GetStatic, HeapTypeOK, gcVars, CollectorTypeOK
<1>12. ASSUME NEW x \in Static, NEW v \in Value, PutStatic(x, v) PROVE TypeOK'
  BY <1>12 DEF PutStatic, HeapTypeOK, heapVars, gcVars, CollectorTypeOK
<1>13. QED
  BY <1>1, <1>2, <1>3, <1>4, <1>5, <1>6, <1>7, <1>8, <1>9, <1>10, <1>11, <1>12
     DEF Mutate

LEMMA TypeInitially == Init => TypeOK
  BY ValueAssumption, MarkAssumption, CntAssumption, CollectAssumption
     DEF Init, HeapInit, CollectorInit, TypeOK, HeapTypeOK, CollectorTypeOK

LEMMA TypeStep == ASSUME TypeOK, [Next]_vars PROVE TypeOK'
<1>1. CASE Mutate
  BY <1>1, MutateType
<1>2. CASE Collect
  BY <1>2, StartCollectType DEF Collect, TypeOK
<1>3. CASE Collecting
  BY <1>3, CollectStepType DEF Collecting, TypeOK
<1>4. CASE Exit
  BY <1>4 DEF Exit, TypeOK, HeapTypeOK, CollectorTypeOK, heapVars, gcVars
<1>5. CASE Stopped \/ UNCHANGED vars
  BY <1>5 DEF Stopped, vars, TypeOK, HeapTypeOK, CollectorTypeOK, heapVars, gcVars
<1>6. QED
  BY <1>1, <1>2, <1>3, <1>4, <1>5 DEF Next

(***************************************************************************)
(* Headers, lists and marks stay in range: the counters of jvm_Collect and *)
(* of the stacks never leave their widths while the pushes are bounded.    *)
(***************************************************************************)
THEOREM TypeCorrect == Spec => []TypeOK
<1>1. Init => TypeOK
  BY TypeInitially
<1>2. TypeOK /\ [Next]_vars => TypeOK'
  BY TypeStep
<1>3. QED
  BY <1>1, <1>2, PTL DEF Spec

-----------------------------------------------------------------------------
(* No dangling reference: what a step of the program does to it.           *)

(* A new object refers to nothing, and nothing that existed changes. *)
LEMMA LinkSafe ==
  ASSUME TypeOK, NoDangling, IdleMarks, phase = "idle", UNCHANGED gcVars,
         NEW o \in Obj, NEW t \in ObjType, NEW v \in {Null, Num, Wild},
         NEW h \in BOOLEAN, NEW n \in 0..MaxCnt,
         Link(o, t, v, 0, h, n)
  PROVE  NoDangling' /\ IdleMarks'
<1> USE DEF Link, TypeOK, HeapTypeOK
<1>1. chain' = chain \cup {o} /\ o \notin chain
  OBVIOUS
<1>2. \A p \in Obj : stackCnt'[p] > 0 => p \in chain'
  BY DEF NoDangling, CountedLive, ChainClosed
<1>3. Refs(o)' = {}
  <2>1. fields'[o] = [s \in Slot |-> v]
    OBVIOUS
  <2>2. \A s \in Slot : fields'[o][s] \notin Obj
    BY <2>1, ValueAssumption
  <2>3. QED
    BY <2>2 DEF Refs
<1>4. \A p \in chain : Refs(p)' = Refs(p)
  BY <1>1 DEF Refs
<1>5. NoDangling'
  BY <1>1, <1>2, <1>3, <1>4 DEF NoDangling, CountedLive, ChainClosed
<1>6. IdleMarks'
  BY <1>1 DEF IdleMarks, gcVars
<1>7. QED
  BY <1>5, <1>6

(* Counting one more reference to an allocated object, or one less. *)
LEMMA CountSafe ==
  ASSUME TypeOK, NoDangling, NEW v \in chain,
         UNCHANGED <<chain, otype, fields>>,
         \/ stackCnt' = [stackCnt EXCEPT ![v] = @ + 1]
         \/ stackCnt' = [stackCnt EXCEPT ![v] = @ - 1]
  PROVE  NoDangling'
<1>1. \A p \in Obj : stackCnt'[p] > 0 => p \in chain
  BY DEF NoDangling, CountedLive, ChainClosed, TypeOK, HeapTypeOK
<1>2. \A p \in Obj : Refs(p)' = Refs(p)
  BY DEF Refs
<1>3. QED
  BY <1>1, <1>2 DEF NoDangling, CountedLive, ChainClosed, TypeOK, HeapTypeOK

(* Storing a value that is in hand, or no reference, in an object. *)
LEMMA StoreSafe ==
  ASSUME TypeOK, NoDangling, NEW p \in Obj, NEW s \in Slot, NEW v \in Value,
         v \in chain \/ v \notin Obj,
         Store(p, s, v), UNCHANGED <<chain, otype, stackCnt>>
  PROVE  NoDangling'
<1>1. Refs(p)' \subseteq Refs(p) \cup {v}
  <2>1. \A r \in Slot : fields'[p][r] = IF r = s THEN v ELSE fields[p][r]
    BY DEF Store, TypeOK, HeapTypeOK
  <2>2. QED
    BY <2>1 DEF Refs
<1>2. \A q \in Obj \ {p} : Refs(q)' = Refs(q)
  BY DEF Store, Refs, TypeOK, HeapTypeOK
<1>3. \A q \in chain : Refs(q)' \subseteq chain
  <2> SUFFICES ASSUME NEW q \in chain PROVE Refs(q)' \subseteq chain
    OBVIOUS
  <2>1. q \in Obj /\ Refs(q) \subseteq chain
    BY DEF NoDangling, CountedLive, ChainClosed, TypeOK, HeapTypeOK
  <2>2. Refs(q)' \subseteq Obj
    BY DEF Refs
  <2>3. CASE q = p
    BY <1>1, <2>1, <2>2, <2>3
  <2>4. CASE q # p
    BY <1>2, <2>1, <2>4
  <2>5. QED
    BY <2>3, <2>4
<1>4. QED
  BY <1>3 DEF NoDangling, CountedLive, ChainClosed

LEMMA MutateSafe ==
  ASSUME FreshMarks, TypeOK, HeapInv, Mutate
  PROVE  HeapInv'
<1> USE DEF InHand, Working
<1>0. /\ {Null, Num, Wild} \subseteq Value
      /\ 0 \in Mark /\ 1 \in 0..MaxCnt
      /\ {"object", "oarray", "parray"} \subseteq ObjType
  BY MarkAssumption, CntAssumption
<1>h. chain \subseteq Obj /\ stackCnt \in [Obj -> 0..MaxCnt] /\ IdleMarks
  BY DEF TypeOK, HeapTypeOK, HeapInv, MarkingInv
(* The program leaves the collector's own state alone, except to crash. *)
<1>a. SUFFICES ASSUME phase = "idle"
               PROVE  NoDangling' /\ IdleMarks' /\ UNCHANGED <<jmark, collects>>
                      /\ phase' # "mark"
  <2>1. phase = "idle"
    BY DEF Mutate, New, NewHeld, NewObjectArray, NewPrimArray, Push, Pop,
           PutField, StoreElement, Fetch, FetchWild, GetStatic, PutStatic
  <2>2. QED
    BY <1>a, <2>1 DEF HeapInv, MarkingInv, NoDangling, CurrentMarks, ListsSound,
                      MarkClosed
<1>b. NoDangling
  BY DEF HeapInv, MarkingInv, NoDangling
<1>c. ASSUME UNCHANGED <<chain, cmark, gcVars>>
      PROVE  IdleMarks' /\ UNCHANGED <<jmark, collects>> /\ phase' # "mark"
  BY <1>a, <1>c, <1>h DEF IdleMarks, gcVars
<1>1. ASSUME NEW o \in Obj, New(o) PROVE NoDangling' /\ IdleMarks'
  BY <1>0, <1>1, <1>a, <1>b, <1>h, LinkSafe, Zenon DEF New, CreateObject
<1>2. ASSUME NEW o \in Obj, NewHeld(o) PROVE NoDangling' /\ IdleMarks'
  BY <1>0, <1>2, <1>a, <1>b, <1>h, LinkSafe, Zenon DEF NewHeld, CreateObject
<1>3. ASSUME NEW o \in Obj, NewObjectArray(o) PROVE NoDangling' /\ IdleMarks'
  <2>1. PICK v \in {Null, Num, Wild} : Link(o, "oarray", v, 0, FALSE, 1)
    BY <1>3, ValueAssumption
       DEF NewObjectArray, CreateObjectArray, FreshMarks
  <2>2. QED
    BY <1>0, <1>3, <1>a, <1>b, <1>h, <2>1, LinkSafe, Zenon DEF NewObjectArray
<1>4. ASSUME NEW o \in Obj, NewPrimArray(o) PROVE NoDangling' /\ IdleMarks'
  BY <1>0, <1>4, <1>a, <1>b, <1>h, LinkSafe, Zenon DEF NewPrimArray, CreatePrimArray
<1>5. ASSUME NEW o \in Obj, Push(o) PROVE NoDangling'
  <2>1. stackCnt' = [stackCnt EXCEPT ![o] = @ + 1] /\ o \in chain
    BY <1>5, <1>b, CountUp DEF Push, TypeOK, InHand, NoDangling, CountedLive
  <2>2. QED
    BY <1>5, <1>b, <2>1, CountSafe DEF Push
<1>6. ASSUME NEW o \in Obj, Pop(o) PROVE NoDangling'
  <2>1. stackCnt' = [stackCnt EXCEPT ![o] = @ - 1] /\ o \in chain
    BY <1>6, <1>b, CountDown DEF Pop, TypeOK, InHand, NoDangling, CountedLive
  <2>2. QED
    BY <1>6, <1>b, <2>1, CountSafe DEF Pop
<1>7. ASSUME NEW p \in Obj, NEW s \in Slot, NEW v \in Value, PutField(p, s, v)
      PROVE  NoDangling'
  <2>1. v \in chain \/ v \notin Obj
    BY <1>7, <1>b, ValueAssumption DEF PutField, NoDangling, CountedLive, ChainClosed
  <2>2. QED
    BY <1>7, <1>b, <2>1, StoreSafe DEF PutField
<1>8. ASSUME NEW p \in Obj, NEW s \in Slot, NEW v \in Value, StoreElement(p, s, v)
      PROVE  NoDangling'
  <2>1. v \in chain \/ v \notin Obj
    BY <1>8, <1>b, ValueAssumption DEF StoreElement, NoDangling, CountedLive, ChainClosed
  <2>2. QED
    BY <1>8, <1>b, <2>1, StoreSafe DEF StoreElement
<1>9. ASSUME NEW p \in Obj, NEW s \in Slot, Fetch(p, s) PROVE NoDangling'
  <2>1. fields[p][s] \in Refs(p) /\ p \in chain
    BY <1>9, <1>b DEF Fetch, Refs, NoDangling, CountedLive, ChainClosed
  <2>2. fields[p][s] \in chain
    BY <1>b, <2>1 DEF NoDangling, CountedLive, ChainClosed
  <2>3. QED
    BY <1>9, <1>b, <2>2, CountSafe, CountUp DEF Fetch, TypeOK
<1>10. ASSUME NEW p \in Obj, NEW s \in Slot, FetchWild(p, s)
       PROVE  /\ NoDangling' /\ IdleMarks'
              /\ UNCHANGED <<jmark, collects>> /\ phase' # "mark"
  BY <1>10, <1>b DEF FetchWild, heapVars, NoDangling, CountedLive, ChainClosed,
                             Refs, IdleMarks
<1>11. Static = {}
  BY DEF FreshMarks
<1>12. QED
  <2>1. ASSUME NEW o \in Obj,
               New(o) \/ NewHeld(o) \/ NewObjectArray(o) \/ NewPrimArray(o)
        PROVE  UNCHANGED <<jmark, collects>> /\ phase' # "mark"
    BY <2>1, <1>a DEF New, NewHeld, NewObjectArray, NewPrimArray, gcVars
  <2>2. ASSUME NEW o \in Obj, Push(o) \/ Pop(o)
        PROVE  UNCHANGED <<chain, cmark, gcVars>>
    BY <2>2 DEF Push, Pop
  <2>3. ASSUME NEW p \in Obj, NEW s \in Slot, NEW v \in Value,
               PutField(p, s, v) \/ StoreElement(p, s, v) \/ Fetch(p, s)
        PROVE  UNCHANGED <<chain, cmark, gcVars>>
    BY <2>3 DEF PutField, StoreElement, Fetch
  <2>4. QED
    BY <1>c, <1>1, <1>2, <1>3, <1>4, <1>5, <1>6, <1>7, <1>8, <1>9, <1>10,
       <1>11, <2>1, <2>2, <2>3, <1>0 DEF Mutate

LEMMA HeapInitially == Init => HeapInv
  BY DEF Init, HeapInit, CollectorInit, HeapInv, MarkingInv, CountedLive, ChainClosed,
         IdleMarks, CurrentMarks, ListsSound, MarkClosed

LEMMA HeapStep ==
  ASSUME FreshMarks, TypeOK, HeapInv, [Next]_vars
  PROVE  HeapInv'
<1>1. CASE Mutate
  BY <1>1, MutateSafe
<1>2. CASE Collect
  BY <1>2, StartCollectSafe, CollectStepCounted
     DEF Collect, TypeOK, HeapInv, FreshMarks
<1>3. CASE Collecting
  BY <1>3, CollectStepSafe, CollectStepCounted DEF Collecting, TypeOK, HeapInv
<1>4. CASE Exit \/ Stopped \/ UNCHANGED vars
  BY <1>4, CollectorStutter, CollectStepCounted
     DEF Exit, Stopped, vars, heapVars, gcVars, collectorVars, TypeOK, HeapInv
<1>5. QED
  BY <1>1, <1>2, <1>3, <1>4 DEF Next

(***************************************************************************)
(* jvm_Collect frees nothing that the program can reach, for a program     *)
(* that keeps its references out of static fields, as long as no mark has  *)
(* been used twice and the headers of object arrays come zeroed.           *)
(***************************************************************************)
THEOREM CollectSafe ==
  ASSUME FreshMarks
  PROVE  Spec => [](NoDangling /\ MarkClosed)
<1>1. Init => HeapInv
  BY HeapInitially
<1>2. TypeOK /\ HeapInv /\ [Next]_vars => HeapInv'
  BY HeapStep
<1>3. HeapInv => NoDangling /\ MarkClosed
  BY DEF HeapInv, MarkingInv, NoDangling
<1>4. QED
  BY <1>1, <1>2, <1>3, TypeCorrect, PTL DEF Spec

(***************************************************************************)
(* The tests by which jvm_Collect leaves entries out never make it forget  *)
(* an object on the way: MarkClosed of the run heap_safety, under the      *)
(* conditions of CollectSafe.                                              *)
(***************************************************************************)
THEOREM MarkClosedAlways ==
  ASSUME FreshMarks
  PROVE  Spec => []MarkClosed
<1>1. Spec => [](NoDangling /\ MarkClosed)
  BY CollectSafe
<1>2. QED
  BY <1>1, PTL

-----------------------------------------------------------------------------
(* The sweep is exact.                                                     *)

LEMMA NextReachable ==
  ASSUME TypeOK, HeapInv, ListsReachable, [Next]_vars
  PROVE  ListsReachable'
<1>1. CASE Mutate
  <2>1. phase' # "mark"
    BY <1>1 DEF Mutate, New, NewHeld, NewObjectArray, NewPrimArray, Push, Pop,
                PutField, StoreElement, Fetch, FetchWild, GetStatic, PutStatic,
                Working, gcVars
  <2>2. QED
    BY <2>1 DEF ListsReachable
<1>2. CASE Collect
  BY <1>2, ReachableStart DEF Collect
<1>3. CASE Collecting
  BY <1>3, ReachableStep DEF Collecting, TypeOK, HeapInv
<1>4. CASE Exit \/ Stopped \/ UNCHANGED vars
  BY <1>4, CollectorStutter
     DEF Exit, Stopped, vars, heapVars, gcVars, collectorVars, TypeOK
<1>5. QED
  BY <1>1, <1>2, <1>3, <1>4 DEF Next

(***************************************************************************)
(* Under the same conditions the sweep keeps what can be reached from what *)
(* was counted or held when jvm_Collect was called, and nothing else: it   *)
(* leaves no garbage to a later collection.                                *)
(***************************************************************************)
THEOREM CollectExact ==
  ASSUME FreshMarks
  PROVE  Spec => SweepExact
<1>1. Init => HeapInv /\ ListsReachable
  BY HeapInitially DEF Init, CollectorInit, ListsReachable
<1>2. TypeOK /\ HeapInv /\ ListsReachable /\ [Next]_vars
        => HeapInv' /\ ListsReachable'
  BY HeapStep, NextReachable
<1>3. TypeOK /\ HeapInv /\ ListsReachable /\ [Next]_vars
        => [Collecting /\ Sweep => chain' = Reachable(roots)]_vars
  BY SweepIsExact DEF TypeOK, HeapInv
<1>4. QED
  BY <1>1, <1>2, <1>3, TypeCorrect, PTL DEF Spec, SweepExact

-----------------------------------------------------------------------------
(* The heap implements the abstract heap.                                  *)

USE DEF RefsOfChain, CountedOfChain

(* A step that neither the references nor the hand shows. *)
LEMMA Unseen ==
  ASSUME UNCHANGED <<chain, otype, fields, stackCnt>>
  PROVE  UNCHANGED <<chain, RefsOfChain, CountedOfChain>>
  BY DEF Refs

LEMMA LinkCreates ==
  ASSUME TypeOK, NEW o \in Obj, NEW t \in ObjType, NEW v \in {Null, Num, Wild},
         NEW m \in Mark, NEW h \in BOOLEAN, Link(o, t, v, m, h, 1)
  PROVE  Abstract!Create(o)
<1> USE DEF Link, TypeOK, HeapTypeOK
<1>1. Refs(o)' = {}
  <2>1. fields'[o] = [s \in Slot |-> v]
    OBVIOUS
  <2>2. \A s \in Slot : fields'[o][s] \notin Obj
    BY <2>1, ValueAssumption
  <2>3. QED
    BY <2>2 DEF Refs
<1>2. \A p \in chain : Refs(p)' = Refs(p)
  BY DEF Refs
<1>3. RefsOfChain' = RefsOfChain
  BY <1>1, <1>2
<1>4. CountedOfChain' = CountedOfChain \cup {o}
  OBVIOUS
<1>5. QED
  BY <1>3, <1>4 DEF Abstract!Create

LEMMA StoreRelinks ==
  ASSUME TypeOK, NoDangling, NEW p \in Obj, NEW s \in Slot, NEW v \in Value,
         InHand(p), InHand(v) \/ v \notin Obj,
         Store(p, s, v), UNCHANGED <<chain, otype, stackCnt>>
  PROVE  \E S \in SUBSET Obj : Abstract!Relink(p, S)
<1> USE DEF InHand
<1>1. p \in chain /\ p \in CountedOfChain /\ (v \in Obj => v \in CountedOfChain)
  BY DEF NoDangling, CountedLive, ChainClosed
<1>2. Refs(p)' \subseteq Refs(p) \cup ({v} \cap Obj)
  <2>1. \A r \in Slot : fields'[p][r] = IF r = s THEN v ELSE fields[p][r]
    BY DEF Store, TypeOK, HeapTypeOK
  <2>2. QED
    BY <2>1 DEF Refs
<1>3. \A q \in Obj \ {p} : Refs(q)' = Refs(q)
  BY DEF Store, Refs, TypeOK, HeapTypeOK
<1>4. RefsOfChain' = [RefsOfChain EXCEPT ![p] = Refs(p)']
  BY <1>1, <1>3
<1>5. Refs(p)' \subseteq RefsOfChain[p] \cup CountedOfChain
  BY <1>1, <1>2
<1>6. CountedOfChain' = CountedOfChain
  OBVIOUS
<1>7. PICK S \in SUBSET Obj : S = Refs(p)'
  BY DEF Refs
<1>8. Abstract!Relink(p, S)
  BY <1>1, <1>4, <1>5, <1>6, <1>7 DEF Abstract!Relink
<1>9. QED
  BY <1>8

LEMMA MutateImplements ==
  ASSUME FreshMarks, TypeOK, NoDangling, Mutate
  PROVE  [Abstract!AbsNext]_(Abstract!absVars)
<1> USE DEF Abstract!AbsNext, Abstract!absVars
<1>0. /\ {Null, Num, Wild} \subseteq Value
      /\ 0 \in Mark /\ Junk \subseteq Mark
      /\ {"object", "oarray", "parray"} \subseteq ObjType
  BY MarkAssumption
<1>h. chain \subseteq Obj /\ stackCnt \in [Obj -> 0..MaxCnt]
  BY DEF TypeOK, HeapTypeOK
<1>1. ASSUME NEW o \in Obj,
             New(o) \/ NewHeld(o) \/ NewObjectArray(o) \/ NewPrimArray(o)
      PROVE  Abstract!Create(o)
  <2>1. CASE New(o)
    BY <1>0, <2>1, LinkCreates, Zenon DEF New, CreateObject
  <2>2. CASE NewHeld(o)
    BY <1>0, <2>2, LinkCreates, Zenon DEF NewHeld, CreateObject
  <2>3. CASE NewObjectArray(o)
    <3>1. PICK m \in Junk, v \in {Null, Num, Wild} :
            Link(o, "oarray", v, m, FALSE, 1)
      BY <2>3, ValueAssumption
         DEF NewObjectArray, CreateObjectArray, FreshMarks
    <3>2. QED
      BY <1>0, <3>1, LinkCreates, Zenon
  <2>4. CASE NewPrimArray(o)
    BY <1>0, <2>4, LinkCreates, Zenon DEF NewPrimArray, CreatePrimArray
  <2>5. QED
    BY <1>1, <2>1, <2>2, <2>3, <2>4
<1>2. ASSUME NEW o \in Obj, Push(o)
      PROVE  UNCHANGED <<chain, RefsOfChain, CountedOfChain>>
  <2>1. stackCnt' = [stackCnt EXCEPT ![o] = @ + 1] /\ stackCnt[o] > 0
    BY <1>2, CountUp DEF Push, InHand, TypeOK
  <2>2. CountedOfChain' = CountedOfChain
    BY <1>2, <1>h, <2>1 DEF Push
  <2>3. RefsOfChain' = RefsOfChain
    BY <1>2 DEF Push, Refs
  <2>4. QED
    BY <1>2, <2>2, <2>3 DEF Push
<1>3. ASSUME NEW o \in Obj, Pop(o)
      PROVE  Abstract!Drop(o) \/ UNCHANGED <<chain, RefsOfChain, CountedOfChain>>
  <2>1. stackCnt' = [stackCnt EXCEPT ![o] = @ - 1] /\ stackCnt[o] > 0
    BY <1>3, CountDown DEF Pop, InHand, TypeOK
  <2>2. CountedOfChain' = CountedOfChain \/ CountedOfChain' = CountedOfChain \ {o}
    <3>1. CASE stackCnt[o] = 1
      BY <1>3, <1>h, <2>1, <3>1 DEF Pop
    <3>2. CASE stackCnt[o] # 1
      BY <1>3, <1>h, <2>1, <3>2 DEF Pop
    <3>3. QED
      BY <3>1, <3>2
  <2>3. RefsOfChain' = RefsOfChain
    BY <1>3 DEF Pop, Refs
  <2>4. QED
    BY <1>3, <2>2, <2>3 DEF Pop, Abstract!Drop
<1>4. ASSUME NEW p \in Obj, NEW s \in Slot, NEW v \in Value,
             PutField(p, s, v) \/ StoreElement(p, s, v)
      PROVE  \E S \in SUBSET Obj : Abstract!Relink(p, S)
  <2>1. InHand(v) \/ v \notin Obj
    BY <1>4, ValueAssumption DEF PutField, StoreElement
  <2>2. InHand(p) /\ Store(p, s, v) /\ UNCHANGED <<chain, otype, stackCnt>>
    BY <1>4 DEF PutField, StoreElement
  <2>3. QED
    BY <2>1, <2>2, StoreRelinks
<1>5. ASSUME NEW p \in Obj, NEW s \in Slot, Fetch(p, s)
      PROVE  \E o \in Obj : Abstract!Take(p, o)
  <2>0. PICK v \in Obj : v = fields[p][s]
    BY <1>5 DEF Fetch
  <2>1. v \in Refs(p) /\ p \in chain /\ p \in CountedOfChain /\ v \in Obj
    BY <1>5, <2>0 DEF Fetch, Refs, NoDangling, CountedLive, InHand
  <2>2. v \in chain
    BY <2>1 DEF NoDangling, CountedLive, ChainClosed
  <2>3. stackCnt' = [stackCnt EXCEPT ![v] = @ + 1]
    BY <1>5, <2>0, CountUp DEF Fetch, TypeOK
  <2>4. CountedOfChain' = CountedOfChain \cup {v}
    <3>1. \A o \in Obj : stackCnt'[o] = IF o = v THEN stackCnt[o] + 1 ELSE stackCnt[o]
      BY <1>h, <2>1, <2>3
    <3>2. chain' = chain
      BY <1>5 DEF Fetch
    <3>3. QED
      BY <1>h, <2>1, <2>2, <3>1, <3>2
  <2>5. RefsOfChain' = RefsOfChain
    BY <1>5 DEF Fetch, Refs
  <2>6. Abstract!Take(p, v)
    BY <1>5, <1>h, <2>1, <2>4, <2>5 DEF Fetch, Abstract!Take
  <2>7. QED
    BY <2>6
<1>6. ASSUME NEW p \in Obj, NEW s \in Slot, FetchWild(p, s)
      PROVE  UNCHANGED <<chain, RefsOfChain, CountedOfChain>>
  BY <1>6, Unseen DEF FetchWild, heapVars
<1>7. Static = {}
  BY DEF FreshMarks
<1>8. ASSUME NEW o \in Obj, \/ New(o) \/ NewHeld(o)
                           \/ NewObjectArray(o) \/ NewPrimArray(o)
                           \/ Push(o) \/ Pop(o)
      PROVE  [Abstract!AbsNext]_(Abstract!absVars)
  BY <1>1, <1>2, <1>3, <1>8
<1>9. ASSUME NEW p \in Obj, NEW s \in Slot, NEW v \in Value,
             PutField(p, s, v) \/ StoreElement(p, s, v)
      PROVE  [Abstract!AbsNext]_(Abstract!absVars)
  BY <1>4, <1>9, Zenon
<1>10. ASSUME NEW p \in Obj, NEW s \in Slot, Fetch(p, s) \/ FetchWild(p, s)
       PROVE  [Abstract!AbsNext]_(Abstract!absVars)
  BY <1>5, <1>6, <1>10, Zenon
<1>11. QED
  BY <1>7, <1>8, <1>9, <1>10 DEF Mutate

LEMMA SweepReclaims ==
  ASSUME HeapTypeOK, CollectorTypeOK, MarkingInv, Sweep
  PROVE  \E U \in SUBSET Obj : Abstract!Reclaim(U)
<1>1. chain' = marked /\ marked \subseteq chain /\ chain \subseteq Obj
  BY SweepKeepsMarked DEF HeapTypeOK
<1>2. \A p \in marked : Refs(p) \subseteq marked
  BY DEF Sweep, MarkingInv, MarkClosed
<1>3. CountedOfChain \subseteq marked
  BY DEF Sweep, MarkingInv, ListsSound, Rooted
<1>4. CountedOfChain' = CountedOfChain
  BY <1>1, <1>3 DEF Sweep
<1>5. \A p \in Obj : Refs(p)' = Refs(p)
  BY DEF Sweep, Refs
<1>6. PICK U \in SUBSET Obj : U = chain \ marked
  BY <1>1
<1>7. RefsOfChain' = [o \in Obj |-> IF o \in U THEN {} ELSE RefsOfChain[o]]
  BY <1>1, <1>5, <1>6
<1>8. \A o \in chain \ U : RefsOfChain[o] \cap U = {}
  BY <1>1, <1>2, <1>6
<1>9. Abstract!Reclaim(U)
  BY <1>1, <1>3, <1>4, <1>6, <1>7, <1>8 DEF Abstract!Reclaim
<1>10. QED
  BY <1>9

LEMMA CollectingImplements ==
  ASSUME TypeOK, MarkingInv, Collecting
  PROVE  [Abstract!AbsNext]_(Abstract!absVars)
<1> USE DEF Abstract!AbsNext, Abstract!absVars
<1>1. CASE Sweep
  BY <1>1, SweepReclaims DEF TypeOK
<1>2. CASE NextPass \/ \E o \in Obj : ScanEntry(o) \/ SkipEntry(o) \/ CrashOnElement(o)
  BY <1>2, Unseen DEF NextPass, ScanEntry, SkipEntry, CrashOnElement, heapVars
<1>3. QED
  BY <1>1, <1>2 DEF Collecting, CollectStep

(***************************************************************************)
(* Under the same conditions every step of the virtual machine's heap is a *)
(* step of the abstract heap or leaves it as it was.                       *)
(***************************************************************************)
THEOREM HeapImplementsAbstract ==
  ASSUME FreshMarks
  PROVE  Spec => ImplementsAbstract
<1>1. Init => Abstract!AbsInit
  BY DEF Init, HeapInit, Abstract!AbsInit
<1>2. TypeOK /\ HeapInv /\ [Next]_vars => [Abstract!AbsNext]_(Abstract!absVars)
  <2> SUFFICES ASSUME TypeOK, HeapInv, [Next]_vars
               PROVE  [Abstract!AbsNext]_(Abstract!absVars)
    OBVIOUS
  <2>1. CASE Mutate
    BY <2>1, MutateImplements DEF HeapInv, MarkingInv, NoDangling
  <2>2. CASE Collecting
    BY <2>2, CollectingImplements DEF HeapInv
  <2>3. CASE Collect \/ Exit \/ Stopped \/ UNCHANGED vars
    BY <2>3, Unseen
       DEF Collect, StartCollect, Exit, Stopped, vars, heapVars, Abstract!absVars
  <2>4. QED
    BY <2>1, <2>2, <2>3 DEF Next
<1>3. Init => HeapInv
  BY HeapInitially
<1>4. TypeOK /\ HeapInv /\ [Next]_vars => HeapInv'
  BY HeapStep
<1>5. QED
  BY <1>1, <1>2, <1>3, <1>4, TypeCorrect, PTL
     DEF Spec, ImplementsAbstract, Abstract!AbsSpec

-----------------------------------------------------------------------------
(* What the abstract heap promises, and what that says of this one.        *)

LEMMA AbstractStep ==
  ASSUME Abstract!AbsSafe, [Abstract!AbsNext]_(Abstract!absVars)
  PROVE  Abstract!AbsSafe'
<1>. USE DEF Abstract!AbsSafe
<1>1. ASSUME NEW o \in Obj, Abstract!Create(o) PROVE Abstract!AbsSafe'
  BY <1>1 DEF Abstract!Create
<1>2. ASSUME NEW o \in Obj, Abstract!Drop(o) PROVE Abstract!AbsSafe'
  BY <1>2 DEF Abstract!Drop
<1>3. ASSUME NEW p \in Obj, NEW S \in SUBSET Obj, Abstract!Relink(p, S)
      PROVE  Abstract!AbsSafe'
  <2>1. S \subseteq chain /\ p \in chain
    BY <1>3 DEF Abstract!Relink
  <2>2. RefsOfChain' = [RefsOfChain EXCEPT ![p] = S] /\ UNCHANGED <<chain, CountedOfChain>>
    BY <1>3 DEF Abstract!Relink
  <2>3. RefsOfChain' \in [Obj -> SUBSET chain']
    <3>1. RefsOfChain \in [Obj -> SUBSET chain] /\ chain' = chain
      BY <2>2
    <3>2. [RefsOfChain EXCEPT ![p] = S] \in [Obj -> SUBSET chain]
      BY <2>1, <3>1
    <3>3. QED
      BY <2>2, <3>1, <3>2
  <2>4. \A o \in Obj \ chain' : RefsOfChain'[o] = {}
    BY <2>1, <2>2
  <2>5. QED
    BY <2>2, <2>3, <2>4
<1>4. ASSUME NEW p \in Obj, NEW o \in Obj, Abstract!Take(p, o) PROVE Abstract!AbsSafe'
  BY <1>4 DEF Abstract!Take
<1>5. ASSUME NEW U \in SUBSET Obj, Abstract!Reclaim(U) PROVE Abstract!AbsSafe'
  <2>1. \A o \in Obj : RefsOfChain'[o] \subseteq chain'
    <3>1. TAKE o \in Obj
    <3>2. RefsOfChain[o] \subseteq chain
      OBVIOUS
    <3>3. CASE o \in U
      BY <1>5, <3>3 DEF Abstract!Reclaim
    <3>4. CASE o \in chain \ U
      BY <1>5, <3>2, <3>4 DEF Abstract!Reclaim
    <3>5. CASE o \notin chain
      BY <1>5, <3>5 DEF Abstract!Reclaim
    <3>6. QED
      BY <3>3, <3>4, <3>5
  <2>2. \A o \in Obj \ chain' : RefsOfChain'[o] = {}
    BY <1>5 DEF Abstract!Reclaim
  <2>3. QED
    BY <1>5, <2>1, <2>2 DEF Abstract!Reclaim
<1>6. CASE UNCHANGED Abstract!absVars
  BY <1>6 DEF Abstract!absVars
<1>7. QED
  BY <1>1, <1>2, <1>3, <1>4, <1>5, <1>6 DEF Abstract!AbsNext

(***************************************************************************)
(* Because it implements the abstract heap, the heap keeps the promise of  *)
(* that one: what is on a stack exists, and what an existing object refers *)
(* to exists, in every state and not only where jvm_Collect has just run.  *)
(***************************************************************************)
THEOREM NothingLost ==
  ASSUME FreshMarks
  PROVE  Spec => []Abstract!AbsSafe
<1>1. Abstract!AbsInit => Abstract!AbsSafe
  BY DEF Abstract!AbsInit, Abstract!AbsSafe
<1>2. Abstract!AbsSafe /\ [Abstract!AbsNext]_(Abstract!absVars) => Abstract!AbsSafe'
  BY AbstractStep
<1>3. Abstract!AbsSpec => []Abstract!AbsSafe
  BY <1>1, <1>2, PTL DEF Abstract!AbsSpec
<1>4. Spec => Abstract!AbsSpec
  BY HeapImplementsAbstract DEF ImplementsAbstract
<1>5. QED
  BY <1>3, <1>4, PTL
=============================================================================
