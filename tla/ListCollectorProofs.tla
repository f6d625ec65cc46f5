------------------------- MODULE ListCollectorProofs -------------------------
(***************************************************************************)
(* Proofs about jvm_Collect with its lists and its memory: the lists may   *)
(* be taken for sets, so that what is proved of ManagedHeap holds of them, *)
(* and no block of a list is lost.                                         *)
(***************************************************************************)
EXTENDS ListCollector, FiniteSetTheorems, SequenceTheorems, TLAPS

-----------------------------------------------------------------------------
(* Sequences and the sets of their elements.                               *)

LEMMA ToSetType ==
  ASSUME NEW S, NEW s \in Seq(S)
  PROVE  ToSet(s) \subseteq S /\ Len(s) \in Nat /\ DOMAIN s = 1..Len(s)
BY DEF ToSet

LEMMA ToSetConcat ==
  ASSUME NEW S, NEW s \in Seq(S), NEW t \in Seq(S)
  PROVE  /\ s \o t \in Seq(S) /\ Len(s \o t) = Len(s) + Len(t)
         /\ ToSet(s \o t) = ToSet(s) \cup ToSet(t)
<1>. DEFINE u == s \o t
<1>1. /\ u \in Seq(S) /\ Len(u) = Len(s) + Len(t)
      /\ \A k \in 1..Len(s) : u[k] = s[k]
      /\ \A k \in 1..Len(t) : u[Len(s) + k] = t[k]
  BY SMT
<1>2. /\ Len(s) \in Nat /\ Len(t) \in Nat /\ DOMAIN u = 1..(Len(s) + Len(t))
      /\ DOMAIN s = 1..Len(s) /\ DOMAIN t = 1..Len(t)
  BY <1>1
<1>. HIDE DEF u
<1>3. \A k \in 1..Len(s) : k \in DOMAIN u
  BY <1>2
<1>4. \A k \in 1..Len(t) : Len(s) + k \in DOMAIN u
  BY <1>2
<1>5. \A k \in DOMAIN u : k \in 1..Len(s) \/ \E l \in 1..Len(t) : k = Len(s) + l
  <2>1. TAKE k \in DOMAIN u
  <2>2. CASE k > Len(s)
    <3>1. k - Len(s) \in 1..Len(t) /\ k = Len(s) + (k - Len(s))
      BY <1>2, <2>2
    <3>2. QED
      BY <3>1
  <2>3. CASE k <= Len(s)
    BY <1>2, <2>3
  <2>4. QED
    BY <1>2, <2>2, <2>3
<1>6. ToSet(u) \subseteq ToSet(s) \cup ToSet(t)
  <2>1. SUFFICES ASSUME NEW e \in ToSet(u) PROVE e \in ToSet(s) \cup ToSet(t)
    OBVIOUS
  <2>2. PICK k \in DOMAIN u : e = u[k]
    BY <2>1 DEF ToSet
  <2>3. CASE k \in 1..Len(s)
    <3>1. k \in DOMAIN s /\ s[k] = e
      BY <1>1, <1>2, <2>2, <2>3
    <3>2. QED
      BY <3>1, Zenon DEF ToSet
  <2>4. CASE \E l \in 1..Len(t) : k = Len(s) + l
    <3>1. PICK l \in 1..Len(t) : k = Len(s) + l
      BY <2>4
    <3>2. l \in DOMAIN t /\ t[l] = e
      BY <1>1, <1>2, <2>2, <3>1
    <3>3. QED
      BY <3>2, Zenon DEF ToSet
  <2>5. QED
    BY <1>5, <2>3, <2>4
<1>7. ToSet(s) \subseteq ToSet(u)
  BY <1>1, <1>2, <1>3 DEF ToSet
<1>8. ToSet(t) \subseteq ToSet(u)
  BY <1>1, <1>2, <1>4 DEF ToSet
<1>9. QED
  BY <1>1, <1>6, <1>7, <1>8 DEF u

(* Every order of a finite set has each of its elements. *)
LEMMA OrderOf ==
  ASSUME NEW S, IsFiniteSet(S), NEW s \in [1..Cardinality(S) -> S], IsInjective(s)
  PROVE  s \in Seq(S) /\ Len(s) = Cardinality(S) /\ ToSet(s) = S
<1>. DEFINE n == Cardinality(S)
<1>1. n \in Nat
  BY FS_CardinalityType
<1>2. IsFiniteSet(1..n) /\ Cardinality(1..n) = n
  BY <1>1, FS_Interval
<1>3. s \in Injection(1..n, S)
  BY DEF Injection, IsInjective
<1>4. s \in Surjection(1..n, S)
  BY <1>2, <1>3, FS_Injection
<1>5. \A e \in S : \E k \in 1..n : s[k] = e
  BY <1>4 DEF Surjection
<1>. HIDE DEF n
<1>6. s \in [1..n -> S]
  BY DEF n
<1>7. s \in Seq(S) /\ Len(s) = n /\ ToSet(s) = S
  <2>1. s \in Seq(S) /\ Len(s) = n /\ DOMAIN s = 1..n
    BY <1>1, <1>6
  <2>2. ToSet(s) \subseteq S
    BY <1>6, <2>1, Zenon DEF ToSet
  <2>3. S \subseteq ToSet(s)
    BY <1>5, <2>1, Zenon DEF ToSet
  <2>4. QED
    BY <2>1, <2>2, <2>3
<1>8. QED
  BY <1>7 DEF n

LEMMA SetToSeqOrder ==
  ASSUME NEW S, IsFiniteSet(S)
  PROVE  /\ SetToSeq(S) \in Seq(S) /\ Len(SetToSeq(S)) = Cardinality(S)
         /\ ToSet(SetToSeq(S)) = S
<1>1. ExistsBijection(1..Cardinality(S), S)
  BY FS_CardinalityType
<1>2. \E f \in [1..Cardinality(S) -> S] : IsInjective(f)
  BY <1>1 DEF ExistsBijection, Bijection, Injection, IsInjective
<1>3. SetToSeq(S) \in [1..Cardinality(S) -> S] /\ IsInjective(SetToSeq(S))
  BY <1>2 DEF SetToSeq
<1>4. QED
  BY <1>3, OrderOf

LEMMA SetToSeqsOrder ==
  ASSUME NEW S, IsFiniteSet(S), NEW s \in SetToSeqs(S)
  PROVE  s \in Seq(S) /\ Len(s) = Cardinality(S) /\ ToSet(s) = S
<1>1. s \in [1..Cardinality(S) -> S] /\ IsInjective(s)
  BY DEF SetToSeqs, IsInjective
<1>2. QED
  BY <1>1, OrderOf

-----------------------------------------------------------------------------
(* The lists.                                                              *)

ListType == la \in Seq(Obj) /\ lb \in Seq(Obj) /\ at \in 1..(Len(la) + 1)

LEMMA ListSets ==
  ASSUME ListType
  PROVE  /\ Looked \subseteq Obj /\ ToLookAt \subseteq Obj /\ ToSet(lb) \subseteq Obj
         /\ at = 1 => Looked = {} /\ ToLookAt = ToSet(la)
         /\ at > Len(la) => ToLookAt = {}
         /\ la = <<>> => ToLookAt = {} /\ at = 1
         /\ lb = <<>> => ToSet(lb) = {}
BY DEF ListType, Looked, ToLookAt, ToSet

(* A look at the next node takes its object off the nodes not looked at. *)
LEMMA LookOn ==
  ASSUME ListType, at <= Len(la), at' = at + 1, UNCHANGED la
  PROVE  /\ Current \in Obj /\ Current \in ToLookAt
         /\ Looked' = Looked \cup {Current}
         /\ (ToLookAt \ Looked)' = (ToLookAt \ Looked) \ {Current}
         /\ at' \in 1..(Len(la') + 1)
<1>1. Len(la) \in Nat /\ at \in 1..Len(la) /\ DOMAIN la = 1..Len(la)
  BY DEF ListType
<1>2. Current \in Obj /\ Current \in ToLookAt
  BY <1>1 DEF ListType, Current, ToLookAt
<1>3. \A k \in Nat : k \in 1..(at' - 1) <=> k \in 1..(at - 1) \/ k = at
  BY <1>1
<1>4. \A k \in Nat : k \in at..Len(la) <=> k \in at'..Len(la) \/ k = at
  BY <1>1
<1>5. Looked' = Looked \cup {Current}
  <2>1. 1..(at' - 1) = 1..(at - 1) \cup {at}
    BY <1>1
  <2>2. QED
    BY <2>1 DEF Looked, Current
<1>6. ToLookAt = ToLookAt' \cup {Current}
  <2>1. at..Len(la) = at'..Len(la) \cup {at}
    BY <1>1
  <2>2. QED
    BY <2>1 DEF ToLookAt, Current
<1>7. QED
  BY <1>1, <1>2, <1>5, <1>6

LEMMA NodesOf ==
  ASSUME Heap!HeapTypeOK, NEW o \in Obj
  PROVE  Nodes(o) \in Seq(Obj) /\ ToSet(Nodes(o)) = Heap!NewEntries(o)
<1>. DEFINE slots == {s \in Slot : Wanted(o, s)}
            found == SetToSeq(slots)
            nodes == [k \in 1..Len(found) |-> fields[o][found[k]]]
<1>1. IsFiniteSet(slots)
  BY ProgramAssumption, FS_Subset
<1>2. found \in Seq(slots) /\ ToSet(found) = slots
  BY <1>1, SetToSeqOrder
<1>3. Nodes(o) = nodes
  BY Zenon DEF Nodes, NodesFor
<1>4. \A s \in slots : fields[o][s] \in Obj
  BY DEF Wanted
<1>5. Heap!NewEntries(o) = {fields[o][s] : s \in slots}
  BY DEF Heap!NewEntries, Heap!Refs, Wanted
<1>. HIDE DEF found, slots
<1>6. /\ Len(found) \in Nat /\ DOMAIN found = 1..Len(found)
      /\ \A k \in 1..Len(found) : found[k] \in slots
      /\ slots = {found[k] : k \in 1..Len(found)}
  BY <1>2 DEF ToSet
<1>7. nodes \in Seq(Obj) /\ DOMAIN nodes = 1..Len(found)
  BY <1>4, <1>6
<1>8. ToSet(nodes) = {fields[o][found[k]] : k \in 1..Len(found)}
  BY <1>7 DEF ToSet
<1>9. {fields[o][found[k]] : k \in 1..Len(found)} = {fields[o][s] : s \in slots}
  BY <1>6
<1>10. QED
  BY <1>3, <1>5, <1>7, <1>8, <1>9

-----------------------------------------------------------------------------
(* Every step of the lists is a step of the sets, or none.                 *)

(* What holds between any two steps. *)
ListsInv == TypeOK /\ OnlyFieldsLeak /\ ListInv

HeapSame == UNCHANGED <<heapVars, sameVars, ToLookAt \ Looked, ToSet(lb)>>

LEMMA SameStutters ==
  ASSUME HeapSame
  PROVE  UNCHANGED Heap!vars
BY DEF HeapSame, heapVars, sameVars, Heap!vars, Heap!heapVars, Heap!gcVars

LEMMA InvTypes ==
  ASSUME ListsInv
  PROVE  ListType /\ Heap!HeapTypeOK /\ Heap!CollectorTypeOK
BY DEF ListsInv, TypeOK, ListType, Heap!TypeOK

LEMMA StartRefines ==
  ASSUME ListsInv, StartCollect
  PROVE  /\ Heap!Collect /\ ListType'
         /\ Len(la') = Cardinality(Heap!Rooted) /\ Looked' = {}
<1>1. IsFiniteSet(Heap!Rooted) /\ Heap!Rooted \subseteq Obj
  <2>1. Heap!Rooted \subseteq chain /\ chain \subseteq Obj /\ IsFiniteSet(chain)
    BY InvTypes DEF Heap!Rooted, ListsInv, ListInv, Heap!HeapTypeOK
  <2>2. QED
    BY <2>1, FS_Subset
<1>2. /\ la' \in Seq(Heap!Rooted) /\ ToSet(la') = Heap!Rooted
      /\ Len(la') = Cardinality(Heap!Rooted)
  BY <1>1, SetToSeqsOrder DEF StartCollect
<1>3. la' \in Seq(Obj) /\ Len(la') \in Nat
  BY <1>1, <1>2
<1>4. at' = 1 /\ lb' = <<>>
  BY DEF StartCollect
<1>5. ListType'
  BY <1>3, <1>4 DEF ListType
<1>6. (ToLookAt \ Looked)' = Heap!Rooted /\ Looked' = {}
  <2>1. DOMAIN la' = 1..Len(la')
    BY <1>3
  <2>2. Looked' = {} /\ ToLookAt' = ToSet(la')
    BY <1>3, <1>4, <2>1 DEF Looked, ToLookAt, ToSet
  <2>3. QED
    BY <1>2, <2>2
<1>7. ToSet(lb)' = {}
  BY <1>4 DEF ToSet
<1>8. UNCHANGED Heap!heapVars
  BY DEF StartCollect, heapVars, Heap!heapVars
<1>9. QED
  BY <1>2, <1>5, <1>6, <1>7, <1>8
     DEF StartCollect, Heap!Collect, Heap!StartCollect, Heap!Working

LEMMA ScanRefines ==
  ASSUME ListsInv, Scan
  PROVE  /\ HeapSame \/ ((\E o \in Obj : Heap!ScanEntry(o)) /\ UNCHANGED <<statics, running>>)
         /\ ListType'
         /\ Len(lb') = Len(Nodes(Current)) + Len(lb)
         /\ ToSet(lb') = Heap!NewEntries(Current) \cup ToSet(lb)
         /\ Looked' = Looked \cup {Current} /\ Current \in Obj
<1>1. ListType /\ Heap!HeapTypeOK
  BY InvTypes
<1>2. /\ phase = "mark" /\ at <= Len(la) /\ at' = at + 1
      /\ ~Heap!LooksDone(Current) /\ ~Heap!BadElement(Current)
      /\ lb' = Nodes(Current) \o lb
      /\ cmark' = [cmark EXCEPT ![Current] = jmark]
      /\ hold' = [hold EXCEPT ![Current] = FALSE]
      /\ marked' = marked \cup {Current}
      /\ UNCHANGED <<chain, otype, fields, stackCnt, jmark, phase, roots, collects>>
      /\ UNCHANGED <<statics, running, la, made, lost>>
  BY Zenon DEF Scan, Looking
<1>3. /\ Current \in Obj /\ Current \in ToLookAt
      /\ Looked' = Looked \cup {Current}
      /\ (ToLookAt \ Looked)' = (ToLookAt \ Looked) \ {Current}
      /\ at' \in 1..(Len(la') + 1)
  BY <1>1, <1>2, LookOn
<1>4. Nodes(Current) \in Seq(Obj) /\ ToSet(Nodes(Current)) = Heap!NewEntries(Current)
  BY <1>1, <1>3, NodesOf
<1>5. /\ lb' \in Seq(Obj) /\ Len(lb') = Len(Nodes(Current)) + Len(lb)
      /\ ToSet(lb') = Heap!NewEntries(Current) \cup ToSet(lb)
  <2>1. lb \in Seq(Obj)
    BY <1>1 DEF ListType
  <2>2. QED
    BY <1>2, <1>4, <2>1, ToSetConcat
<1>6. ListType'
  BY <1>1, <1>2, <1>3, <1>5 DEF ListType
<1>7. CASE Current \in Looked
  <2>1. SeenTo(Current)
    BY <1>2, <1>7 DEF ListsInv, ListInv
  <2>2. cmark' = cmark
    BY <1>1, <1>2, <2>1 DEF SeenTo, Heap!HeapTypeOK
  <2>3. hold' = hold
    <3>1. hold[Current] = FALSE
      <4>1. hold[Current] \in BOOLEAN
        BY <1>1, <1>3, Zenon DEF Heap!HeapTypeOK
      <4>2. QED
        BY <2>1, <4>1 DEF SeenTo
    <3>2. QED
      BY <1>1, <1>2, <3>1, Zenon DEF Heap!HeapTypeOK
  <2>4. marked' = marked /\ ToSet(lb') = ToSet(lb)
    BY <1>2, <1>5, <2>1 DEF SeenTo
  <2>5. (ToLookAt \ Looked)' = ToLookAt \ Looked
    BY <1>3, <1>7
  <2>6. HeapSame
    BY <1>2, <2>2, <2>3, <2>4, <2>5, Zenon DEF HeapSame, heapVars, sameVars
  <2>7. QED
    BY <1>3, <1>5, <1>6, <2>6
<1>8. CASE Current \notin Looked
  <2>1. Current \in ToLookAt \ Looked
    BY <1>3, <1>8
  <2>2. Heap!ScanEntry(Current)
    BY <1>2, <1>3, <1>5, <2>1, Zenon DEF Heap!ScanEntry
  <2>3. QED
    BY <1>2, <1>3, <1>5, <1>6, <2>2
<1>9. QED
  BY <1>7, <1>8

LEMMA SkipRefines ==
  ASSUME ListsInv, Skip
  PROVE  /\ HeapSame \/ ((\E o \in Obj : Heap!SkipEntry(o)) /\ UNCHANGED <<statics, running>>)
         /\ ListType'
         /\ Looked' = Looked \cup {Current} /\ Current \in Obj
<1>1. ListType
  BY InvTypes
<1>2. /\ phase = "mark" /\ at <= Len(la) /\ at' = at + 1
      /\ Heap!LooksDone(Current)
      /\ UNCHANGED <<heapVars, sameVars, la, lb, used, made, lost>>
  BY Zenon DEF Skip, Looking
<1>3. /\ Current \in Obj /\ Current \in ToLookAt
      /\ Looked' = Looked \cup {Current}
      /\ (ToLookAt \ Looked)' = (ToLookAt \ Looked) \ {Current}
      /\ at' \in 1..(Len(la') + 1)
  BY <1>1, <1>2, LookOn
<1>4. ListType'
  BY <1>1, <1>2, <1>3 DEF ListType
<1>5. CASE Current \in Looked
  <2>1. (ToLookAt \ Looked)' = ToLookAt \ Looked
    BY <1>3, <1>5
  <2>2. HeapSame
    BY <1>2, <2>1, Zenon DEF HeapSame
  <2>3. QED
    BY <1>3, <1>4, <2>2
<1>6. CASE Current \notin Looked
  <2>1. Heap!SkipEntry(Current)
    BY <1>2, <1>3, <1>6 DEF Heap!SkipEntry, heapVars, Heap!heapVars, sameVars
  <2>2. QED
    BY <1>2, <1>3, <1>4, <2>1 DEF sameVars
<1>7. QED
  BY <1>5, <1>6

LEMMA CrashRefines ==
  ASSUME ListsInv, CrashOnElement
  PROVE  (\E o \in Obj : Heap!CrashOnElement(o)) /\ UNCHANGED <<statics, running>>
<1>1. ListType
  BY InvTypes
<1>2. /\ phase = "mark" /\ at <= Len(la)
      /\ ~Heap!LooksDone(Current) /\ Heap!BadElement(Current)
      /\ phase' = "crash"
      /\ UNCHANGED <<heapVars, jmark, marked, roots, collects, statics, running>>
      /\ UNCHANGED <<listVars, used, made, lost>>
  BY Zenon DEF CrashOnElement, Looking
<1>3. Current \in Obj /\ Current \in ToLookAt
  BY <1>1, <1>2 DEF ListType, Current, ToLookAt
<1>4. Current \notin Looked
  BY <1>2 DEF ListsInv, ListInv, SeenTo
<1>5. UNCHANGED <<ToLookAt \ Looked, ToSet(lb)>>
  BY <1>2 DEF listVars, ToLookAt, Looked, ToSet
<1>6. Heap!CrashOnElement(Current)
  BY <1>2, <1>3, <1>4, <1>5 DEF Heap!CrashOnElement, heapVars, Heap!heapVars
<1>7. QED
  BY <1>2, <1>3, <1>6

LEMMA EndPassRefines ==
  ASSUME ListsInv, EndPass
  PROVE  /\ HeapSame \/ (Heap!NextPass /\ UNCHANGED <<statics, running>>)
         /\ ListType' /\ Looked' = {}
<1>1. ListType
  BY InvTypes
<1>2. /\ phase = "mark" /\ at > Len(la) /\ la' = lb /\ lb' = <<>> /\ at' = 1
      /\ UNCHANGED <<heapVars, sameVars, made, lost>>
  BY DEF EndPass
<1>3. ToLookAt \ Looked = {}
  BY <1>1, <1>2, ListSets
<1>4. ListType'
  BY <1>1, <1>2 DEF ListType
<1>5. DOMAIN lb = 1..Len(lb) /\ Len(lb) \in Nat
  BY <1>1 DEF ListType
<1>6. Looked' = {} /\ ToLookAt' = ToSet(lb)
  BY <1>2, <1>5 DEF Looked, ToLookAt, ToSet
<1>7. ToSet(lb') = {}
  BY <1>2 DEF ToSet
<1>8. CASE ToSet(lb) = {}
  BY <1>2, <1>3, <1>4, <1>6, <1>7, <1>8 DEF HeapSame
<1>9. CASE ToSet(lb) # {}
  BY <1>2, <1>3, <1>4, <1>6, <1>7, <1>9
     DEF Heap!NextPass, heapVars, Heap!heapVars, sameVars
<1>10. QED
  BY <1>8, <1>9

LEMMA SweepRefines ==
  ASSUME ListsInv, Sweep
  PROVE  Heap!Sweep /\ UNCHANGED <<statics, running>>
<1>1. la = <<>> /\ lb = <<>> /\ ToLookAt = {} /\ ToSet(lb) = {}
  BY InvTypes, ListSets DEF ListsInv, ListInv, Sweep
<1>2. UNCHANGED <<ToLookAt \ Looked, ToSet(lb)>>
  BY DEF Sweep, listVars, ToLookAt, Looked, ToSet
<1>3. QED
  BY <1>1, <1>2 DEF Sweep, Heap!Sweep

(* Blocks that cannot be had, and what happens of them, is not seen there. *)
Quiet ==
  \/ FieldsThroughNull \/ ArrayIsStale \/ StartThroughNull \/ NodeThroughNull
  \/ Stopped \/ Idle \/ UNCHANGED vars

LEMMA QuietSame ==
  ASSUME Quiet
  PROVE  UNCHANGED <<heapVars, sameVars, listVars, used, made>>
BY DEF Quiet, FieldsThroughNull, ArrayIsStale, StartThroughNull, NodeThroughNull,
       Stopped, Idle, vars

LEMMA RefusedRefines ==
  ASSUME CreationRefused
  PROVE  Heap!Exit
<1>1. UNCHANGED <<ToLookAt \ Looked, ToSet(lb)>>
  BY DEF CreationRefused, listVars, ToLookAt, Looked, ToSet
<1>2. QED
  BY <1>1 DEF CreationRefused, Heap!Exit, heapVars, Heap!heapVars, Heap!gcVars

LEMMA ListsNextRefines ==
  ASSUME ListsInv, [Next]_vars
  PROVE  [Heap!Next]_Heap!vars
<1>1. CASE Mutate
  BY <1>1, Zenon DEF Mutate, Heap!Next
<1>2. CASE StartCollect
  BY <1>2, StartRefines, Zenon DEF Heap!Next
<1>3. CASE Scan
  <2>1. HeapSame \/ Heap!Collecting
    BY <1>3, ScanRefines, Zenon DEF Heap!Collecting, Heap!CollectStep
  <2>2. QED
    BY <2>1, SameStutters, Zenon DEF Heap!Next
<1>4. CASE Skip
  <2>1. HeapSame \/ Heap!Collecting
    BY <1>4, SkipRefines, Zenon DEF Heap!Collecting, Heap!CollectStep
  <2>2. QED
    BY <2>1, SameStutters, Zenon DEF Heap!Next
<1>5. CASE CrashOnElement
  <2>1. Heap!Collecting
    BY <1>5, CrashRefines, Zenon DEF Heap!Collecting, Heap!CollectStep
  <2>2. QED
    BY <2>1, Zenon DEF Heap!Next
<1>6. CASE EndPass
  <2>1. HeapSame \/ Heap!Collecting
    BY <1>6, EndPassRefines, Zenon DEF Heap!Collecting, Heap!CollectStep
  <2>2. QED
    BY <2>1, SameStutters, Zenon DEF Heap!Next
<1>7. CASE Sweep
  <2>1. Heap!Collecting
    BY <1>7, SweepRefines, Zenon DEF Heap!Collecting, Heap!CollectStep
  <2>2. QED
    BY <2>1, Zenon DEF Heap!Next
<1>8. CASE CreationRefused
  BY <1>8, RefusedRefines, Zenon DEF Heap!Next
<1>9. CASE Quiet
  <2>1. UNCHANGED <<heapVars, sameVars, listVars>>
    BY <1>9, QuietSame
  <2>2. HeapSame
    BY <2>1 DEF HeapSame, listVars, ToLookAt, Looked, ToSet
  <2>3. QED
    BY <2>2, SameStutters
<1>10. QED
  BY <1>1, <1>2, <1>3, <1>4, <1>5, <1>6, <1>7, <1>8, <1>9
     DEF Next, Collecting, Quiet

-----------------------------------------------------------------------------
(* Every step keeps the invariant.                                         *)

LEMMA HeapTypeStep ==
  ASSUME ListsInv, [Next]_vars
  PROVE  Heap!TypeOK'
<1>1. [Heap!Next]_Heap!vars
  BY ListsNextRefines
<1>2. Heap!TypeOK
  BY DEF ListsInv, TypeOK
<1>3. MaxCollects \in Nat /\ Uses \subseteq Heap!Feature
  BY ProgramAssumption
<1>4. QED
  BY <1>1, <1>2, <1>3, Heap!TypeStep, ValueAssumption, MarkAssumption, CntAssumption

(* A step of the program adds one object to the chain, or none. *)
LEMMA MutateGrows ==
  ASSUME Heap!Mutate
  PROVE  /\ chain' = chain \/ \E o \in Obj : chain' = chain \cup {o}
         /\ phase = "idle" /\ phase' # "mark"
<1>1. ASSUME NEW o \in Obj,
             Heap!New(o) \/ Heap!NewHeld(o) \/ Heap!NewObjectArray(o) \/ Heap!NewPrimArray(o)
      PROVE  chain' = chain \cup {o} /\ phase = "idle" /\ phase' # "mark"
  BY <1>1 DEF Heap!New, Heap!NewHeld, Heap!NewObjectArray, Heap!NewPrimArray,
              Heap!CreateObject, Heap!CreateObjectArray, Heap!CreatePrimArray, Heap!Link,
              Heap!Working, Heap!gcVars
<1>2. ASSUME NEW o \in Obj, Heap!Push(o) \/ Heap!Pop(o)
      PROVE  chain' = chain /\ phase = "idle" /\ phase' # "mark"
  BY <1>2 DEF Heap!Push, Heap!Pop, Heap!Working, Heap!gcVars
<1>3. ASSUME NEW p \in Obj, NEW s \in Slot, NEW v \in Heap!Value,
             Heap!PutField(p, s, v) \/ Heap!StoreElement(p, s, v)
      PROVE  chain' = chain /\ phase = "idle" /\ phase' # "mark"
  BY <1>3 DEF Heap!PutField, Heap!StoreElement, Heap!Working, Heap!gcVars
<1>4. ASSUME NEW p \in Obj, NEW s \in Slot, Heap!Fetch(p, s) \/ Heap!FetchWild(p, s)
      PROVE  chain' = chain /\ phase = "idle" /\ phase' # "mark"
  BY <1>4 DEF Heap!Fetch, Heap!FetchWild, Heap!Working, Heap!gcVars, Heap!heapVars
<1>5. ASSUME NEW y \in Static, Heap!GetStatic(y) \/ \E v \in Heap!Value : Heap!PutStatic(y, v)
      PROVE  chain' = chain /\ phase = "idle" /\ phase' # "mark"
  BY <1>5 DEF Heap!GetStatic, Heap!PutStatic, Heap!Working, Heap!gcVars, Heap!heapVars
<1>6. QED
  BY <1>1, <1>2, <1>3, <1>4, <1>5, Zenon DEF Heap!Mutate

(* The chain that a step leaves, and how many objects came to it. *)
LEMMA ChainCounts ==
  ASSUME NEW S, NEW T, IsFiniteSet(S), T \subseteq S
  PROVE  /\ IsFiniteSet(T) /\ Cardinality(S) \in Nat /\ Cardinality(T) \in Nat
         /\ Cardinality(S \ T) \in Nat
         /\ Cardinality(S) = Cardinality(T) + Cardinality(S \ T)
<1>1. S \cap T = T
  OBVIOUS
<1>2. IsFiniteSet(T) /\ IsFiniteSet(S \ T)
  BY FS_Subset
<1>3. Cardinality(S \ T) = Cardinality(S) - Cardinality(T)
  BY <1>1, FS_Difference
<1>4. QED
  BY <1>2, <1>3, FS_CardinalityType

(* A look makes the tests that leave objects out hold of more of them. *)
LEMMA ScanMonotone ==
  ASSUME Heap!HeapTypeOK, Heap!CollectorTypeOK, NEW c \in Obj,
         cmark' = [cmark EXCEPT ![c] = jmark], hold' = [hold EXCEPT ![c] = FALSE],
         UNCHANGED <<otype, fields, jmark>>
  PROVE  \A o \in Obj :
           /\ cmark'[o] = IF o = c THEN jmark ELSE cmark[o]
           /\ hold'[o] => o # c /\ hold[o]
           /\ Heap!LooksDone(o) => Heap!LooksDone(o)'
           /\ Heap!BadElement(o)' = Heap!BadElement(o)
           /\ Heap!NewEntries(o)' \subseteq Heap!NewEntries(o)
<1>1. \A o \in Obj : cmark'[o] = IF o = c THEN jmark ELSE cmark[o]
  BY DEF Heap!HeapTypeOK
<1>2. \A o \in Obj : hold'[o] => o # c /\ hold[o]
  BY Zenon DEF Heap!HeapTypeOK
<1>3. \A o \in Obj : Heap!LooksDone(o) => Heap!LooksDone(o)'
  BY <1>1, MarkAssumption DEF Heap!LooksDone
<1>4. \A o \in Obj : Heap!FieldLooksDone(o) => Heap!FieldLooksDone(o)'
  BY <1>1, <1>2 DEF Heap!FieldLooksDone
<1>5. \A o \in Obj : Heap!BadElement(o)' = Heap!BadElement(o)
  BY DEF Heap!BadElement
<1>6. \A o \in Obj : Heap!Refs(o)' = Heap!Refs(o) /\ Heap!Refs(o) \subseteq Obj
  BY DEF Heap!Refs
<1>7. \A o \in Obj : Heap!NewEntries(o)' \subseteq Heap!NewEntries(o)
  BY <1>3, <1>4, <1>6 DEF Heap!NewEntries
<1>8. QED
  BY <1>1, <1>2, <1>3, <1>5, <1>7

(* What was seen to stays seen to, and now the object at hand is. *)
LEMMA ScanSees ==
  ASSUME ListsInv, Scan
  PROVE  \A o \in Looked' : Heap!LooksDone(o)' \/ SeenTo(o)'
<1>1. ListType /\ Heap!HeapTypeOK /\ Heap!CollectorTypeOK
  BY InvTypes
<1>2. /\ phase = "mark" /\ ~Heap!BadElement(Current)
      /\ cmark' = [cmark EXCEPT ![Current] = jmark]
      /\ hold' = [hold EXCEPT ![Current] = FALSE]
      /\ marked' = marked \cup {Current}
      /\ UNCHANGED <<otype, fields, jmark>>
  BY Zenon DEF Scan, Looking
<1>3. /\ ToSet(lb') = Heap!NewEntries(Current) \cup ToSet(lb)
      /\ Looked' = Looked \cup {Current} /\ Current \in Obj
  BY ScanRefines
<1>. DEFINE c == Current
<1>. HIDE DEF c
<1>4. \A o \in Obj :
        /\ cmark'[o] = IF o = c THEN jmark ELSE cmark[o]
        /\ hold'[o] => o # c /\ hold[o]
        /\ Heap!LooksDone(o) => Heap!LooksDone(o)'
        /\ Heap!BadElement(o)' = Heap!BadElement(o)
        /\ Heap!NewEntries(o)' \subseteq Heap!NewEntries(o)
  <2>1. c \in Obj /\ cmark' = [cmark EXCEPT ![c] = jmark] /\ hold' = [hold EXCEPT ![c] = FALSE]
    BY <1>2, <1>3, Zenon DEF c
  <2>2. QED
    BY <1>1, <1>2, <2>1, ScanMonotone
<1>5. /\ ~Heap!BadElement(c) /\ marked' = marked \cup {c}
      /\ ToSet(lb') = Heap!NewEntries(c) \cup ToSet(lb)
      /\ Looked' = Looked \cup {c} /\ c \in Obj
  BY <1>2, <1>3, Zenon DEF c
<1>6. ASSUME NEW o \in Looked' PROVE Heap!LooksDone(o)' \/ SeenTo(o)'
  <2>1. o \in Obj
    BY <1>1, <1>5, ListSets
  <2>2. CASE o = c
    BY <1>2, <1>4, <1>5, <2>1, <2>2 DEF SeenTo
  <2>3. CASE o \in Looked /\ Heap!LooksDone(o)
    BY <1>4, <2>1, <2>3
  <2>4. CASE o \in Looked /\ SeenTo(o)
    BY <1>2, <1>4, <1>5, <2>1, <2>4 DEF SeenTo
  <2>5. QED
    BY <1>2, <1>5, <2>2, <2>3, <2>4 DEF ListsInv, ListInv
<1>7. QED
  BY <1>6

(* The invariant without the heap. *)
MemoryInv ==
  /\ used \in 0..Memory /\ made \in Nat /\ lost \in {"none", "null", "stale"}
  /\ ListType /\ OnlyFieldsLeak /\ ListInv

LEMMA InvParts == ListsInv <=> MemoryInv /\ Heap!TypeOK
BY DEF ListsInv, TypeOK, MemoryInv, ListType

LEMMA InvNumbers ==
  ASSUME ListsInv
  PROVE  /\ Memory \in Nat /\ used \in Nat /\ used <= Memory /\ made \in Nat
         /\ IsFiniteSet(chain) /\ Cardinality(chain) \in Nat
         /\ Len(la) \in Nat /\ Len(lb) \in Nat
         /\ used = Cardinality(chain) + made + Len(la) + Len(lb)
<1>1. MemoryInv
  BY InvParts
<1>2. Len(la) \in Nat /\ Len(lb) \in Nat
  BY <1>1 DEF MemoryInv, ListType
<1>3. QED
  BY <1>1, <1>2, MemoryAssumption, FS_CardinalityType DEF MemoryInv, ListInv, OnlyFieldsLeak

LEMMA MutateKeeps ==
  ASSUME ListsInv, Mutate
  PROVE  MemoryInv'
<1>. DEFINE d == Cardinality(chain' \ chain)
<1>1. /\ Memory \in Nat /\ used \in Nat /\ used <= Memory /\ made \in Nat
      /\ IsFiniteSet(chain) /\ Cardinality(chain) \in Nat
      /\ Len(la) \in Nat /\ Len(lb) \in Nat
      /\ used = Cardinality(chain) + made + Len(la) + Len(lb)
  BY InvNumbers
<1>2. MemoryInv
  BY InvParts
<1>3. /\ chain' = chain \/ \E o \in Obj : chain' = chain \cup {o}
      /\ phase = "idle" /\ phase' # "mark"
  BY MutateGrows, Zenon DEF Mutate
<1>4. chain \subseteq chain' /\ IsFiniteSet(chain')
  <2>1. CASE chain' = chain
    BY <1>1, <2>1
  <2>2. CASE \E o \in Obj : chain' = chain \cup {o}
    <3>1. PICK o \in Obj : chain' = chain \cup {o}
      BY <2>2
    <3>2. IsFiniteSet(chain \cup {o})
      BY <1>1, FS_AddElement
    <3>3. QED
      BY <3>1, <3>2
  <2>3. QED
    BY <1>3, <2>1, <2>2
<1>5. d \in Nat /\ Cardinality(chain') = Cardinality(chain) + d
  BY <1>4, ChainCounts
<1>6. /\ used + 2 * d <= Memory /\ used' = used + 2 * d /\ made' = made + d
      /\ UNCHANGED <<la, at, lb, lost>>
  BY Zenon DEF Mutate, Available, listVars
<1>. HIDE DEF d
<1>7. used' \in 0..Memory /\ made' \in Nat
  BY <1>1, <1>5, <1>6
<1>8. OnlyFieldsLeak'
  BY <1>1, <1>5, <1>6 DEF OnlyFieldsLeak
<1>9. ListInv'
  BY <1>2, <1>3, <1>4, <1>6 DEF MemoryInv, ListInv
<1>10. QED
  BY <1>2, <1>6, <1>7, <1>8, <1>9 DEF MemoryInv, ListType

LEMMA StartKeeps ==
  ASSUME ListsInv, StartCollect
  PROVE  MemoryInv'
<1>. DEFINE d == Cardinality(Heap!Rooted)
<1>1. /\ Memory \in Nat /\ used \in Nat /\ used <= Memory /\ made \in Nat
      /\ IsFiniteSet(chain) /\ Cardinality(chain) \in Nat
      /\ Len(la) \in Nat /\ Len(lb) \in Nat
      /\ used = Cardinality(chain) + made + Len(la) + Len(lb)
  BY InvNumbers
<1>2. MemoryInv
  BY InvParts
<1>3. ListType' /\ Len(la') = d /\ Looked' = {}
  BY StartRefines
<1>4. d \in Nat
  BY <1>3 DEF ListType
<1>5. /\ used + d <= Memory /\ used' = used + d /\ phase = "idle" /\ phase' = "mark"
      /\ lb' = <<>> /\ UNCHANGED <<chain, made, lost>>
  BY Zenon DEF StartCollect, Available, Heap!Working, heapVars
<1>6. Len(la) = 0 /\ Len(lb) = 0 /\ Len(lb') = 0
  BY <1>2, <1>5 DEF MemoryInv, ListInv
<1>. HIDE DEF d
<1>7. used' \in 0..Memory /\ made' \in Nat
  BY <1>1, <1>4, <1>5
<1>8. OnlyFieldsLeak'
  BY <1>1, <1>3, <1>4, <1>5, <1>6 DEF OnlyFieldsLeak
<1>9. ListInv'
  BY <1>1, <1>3, <1>5 DEF ListInv
<1>10. QED
  BY <1>2, <1>3, <1>5, <1>7, <1>8, <1>9 DEF MemoryInv

LEMMA ScanKeeps ==
  ASSUME ListsInv, Scan
  PROVE  MemoryInv'
<1>. DEFINE d == Len(Nodes(Current))
<1>1. /\ Memory \in Nat /\ used \in Nat /\ used <= Memory /\ made \in Nat
      /\ IsFiniteSet(chain) /\ Cardinality(chain) \in Nat
      /\ Len(la) \in Nat /\ Len(lb) \in Nat
      /\ used = Cardinality(chain) + made + Len(la) + Len(lb)
  BY InvNumbers
<1>2. MemoryInv
  BY InvParts
<1>3. ListType' /\ Len(lb') = d + Len(lb) /\ Current \in Obj
  BY ScanRefines
<1>4. d \in Nat
  <2>1. Nodes(Current) \in Seq(Obj)
    BY <1>3, InvTypes, NodesOf
  <2>2. QED
    BY <2>1
<1>5. /\ used + d <= Memory /\ used' = used + d /\ phase = "mark" /\ phase' = "mark"
      /\ at' = at + 1 /\ UNCHANGED <<chain, made, la, lost>>
  BY Zenon DEF Scan, Looking, Available
<1>6. \A o \in Looked' : Heap!LooksDone(o)' \/ SeenTo(o)'
  BY ScanSees
<1>. HIDE DEF d
<1>7. used' \in 0..Memory /\ made' \in Nat
  BY <1>1, <1>4, <1>5
<1>8. OnlyFieldsLeak'
  BY <1>1, <1>3, <1>4, <1>5 DEF OnlyFieldsLeak
<1>9. at' # 1
  BY <1>2, <1>5 DEF MemoryInv, ListType
<1>10. ListInv'
  BY <1>1, <1>5, <1>6, <1>9 DEF ListInv
<1>11. QED
  BY <1>2, <1>3, <1>5, <1>7, <1>8, <1>10 DEF MemoryInv

LEMMA SkipKeeps ==
  ASSUME ListsInv, Skip
  PROVE  MemoryInv'
<1>1. MemoryInv
  BY InvParts
<1>2. /\ phase = "mark" /\ at' = at + 1 /\ Heap!LooksDone(Current)
      /\ UNCHANGED <<heapVars, sameVars, la, lb, used, made, lost>>
  BY Zenon DEF Skip, Looking
<1>3. ListType' /\ Looked' = Looked \cup {Current}
  BY SkipRefines
<1>4. UNCHANGED <<chain, otype, fields, cmark, hold, jmark, phase, marked>>
  BY <1>2 DEF heapVars, sameVars
<1>5. OnlyFieldsLeak'
  BY <1>1, <1>2, <1>4 DEF MemoryInv, OnlyFieldsLeak
<1>6. at' # 1
  BY <1>1, <1>2 DEF MemoryInv, ListType
<1>. DEFINE c == Current
<1>7. Heap!LooksDone(c) /\ Looked' = Looked \cup {c}
  BY <1>2, <1>3
<1>. HIDE DEF c
<1>8. \A o \in Looked' : Heap!LooksDone(o) \/ SeenTo(o)
  BY <1>1, <1>2, <1>7, Zenon DEF MemoryInv, ListInv
<1>9. \A o : /\ Heap!LooksDone(o)' = Heap!LooksDone(o)
             /\ SeenTo(o)' = SeenTo(o)
  BY <1>2, <1>4 DEF Heap!LooksDone, SeenTo, Heap!BadElement, Heap!NewEntries, Heap!Refs,
     Heap!FieldLooksDone, ToSet
<1>10. ListInv'
  BY <1>1, <1>2, <1>4, <1>6, <1>8, <1>9 DEF MemoryInv, ListInv
<1>11. QED
  BY <1>1, <1>2, <1>3, <1>5, <1>10 DEF MemoryInv

LEMMA CrashKeeps ==
  ASSUME ListsInv, CrashOnElement
  PROVE  MemoryInv'
<1>1. MemoryInv
  BY InvParts
<1>2. phase' = "crash" /\ UNCHANGED <<chain, la, at, lb, used, made, lost>>
  BY Zenon DEF CrashOnElement, heapVars, listVars
<1>3. QED
  BY <1>1, <1>2 DEF MemoryInv, ListType, OnlyFieldsLeak, ListInv

LEMMA EndPassKeeps ==
  ASSUME ListsInv, EndPass
  PROVE  MemoryInv'
<1>1. /\ Memory \in Nat /\ used \in Nat /\ used <= Memory /\ made \in Nat
      /\ IsFiniteSet(chain) /\ Cardinality(chain) \in Nat
      /\ Len(la) \in Nat /\ Len(lb) \in Nat
      /\ used = Cardinality(chain) + made + Len(la) + Len(lb)
  BY InvNumbers
<1>2. MemoryInv
  BY InvParts
<1>3. ListType' /\ Looked' = {}
  BY EndPassRefines
<1>4. /\ phase = "mark" /\ phase' = "mark" /\ la' = lb /\ lb' = <<>>
      /\ used' = used - Len(la) /\ UNCHANGED <<chain, made, lost>>
  BY DEF EndPass, heapVars, sameVars
<1>5. used' \in 0..Memory /\ made' \in Nat
  BY <1>1, <1>4
<1>6. OnlyFieldsLeak'
  <2>1. Len(lb') = 0 /\ Len(la') = Len(lb)
    BY <1>4
  <2>2. QED
    BY <1>1, <1>4, <2>1 DEF OnlyFieldsLeak
<1>7. ListInv'
  BY <1>1, <1>3, <1>4 DEF ListInv
<1>8. QED
  BY <1>2, <1>3, <1>4, <1>5, <1>6, <1>7 DEF MemoryInv

LEMMA SweepKeeps ==
  ASSUME ListsInv, Sweep
  PROVE  MemoryInv'
<1>. DEFINE d == Cardinality(chain \ chain')
<1>1. /\ Memory \in Nat /\ used \in Nat /\ used <= Memory /\ made \in Nat
      /\ IsFiniteSet(chain) /\ Cardinality(chain) \in Nat
      /\ Len(la) \in Nat /\ Len(lb) \in Nat
      /\ used = Cardinality(chain) + made + Len(la) + Len(lb)
  BY InvNumbers
<1>2. MemoryInv
  BY InvParts
<1>3. /\ la = <<>> /\ lb = <<>>
      /\ chain' \subseteq chain /\ phase' = "idle" /\ used' = used - d
      /\ UNCHANGED <<la, at, lb, made, lost>>
  <2>1. /\ la = <<>> /\ chain' \subseteq chain /\ phase' = "idle" /\ used' = used - d
        /\ UNCHANGED <<la, at, lb, made, lost>>
    BY DEF Sweep, listVars
  <2>2. lb = <<>>
    <3>1. at = 1
      BY <1>2, <2>1 DEF MemoryInv, ListType
    <3>2. QED
      BY <1>2, <3>1 DEF MemoryInv, ListInv
  <2>3. QED
    BY <2>1, <2>2
<1>4. /\ IsFiniteSet(chain') /\ Cardinality(chain') \in Nat /\ d \in Nat
      /\ Cardinality(chain) = Cardinality(chain') + d
  BY <1>1, <1>3, ChainCounts
<1>. HIDE DEF d
<1>5. used' \in 0..Memory /\ made' \in Nat
  BY <1>1, <1>3, <1>4
<1>6. OnlyFieldsLeak'
  BY <1>1, <1>3, <1>4 DEF OnlyFieldsLeak
<1>7. ListInv'
  BY <1>2, <1>3, <1>4 DEF MemoryInv, ListInv
<1>8. QED
  BY <1>2, <1>3, <1>5, <1>6, <1>7 DEF MemoryInv, ListType

LEMMA RefusedKeeps ==
  ASSUME ListsInv, CreationRefused
  PROVE  MemoryInv'
<1>1. MemoryInv
  BY InvParts
<1>2. phase = "idle" /\ UNCHANGED <<chain, phase, la, at, lb, used, made, lost>>
  BY Zenon DEF CreationRefused, heapVars, listVars, Heap!Working
<1>3. QED
  BY <1>1, <1>2 DEF MemoryInv, ListType, OnlyFieldsLeak, ListInv

LEMMA QuietKeeps ==
  ASSUME ListsInv, Quiet
  PROVE  MemoryInv'
<1>1. MemoryInv
  BY InvParts
<1>2. UNCHANGED <<chain, otype, fields, cmark, hold, jmark, phase, marked>>
  BY QuietSame DEF heapVars, sameVars
<1>3. UNCHANGED <<la, at, lb, used, made>>
  BY QuietSame DEF listVars
<1>4. lost' \in {"none", "null", "stale"}
  BY <1>1 DEF MemoryInv, Quiet, FieldsThroughNull, ArrayIsStale, StartThroughNull,
              NodeThroughNull, Stopped, Idle, vars
<1>5. Looked' = Looked
  BY <1>3 DEF Looked
<1>6. \A o : /\ Heap!LooksDone(o)' = Heap!LooksDone(o)
             /\ SeenTo(o)' = SeenTo(o)
  BY <1>2, <1>3 DEF Heap!LooksDone, SeenTo, Heap!BadElement, Heap!NewEntries, Heap!Refs,
     Heap!FieldLooksDone, ToSet
<1>7. ListInv'
  BY <1>1, <1>2, <1>3, <1>5, <1>6 DEF MemoryInv, ListInv
<1>8. OnlyFieldsLeak'
  BY <1>1, <1>2, <1>3 DEF MemoryInv, OnlyFieldsLeak
<1>9. QED
  BY <1>1, <1>3, <1>4, <1>7, <1>8 DEF MemoryInv, ListType

LEMMA ListsStep ==
  ASSUME ListsInv, [Next]_vars
  PROVE  ListsInv'
<1>1. MemoryInv'
  BY MutateKeeps, StartKeeps, ScanKeeps, SkipKeeps, CrashKeeps, EndPassKeeps,
     SweepKeeps, RefusedKeeps, QuietKeeps, Zenon
     DEF Next, Collecting, Quiet
<1>2. Heap!TypeOK'
  BY HeapTypeStep
<1>3. QED
  BY <1>1, <1>2, Zenon DEF ListsInv, TypeOK, MemoryInv, ListType

LEMMA ListsInitially ==
  ASSUME Init
  PROVE  ListsInv /\ Heap!Init
<1>1. /\ la = <<>> /\ lb = <<>> /\ at = 1 /\ used = 0 /\ made = 0 /\ lost = "none"
      /\ chain = {} /\ phase = "idle"
  BY DEF Init, HeapInit
<1>2. Looked = {} /\ ToLookAt = {} /\ ToSet(lb) = {}
  BY <1>1 DEF Looked, ToLookAt, ToSet
<1>3. Heap!Init
  BY <1>2 DEF Init, Heap!Init, Heap!CollectorInit, HeapInit, Heap!HeapInit
<1>4. Heap!TypeOK
  BY <1>3, Heap!TypeInitially, ValueAssumption, MarkAssumption, CntAssumption,
     ProgramAssumption
<1>5. IsFiniteSet(chain) /\ Cardinality(chain) = 0
  BY <1>1, FS_EmptySet
<1>6. ListInv
  BY <1>1, <1>5 DEF ListInv
<1>7. OnlyFieldsLeak
  BY <1>1, <1>5 DEF OnlyFieldsLeak
<1>8. ListType
  BY <1>1 DEF ListType
<1>9. MemoryInv
  BY <1>1, <1>6, <1>7, <1>8, MemoryAssumption DEF MemoryInv
<1>10. QED
  BY <1>3, <1>4, <1>9, InvParts

-----------------------------------------------------------------------------
(* What holds of every behaviour, whatever the program, the size of the    *)
(* memory and of the objects, and even where the marks are used again.     *)

LEMMA ListsInvAlways == Spec => []ListsInv
<1>1. Init => ListsInv
  BY ListsInitially
<1>2. ListsInv /\ [Next]_vars => ListsInv'
  BY ListsStep
<1>3. QED
  BY <1>1, <1>2, PTL DEF Spec

(***************************************************************************)
(* jvm_Collect never has more nodes and objects than the allocator has     *)
(* blocks, and its place in the list ra stays within it (rjvm.c:845-912).  *)
(***************************************************************************)
THEOREM ListTypeCorrect == Spec => []TypeOK
<1>1. ListsInv => TypeOK
  BY DEF ListsInv
<1>2. QED
  BY <1>1, ListsInvAlways, PTL

(***************************************************************************)
(* Every node that jvm_Collect asks for it gives back at the end of the    *)
(* pass that follows, and no block is lost but the fields and elements of  *)
(* what is freed (rjvm.c:909-912, 927).                                    *)
(***************************************************************************)
THEOREM OnlyFieldsLeakAlways == Spec => []OnlyFieldsLeak
<1>1. ListsInv => OnlyFieldsLeak
  BY DEF ListsInv
<1>2. QED
  BY <1>1, ListsInvAlways, PTL

(***************************************************************************)
(* jvm_Collect with its chains of nodes implements jvm_Collect with sets:  *)
(* a second node for an object changes nothing, in any order of the lists  *)
(* (rjvm.c:857-905).                                                       *)
(***************************************************************************)
THEOREM ListsImplementHeap == Spec => ImplementsHeap
<1>1. Init => Heap!Init
  BY ListsInitially
<1>2. ListsInv /\ [Next]_vars => [Heap!Next]_(Heap!vars)
  BY ListsNextRefines
<1>3. QED
  BY <1>1, <1>2, ListsInvAlways, PTL DEF Spec, ImplementsHeap, Heap!Spec

(***************************************************************************)
(* So what holds of the sets holds of the lists: no counted and no stored  *)
(* reference of an object that stays leads to one that was freed, whatever *)
(* the order of the nodes and wherever the memory runs out (rjvm.c:924).   *)
(***************************************************************************)
THEOREM ListsDangleNever ==
  ASSUME Heap!FreshMarks
  PROVE  Spec => []Heap!NoDangling
<1>1. MaxCollects \in Nat /\ Uses \subseteq Heap!Feature
  BY ProgramAssumption
<1>2. Heap!Spec => [](Heap!NoDangling /\ Heap!MarkClosed)
  BY <1>1, Heap!CollectSafe, ValueAssumption, MarkAssumption, CntAssumption
<1>3. QED
  BY <1>2, ListsImplementHeap, PTL DEF ImplementsHeap

(***************************************************************************)
(* And the sweep that ends the passes over the nodes keeps what can be     *)
(* reached from what was counted or held when jvm_Collect was called, no   *)
(* more and no less (rjvm.c:914-937).                                      *)
(***************************************************************************)
THEOREM ListsSweepExact ==
  ASSUME Heap!FreshMarks
  PROVE  Spec => [][Sweep => chain' = Heap!Reachable(roots)]_vars
<1>1. MaxCollects \in Nat /\ Uses \subseteq Heap!Feature
  BY ProgramAssumption
<1>2. Heap!Spec => Heap!SweepExact
  BY <1>1, Heap!CollectExact, ValueAssumption, MarkAssumption, CntAssumption
<1>3. ListsInv /\ [Heap!Collecting /\ Heap!Sweep => chain' = Heap!Reachable(roots)]_(Heap!vars)
        => [Sweep => chain' = Heap!Reachable(roots)]_vars
  <2>1. SUFFICES ASSUME ListsInv, Sweep,
                        [Heap!Collecting /\ Heap!Sweep
                           => chain' = Heap!Reachable(roots)]_(Heap!vars)
                 PROVE  chain' = Heap!Reachable(roots)
    OBVIOUS
  <2>2. Heap!Sweep /\ UNCHANGED <<statics, running>>
    BY <2>1, SweepRefines
  <2>3. Heap!Collecting
    BY <2>2, Zenon DEF Heap!Collecting, Heap!CollectStep
  <2>4. phase' # phase
    BY <2>2 DEF Heap!Sweep
  <2>5. ~UNCHANGED Heap!vars
    BY <2>4 DEF Heap!vars, Heap!gcVars
  <2>6. QED
    BY <2>1, <2>2, <2>3, <2>5, Zenon
<1>4. QED
  BY <1>2, <1>3, ListsImplementHeap, ListsInvAlways, PTL DEF ImplementsHeap, Heap!SweepExact

(***************************************************************************)
(* In the end jvm_Collect, nodes and all, reclaims as a heap does that     *)
(* forgets objects nothing can reach, and does nothing else to it.         *)
(***************************************************************************)
THEOREM ListsImplementAbstract ==
  ASSUME Heap!FreshMarks
  PROVE  Spec => Heap!ImplementsAbstract
<1>1. MaxCollects \in Nat /\ Uses \subseteq Heap!Feature
  BY ProgramAssumption
<1>2. Heap!Spec => Heap!ImplementsAbstract
  BY <1>1, Heap!HeapImplementsAbstract, ValueAssumption, MarkAssumption, CntAssumption
<1>3. QED
  BY <1>2, ListsImplementHeap, PTL DEF ImplementsHeap
=============================================================================
