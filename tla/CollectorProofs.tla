-------------------------- MODULE CollectorProofs --------------------------
(***************************************************************************)
(* What a step of jvm_Collect does to the heap, for every heap: the facts  *)
(* that the proofs of each program that collects rest on.                  *)
(***************************************************************************)
EXTENDS Collector, TLAPS

USE DEF Mark, ObjType, Value

-----------------------------------------------------------------------------
(* Types. *)

LEMMA NextMark == ASSUME NEW m \in Mark
                  PROVE  (m + 1) % (MarkMask + 1) \in Mark
  BY MarkAssumption, SMT

LEMMA NextMarkNoWrap == ASSUME NEW m \in Mark, m < MarkMask
                        PROVE  (m + 1) % (MarkMask + 1) = m + 1
  BY MarkAssumption, SMT

LEMMA RefsInObj == ASSUME NEW o PROVE Refs(o) \subseteq Obj
  BY DEF Refs

LEMMA StartCollectType ==
  ASSUME HeapTypeOK, CollectorTypeOK, StartCollect
  PROVE  HeapTypeOK' /\ CollectorTypeOK'
<1>1. jmark' \in Mark
  BY NextMark DEF StartCollect, CollectorTypeOK
<1>2. collects' \in 0..MaxCollects
  BY CollectAssumption DEF StartCollect, CollectorTypeOK
<1>3. Rooted \subseteq Obj
  BY DEF Rooted, HeapTypeOK
<1>4. QED
  BY <1>1, <1>2, <1>3 DEF StartCollect, CollectorTypeOK, HeapTypeOK, heapVars

LEMMA CollectStepType ==
  ASSUME HeapTypeOK, CollectorTypeOK, CollectStep
  PROVE  HeapTypeOK' /\ CollectorTypeOK'
<1>1. ASSUME NEW o \in Obj, ScanEntry(o) PROVE HeapTypeOK' /\ CollectorTypeOK'
  <2>1. NewEntries(o) \subseteq Obj
    BY DEF NewEntries, Refs
  <2>2. cmark' \in [Obj -> Mark]
    BY <1>1 DEF ScanEntry, HeapTypeOK, CollectorTypeOK
  <2>3. hold' \in [Obj -> BOOLEAN]
    BY <1>1, Zenon DEF ScanEntry, HeapTypeOK
  <2>4. QED
    BY <1>1, <2>1, <2>2, <2>3 DEF ScanEntry, HeapTypeOK, CollectorTypeOK
<1>2. ASSUME NEW o \in Obj, SkipEntry(o) PROVE HeapTypeOK' /\ CollectorTypeOK'
  BY <1>2 DEF SkipEntry, HeapTypeOK, CollectorTypeOK, heapVars
<1>3. ASSUME NEW o \in Obj, CrashOnElement(o)
      PROVE  HeapTypeOK' /\ CollectorTypeOK'
  BY <1>3 DEF CrashOnElement, HeapTypeOK, CollectorTypeOK, heapVars
<1>4. CASE NextPass
  BY <1>4 DEF NextPass, HeapTypeOK, CollectorTypeOK, heapVars
<1>5. CASE Sweep
  BY <1>5 DEF Sweep, HeapTypeOK, CollectorTypeOK
<1>6. QED
  BY <1>1, <1>2, <1>3, <1>4, <1>5 DEF CollectStep

-----------------------------------------------------------------------------
(* The invariant of the marking. *)

LEMMA StartCollectSafe ==
  ASSUME MaxCollects <= MarkMask,
         HeapTypeOK, CollectorTypeOK, MarkingInv, StartCollect
  PROVE  MarkingInv'
<1> USE DEF StartCollect
<1>1. jmark \in Mark /\ jmark < MarkMask /\ collects' = collects + 1
  BY MarkAssumption, CollectAssumption DEF CollectorTypeOK, MarkingInv
<1>2. jmark' = jmark + 1
  BY <1>1, NextMarkNoWrap
<1>3. UNCHANGED <<chain, otype, fields, stackCnt, cmark, hold>>
  BY DEF heapVars
<1>4. ChainClosed'
  BY <1>3 DEF MarkingInv, ChainClosed, Refs
<1>5. CurrentMarks'
  BY <1>1, <1>2, <1>3 DEF CurrentMarks, MarkingInv, IdleMarks
<1>6. ListsSound'
  BY <1>3 DEF ListsSound, Rooted
<1>7. MarkClosed' /\ IdleMarks'
  BY DEF MarkClosed, IdleMarks
<1>8. QED
  BY <1>1, <1>2, <1>4, <1>5, <1>6, <1>7 DEF MarkingInv

(* An object of the chain that the tests leave out has been visited. *)
LEMMA LeftOutIsMarked ==
  ASSUME HeapTypeOK, CollectorTypeOK, MarkingInv, phase = "mark",
         NEW o \in chain, LooksDone(o) \/ FieldLooksDone(o)
  PROVE  o \in marked
<1>1. jmark \in Nat /\ jmark >= 1 /\ cmark[o] \in Nat
  BY DEF HeapTypeOK, CollectorTypeOK, MarkingInv, CurrentMarks
<1>2. SUFFICES ASSUME o \notin marked PROVE FALSE
  OBVIOUS
<1>3. cmark[o] \in {0, jmark - 1}
  BY <1>2 DEF MarkingInv, CurrentMarks
<1>4. CASE LooksDone(o)
  BY <1>1, <1>3, <1>4, MarkAssumption DEF LooksDone
<1>5. CASE FieldLooksDone(o)
  BY <1>1, <1>3, <1>5 DEF FieldLooksDone, CurrentMarks, MarkingInv
<1>6. QED
  BY <1>4, <1>5

LEMMA ScanSafe ==
  ASSUME HeapTypeOK, CollectorTypeOK, MarkingInv, NEW o \in Obj, ScanEntry(o)
  PROVE  MarkingInv'
<1> USE DEF ScanEntry
<1>1. /\ o \in chain /\ marked' = marked \cup {o} /\ ra' = ra \ {o}
      /\ marked \cup ra \cup rb \subseteq chain
      /\ Rooted \subseteq marked \cup ra
  BY DEF MarkingInv, ListsSound
<1>2. \A p \in Obj : Refs(p)' = Refs(p)
  BY DEF Refs
<1>3. ChainClosed'
  BY <1>2 DEF MarkingInv, ChainClosed, HeapTypeOK
<1>4. \A p \in Obj : cmark'[p] = IF p = o THEN jmark ELSE cmark[p]
  BY DEF HeapTypeOK
<1>5. CurrentMarks'
  BY <1>1, <1>4 DEF MarkingInv, CurrentMarks, HeapTypeOK
<1>6. Refs(o) \subseteq chain
  BY <1>1 DEF MarkingInv, ChainClosed
<1>7. NewEntries(o) \subseteq chain /\ Refs(o) \subseteq NewEntries(o) \cup marked
  <2>1. \A c \in Refs(o) : c \in NewEntries(o) \/ LooksDone(c) \/ FieldLooksDone(c)
    BY DEF NewEntries
  <2>2. \A c \in Refs(o) : LooksDone(c) \/ FieldLooksDone(c) => c \in marked
    BY <1>6, LeftOutIsMarked
  <2>3. QED
    BY <1>6, <2>1, <2>2 DEF NewEntries
<1>8. ListsSound'
  <2>1. Rooted' \subseteq Rooted
    BY DEF Rooted, HeapTypeOK
  <2>2. QED
    BY <1>1, <1>7, <2>1 DEF ListsSound
<1>9. MarkClosed'
  <2>1. \A p \in marked : Refs(p) \subseteq marked \cup ra \cup rb
    BY DEF MarkingInv, MarkClosed
  <2>2. marked' \cup ra' \cup rb' = marked \cup ra \cup rb \cup NewEntries(o)
    BY <1>1
  <2>3. marked' \subseteq Obj
    BY DEF CollectorTypeOK
  <2>4. \A p \in marked' : Refs(p)' \subseteq marked' \cup ra' \cup rb'
    BY <1>1, <1>2, <1>7, <2>1, <2>2, <2>3
  <2>5. QED
    BY <2>4 DEF MarkClosed
<1>10. IdleMarks' /\ jmark' = collects'
  BY DEF MarkingInv, IdleMarks
<1>11. QED
  BY <1>3, <1>5, <1>8, <1>9, <1>10 DEF MarkingInv

(* The sweep keeps what was visited: the mark alone decides. *)
LEMMA SweepKeepsMarked ==
  ASSUME HeapTypeOK, CollectorTypeOK, MarkingInv, Sweep
  PROVE  chain' = marked /\ Rooted \subseteq marked /\ marked \subseteq chain
<1> USE DEF Sweep
<1>1. marked \subseteq chain /\ Rooted \subseteq marked
  BY DEF MarkingInv, ListsSound
<1>2. jmark \in Nat /\ jmark >= 1 /\ chain \subseteq Obj
      /\ stackCnt \in [Obj -> 0..MaxCnt]
  BY DEF MarkingInv, CurrentMarks, CollectorTypeOK, HeapTypeOK
<1>3. ASSUME NEW o \in chain, Kept(o) PROVE o \in marked
  <2>1. CASE stackCnt[o] # 0 \/ hold[o]
    BY <1>1, <1>2, <2>1, CntAssumption DEF Rooted
  <2>2. CASE cmark[o] = jmark
    BY <1>2, <2>2 DEF MarkingInv, CurrentMarks
  <2>3. QED
    BY <1>3, <2>1, <2>2 DEF Kept
<1>4. ASSUME NEW o \in marked PROVE Kept(o)
  BY <1>4 DEF Kept, MarkingInv, CurrentMarks
<1>5. QED
  BY <1>1, <1>3, <1>4

LEMMA SweepSafe ==
  ASSUME HeapTypeOK, CollectorTypeOK, MarkingInv, Sweep
  PROVE  MarkingInv'
<1> USE DEF Sweep
<1>1. chain' = marked /\ chain' \subseteq chain
  BY SweepKeepsMarked
<1>2. \A p \in Obj : Refs(p)' = Refs(p)
  BY DEF Refs
<1>3. \A p \in marked : Refs(p) \subseteq marked
  BY DEF MarkingInv, MarkClosed
<1>4. ChainClosed'
  BY <1>1, <1>2, <1>3 DEF ChainClosed, HeapTypeOK, CollectorTypeOK
<1>5. IdleMarks'
  BY <1>1 DEF IdleMarks, MarkingInv, CurrentMarks
<1>6. QED
  BY <1>4, <1>5 DEF MarkingInv, CurrentMarks, ListsSound, MarkClosed

LEMMA CollectStepSafe ==
  ASSUME HeapTypeOK, CollectorTypeOK, MarkingInv, CollectStep
  PROVE  MarkingInv'
<1>1. ASSUME NEW o \in Obj, ScanEntry(o) PROVE MarkingInv'
  BY <1>1, ScanSafe
<1>2. ASSUME NEW o \in Obj, SkipEntry(o) PROVE MarkingInv'
  <2>1. o \in marked
    BY <1>2, LeftOutIsMarked DEF SkipEntry, MarkingInv, ListsSound
  <2>2. marked \cup ra' = marked \cup ra
    BY <1>2, <2>1 DEF SkipEntry
  <2>3. ListsSound' /\ MarkClosed'
    BY <1>2, <2>2
       DEF SkipEntry, heapVars, MarkingInv, ListsSound, MarkClosed, Rooted, Refs
  <2>4. QED
    BY <1>2, <2>3
       DEF SkipEntry, heapVars, MarkingInv, ChainClosed, Refs, IdleMarks, CurrentMarks
<1>3. ASSUME NEW o \in Obj, CrashOnElement(o) PROVE MarkingInv'
  BY <1>3 DEF CrashOnElement, heapVars, MarkingInv, ChainClosed, Refs, IdleMarks,
              CurrentMarks, ListsSound, MarkClosed
<1>4. CASE NextPass
  <2>1. ListsSound' /\ MarkClosed'
    BY <1>4 DEF NextPass, heapVars, MarkingInv, ListsSound, MarkClosed, Rooted, Refs
  <2>2. QED
    BY <1>4, <2>1
       DEF NextPass, heapVars, MarkingInv, ChainClosed, Refs, IdleMarks, CurrentMarks
<1>5. CASE Sweep
  BY <1>5, SweepSafe
<1>6. QED
  BY <1>1, <1>2, <1>3, <1>4, <1>5 DEF CollectStep

(* A step that leaves the collector and the heap alone. *)
LEMMA CollectorStutter ==
  ASSUME HeapTypeOK, CollectorTypeOK, UNCHANGED collectorVars
  PROVE  /\ HeapTypeOK' /\ CollectorTypeOK'
         /\ MarkingInv => MarkingInv'
         /\ ListsReachable => ListsReachable'
<1> USE DEF collectorVars, heapVars, gcVars
<1>1. HeapTypeOK' /\ CollectorTypeOK'
  BY DEF HeapTypeOK, CollectorTypeOK
<1>2. \A p : Refs(p)' = Refs(p)
  BY DEF Refs
<1>3. ListsReachable => ListsReachable'
  BY <1>2 DEF ListsReachable
<1>4. MarkingInv => MarkingInv'
  BY <1>2 DEF MarkingInv, ChainClosed, IdleMarks, CurrentMarks, ListsSound,
              MarkClosed, Rooted
<1>5. QED
  BY <1>1, <1>3, <1>4

-----------------------------------------------------------------------------
(* Counted references, and the exactness of the sweep. *)

LEMMA CollectStepCounted ==
  ASSUME HeapTypeOK, CollectorTypeOK, MarkingInv, CountedLive,
         StartCollect \/ CollectStep \/ UNCHANGED collectorVars
  PROVE  CountedLive'
<1>1. CASE Sweep
  <2>1. \A p \in Obj : stackCnt[p] > 0 => p \in chain'
    BY <1>1, SweepKeepsMarked DEF CountedLive, Rooted
  <2>2. QED
    BY <1>1, <2>1 DEF CountedLive, Sweep
<1>2. CASE ~Sweep
  BY <1>2 DEF CountedLive, StartCollect, CollectStep, ScanEntry, SkipEntry,
              CrashOnElement, NextPass, collectorVars, heapVars
<1>3. QED
  BY <1>1, <1>2

LEMMA ReachableStart == ASSUME StartCollect PROVE ListsReachable'
  BY DEF StartCollect, ListsReachable

LEMMA ReachableStep ==
  ASSUME HeapTypeOK, CollectorTypeOK, MarkingInv, ListsReachable, CollectStep
  PROVE  ListsReachable'
<1>1. ASSUME NEW o \in Obj, ScanEntry(o) PROVE ListsReachable'
  <2>1. \A p \in Obj : Refs(p)' = Refs(p)
    BY <1>1 DEF ScanEntry, Refs
  <2>2. roots' \subseteq marked' \cup ra'
    BY <1>1 DEF ScanEntry, ListsReachable
  <2>3. ASSUME NEW T \in SUBSET Obj, roots \subseteq T,
               \A p \in T : Refs(p) \subseteq T
        PROVE  marked' \cup ra' \cup rb' \subseteq T
    <3>1. marked \cup ra \cup rb \subseteq T /\ o \in T
      BY <1>1, <2>3 DEF ScanEntry, ListsReachable
    <3>2. NewEntries(o) \subseteq T
      BY <2>3, <3>1 DEF NewEntries
    <3>3. QED
      BY <1>1, <3>1, <3>2 DEF ScanEntry
  <2>4. QED
    BY <1>1, <2>1, <2>2, <2>3 DEF ScanEntry, ListsReachable
<1>2. ASSUME NEW o \in Obj, SkipEntry(o) PROVE ListsReachable'
  <2>1. o \in marked
    BY <1>2, LeftOutIsMarked DEF SkipEntry, MarkingInv, ListsSound
  <2>2. QED
    BY <1>2, <2>1 DEF SkipEntry, heapVars, ListsReachable, Refs
<1>3. ASSUME NEW o \in Obj, CrashOnElement(o) PROVE ListsReachable'
  BY <1>3 DEF CrashOnElement, ListsReachable
<1>4. CASE NextPass
  BY <1>4 DEF NextPass, heapVars, ListsReachable, Refs
<1>5. CASE Sweep
  BY <1>5 DEF Sweep, ListsReachable
<1>6. QED
  BY <1>1, <1>2, <1>3, <1>4, <1>5 DEF CollectStep

LEMMA SweepIsExact ==
  ASSUME HeapTypeOK, CollectorTypeOK, MarkingInv, ListsReachable, Sweep
  PROVE  chain' = Reachable(roots)
<1>1. chain' = marked /\ marked \subseteq chain /\ chain \subseteq Obj
  BY SweepKeepsMarked DEF HeapTypeOK
<1>2. roots \subseteq marked /\ \A p \in marked : Refs(p) \subseteq marked
  BY DEF Sweep, ListsReachable, MarkingInv, MarkClosed
<1>3. Reachable(roots) \subseteq marked
  BY <1>1, <1>2 DEF Reachable
<1>4. marked \subseteq Reachable(roots)
  BY <1>1 DEF Reachable, ListsReachable, Sweep
<1>5. QED
  BY <1>1, <1>3, <1>4
=============================================================================
