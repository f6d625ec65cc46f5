------------------------------ MODULE Collector ------------------------------
(***************************************************************************)
(* jvm_Collect (src/src/rjvm.c): the mark and sweep of the object chain.   *)
(*                                                                         *)
(* StartCollect advances the mark and puts the counted and the held        *)
(* objects on the list ra.  Each pass visits the entries of ra in turn,    *)
(* adds what they refer to to the list rb and marks them; at the end of a  *)
(* pass rb takes the place of ra.  When a pass leaves nothing to visit,    *)
(* Sweep frees what is neither counted, nor marked, nor held.              *)
(*                                                                         *)
(* The lists are sets here: an entry that is on a list twice is visited    *)
(* twice by the code, and the second visit finds the object marked.        *)
(***************************************************************************)
EXTENDS ObjectHeap

CONSTANT MaxCollects \* how many collections are explored

ASSUME CollectAssumption == MaxCollects \in Nat

VARIABLES
  jmark,    \* JVM.cmark: the mark of the last collection
  phase,    \* where jvm_Collect is: "idle", "mark", or stopped by a "crash"
  ra,       \* the entries of the list ra not yet visited by this pass
  rb,       \* the entries added for the next pass
  marked,   \* history: what the collection under way has marked
  roots,    \* history: what the collection under way started from
  collects  \* history: the number of collections started

gcVars == <<jmark, phase, ra, rb, marked, roots, collects>>
collectorVars == <<heapVars, gcVars>>

CollectorTypeOK ==
  /\ jmark \in Mark
  /\ phase \in {"idle", "mark", "crash"}
  /\ ra \subseteq Obj
  /\ rb \subseteq Obj
  /\ marked \subseteq Obj
  /\ roots \subseteq Obj
  /\ collects \in 0..MaxCollects

CollectorInit ==
  /\ jmark = 0
  /\ phase = "idle"
  /\ ra = {}
  /\ rb = {}
  /\ marked = {}
  /\ roots = {}
  /\ collects = 0

(* Wrong on purpose: objects that are on a stack are not started from. *)
RootedHeld == {o \in chain : hold[o]}

(* The objects the collector takes as reachable without a reference. *)
Rooted == {o \in chain : stackCnt[o] > 0 \/ hold[o]}

StartCollect ==
  /\ phase = "idle"
  /\ collects < MaxCollects
  /\ jmark' = (jmark + 1) % (MarkMask + 1)
  /\ ra' = Rooted
  /\ rb' = {}
  /\ phase' = "mark"
  /\ marked' = {}
  /\ roots' = Rooted
  /\ collects' = collects + 1
  /\ UNCHANGED heapVars

(* Wrong on purpose: the mark of the last collection passes for this one. *)
FieldLooksOld(o) == cmark[o] + 1 >= jmark

(* Wrong on purpose: the test on a field gets the precedence of the others. *)
FieldNeverDone(o) == FALSE

(***************************************************************************)
(* The two tests by which the code leaves out an object that it takes to   *)
(* be marked.  "cmark & 0xf == cmark" is cmark & (0xf == cmark) in C: it   *)
(* is false unless the current mark is 0xf, and then it looks at bit 0     *)
(* alone.  The test on a field compares the whole byte, hold bit included. *)
(***************************************************************************)
LooksDone(o) == jmark = MarkMask /\ cmark[o] % 2 = 1
FieldLooksDone(o) == cmark[o] = jmark /\ ~hold[o]

(* The entries that visiting o adds to rb. *)
NewEntries(o) ==
  {c \in Refs(o) :
     IF otype[o] = "object" THEN ~FieldLooksDone(c) ELSE ~LooksDone(c)}

(* An array element is dereferenced without a test: 0 or a wild value is fatal. *)
BadElement(o) == otype[o] = "oarray" /\ \E s \in Slot : fields[o][s] \notin Obj

(* The entry is one the code visits, and its object holds no bad element. *)
ScanEntry(o) ==
  /\ phase = "mark"
  /\ o \in ra
  /\ ~LooksDone(o)
  /\ ~BadElement(o)
  /\ rb' = rb \cup NewEntries(o)
  /\ cmark' = [cmark EXCEPT ![o] = jmark]
  /\ hold' = [hold EXCEPT ![o] = FALSE]
  /\ ra' = ra \ {o}
  /\ marked' = marked \cup {o}
  /\ UNCHANGED <<chain, otype, fields, stackCnt, jmark, phase, roots, collects>>

SkipEntry(o) ==
  /\ phase = "mark"
  /\ o \in ra
  /\ LooksDone(o)
  /\ ra' = ra \ {o}
  /\ UNCHANGED <<heapVars, jmark, phase, rb, marked, roots, collects>>

CrashOnElement(o) ==
  /\ phase = "mark"
  /\ o \in ra
  /\ ~LooksDone(o)
  /\ BadElement(o)
  /\ phase' = "crash"
  /\ UNCHANGED <<heapVars, jmark, ra, rb, marked, roots, collects>>

(* The pass is over: the list ra is freed and rb takes its place. *)
NextPass ==
  /\ phase = "mark"
  /\ ra = {}
  /\ rb # {}
  /\ ra' = rb
  /\ rb' = {}
  /\ UNCHANGED <<heapVars, jmark, phase, marked, roots, collects>>

(* Wrong on purpose: the mark is not looked at. *)
KeptRooted(o) == stackCnt[o] # 0 \/ hold[o]

(* Wrong on purpose: the mark of the last collection is good enough. *)
KeptOneBehind(o) == stackCnt[o] # 0 \/ cmark[o] + 1 >= jmark \/ hold[o]

(***************************************************************************)
(* What the sweep relinks into the new chain; it frees the rest of the old *)
(* one.  Here the mark is compared in its low four bits alone.             *)
(***************************************************************************)
Kept(o) == stackCnt[o] # 0 \/ cmark[o] = jmark \/ hold[o]

Sweep ==
  /\ phase = "mark"
  /\ ra = {}
  /\ rb = {}
  /\ chain' = {o \in chain : Kept(o)}
  /\ phase' = "idle"
  /\ marked' = {}
  /\ roots' = {}
  /\ UNCHANGED <<otype, fields, stackCnt, cmark, hold, jmark, ra, rb, collects>>

(* One step of the collection that is under way. *)
CollectStep ==
  \/ \E o \in Obj : ScanEntry(o) \/ SkipEntry(o) \/ CrashOnElement(o)
  \/ NextPass
  \/ Sweep
-----------------------------------------------------------------------------
(* No reference stored in an object that is allocated leads to one that is *)
(* not.                                                                    *)
ChainClosed == \A o \in chain : Refs(o) \subseteq chain

(* Neither does a counted reference.                                       *)
CountedLive == \A o \in Obj : stackCnt[o] > 0 => o \in chain

(***************************************************************************)
(* No counted reference and no reference stored in an object that is       *)
(* allocated leads to an object that was freed: jvm_Collect (sweep at      *)
(* rjvm.c:924) never frees what the program can still reach.               *)
(***************************************************************************)
NoDangling == CountedLive /\ ChainClosed

(***************************************************************************)
(* While jvm_Collect marks, an object that was visited refers only to      *)
(* objects that were visited or that are still on one of the lists, so     *)
(* nothing reachable is forgotten by the tests that leave entries out.     *)
(***************************************************************************)
MarkClosed ==
  phase = "mark" => \A o \in marked : Refs(o) \subseteq marked \cup ra \cup rb

(* The objects of the chain that references lead to from S. *)
Reachable(S) ==
  {o \in chain : \A T \in SUBSET chain :
     (S \subseteq T /\ \A p \in T : Refs(p) \subseteq T) => o \in T}

-----------------------------------------------------------------------------
(* Why the marking is complete, for the proofs.                            *)

(* Between collections an object is new or was marked by the last one. *)
IdleMarks ==
  phase = "idle" => \A o \in chain : cmark[o] \in {0, jmark}

(* During one, the current mark is on the visited objects and no others. *)
CurrentMarks ==
  phase = "mark" =>
    /\ jmark >= 1
    /\ \A o \in marked : cmark[o] = jmark
    /\ \A o \in chain \ marked : cmark[o] \in {0, jmark - 1}

(* The lists hold allocated objects, and every root is seen to. *)
ListsSound ==
  phase = "mark" =>
    /\ marked \cup ra \cup rb \subseteq chain
    /\ Rooted \subseteq marked \cup ra

(* What is on the lists can be reached from what the collection started    *)
(* from: it is in every set that holds that and is closed.                 *)
ListsReachable ==
  phase = "mark" =>
    /\ roots \subseteq marked \cup ra
    /\ \A T \in SUBSET Obj :
         roots \subseteq T /\ (\A p \in T : Refs(p) \subseteq T)
           => marked \cup ra \cup rb \subseteq T

MarkingInv ==
  /\ jmark = collects
  /\ ChainClosed
  /\ IdleMarks
  /\ CurrentMarks
  /\ ListsSound
  /\ MarkClosed
=============================================================================
