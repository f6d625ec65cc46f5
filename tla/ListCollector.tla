---------------------------- MODULE ListCollector ----------------------------
(***************************************************************************)
(* jvm_Collect (src/src/rjvm.c) with the lists it really keeps and with    *)
(* the memory it takes.  The lists ra and rb are chains of JVMCollect      *)
(* nodes: a node is put in front, an object may have several, and every    *)
(* node is a block of the allocator, asked for without a test while the    *)
(* collection marks, which is when memory may be short.                    *)
(*                                                                         *)
(* The heap and the program are those of ManagedHeap, whose lists are      *)
(* sets; ImplementsHeap says that the difference cannot be seen there.     *)
(***************************************************************************)
EXTENDS ObjectHeap, SequencesExt

CONSTANTS
  Static, Uses, MaxCollects, \* as in ManagedHeap
  Memory                     \* how many blocks the allocator has to give

ASSUME MemoryAssumption == Memory \in Nat

VARIABLES
  jmark, phase, marked, roots, collects, statics, running, \* as in ManagedHeap
  la,    \* the list ra, first node first: an object for each node
  at,    \* the node of la that is looked at next, counted from 1
  lb,    \* the list rb
  used,  \* the blocks in use
  made,  \* history: the blocks of fields and elements that were ever made
  lost   \* how a block that could not be had was used all the same

listVars == <<la, at, lb>>
sameVars == <<jmark, phase, marked, roots, collects, statics, running>>
vars == <<heapVars, sameVars, listVars, used, made, lost>>

Looked == {la[i] : i \in 1..(at - 1)}
ToLookAt == {la[i] : i \in at..Len(la)}

(* The heap with sets for lists: what was looked at in this pass is off ra, *)
(* even if there is another node for it.  It comes with what is proved of  *)
(* it.                                                                     *)
Heap == INSTANCE ManagedHeapProofs WITH ra <- ToLookAt \ Looked, rb <- ToSet(lb)

ASSUME ProgramAssumption ==
  MaxCollects \in Nat /\ Uses \subseteq Heap!Feature /\ IsFiniteSet(Slot)

TypeOK ==
  /\ la \in Seq(Obj) /\ lb \in Seq(Obj)
  /\ at \in 1..(Len(la) + 1)
  /\ Heap!TypeOK
  /\ used \in 0..Memory
  /\ made \in Nat
  /\ lost \in {"none", "null", "stale"}

Init ==
  /\ HeapInit
  /\ jmark = 0 /\ phase = "idle" /\ collects = 0
  /\ marked = {} /\ roots = {}
  /\ statics = [x \in Static |-> Num] /\ running = TRUE
  /\ la = <<>> /\ at = 1 /\ lb = <<>>
  /\ used = 0 /\ made = 0
  /\ lost = "none"

Alive == lost = "none"
Available(n) == used + n <= Memory

-----------------------------------------------------------------------------
(* A step of the program.  A new object is two blocks: its header, and its *)
(* fields or elements.                                                     *)
Mutate ==
  /\ Alive
  /\ UNCHANGED <<listVars, lost>>
  /\ Heap!Mutate
  /\ Available(2 * Cardinality(chain' \ chain))
  /\ used' = used + 2 * Cardinality(chain' \ chain)
  /\ made' = made + Cardinality(chain' \ chain)

(* JVM_ERROR_OUTOFMEMORY: no header for an object or an object array, or no *)
(* elements for an object array, ends the process with the error.          *)
CreationRefused ==
  /\ Alive /\ Heap!Working
  /\ \/ "object" \in Uses /\ ~Available(1)
     \/ "oarray" \in Uses /\ ~Available(2)
  /\ running' = FALSE
  /\ UNCHANGED <<heapVars, jmark, phase, marked, roots, collects, statics>>
  /\ UNCHANGED <<listVars, used, made, lost>>

(* jvm_MakeObjectFields does not test for its block and writes through 0.   *)
FieldsThroughNull ==
  /\ Alive /\ Heap!Working
  /\ "object" \in Uses
  /\ Available(1) /\ ~Available(2)
  /\ lost' = "null"
  /\ UNCHANGED <<heapVars, sameVars, listVars, used, made>>

(* newarray does not look at the error: the value _jobject had before is   *)
(* pushed for the new array.  What the program does with it is not followed. *)
ArrayIsStale ==
  /\ Alive /\ Heap!Working
  /\ "parray" \in Uses
  /\ ~Available(2)
  /\ lost' = "stale"
  /\ UNCHANGED <<heapVars, sameVars, listVars, used, made>>

-----------------------------------------------------------------------------
(* jvm_Collect begins: a node for every counted or held object, in the     *)
(* order of the chain, which is any.                                       *)
StartCollect ==
  /\ Alive /\ Heap!Working
  /\ collects < MaxCollects
  /\ Available(Cardinality(Heap!Rooted))
  /\ used' = used + Cardinality(Heap!Rooted)
  /\ la' \in SetToSeqs(Heap!Rooted)
  /\ at' = 1 /\ lb' = <<>>
  /\ jmark' = (jmark + 1) % (MarkMask + 1)
  /\ phase' = "mark"
  /\ marked' = {} /\ roots' = Heap!Rooted
  /\ collects' = collects + 1
  /\ UNCHANGED <<heapVars, statics, running, made, lost>>

StartThroughNull ==
  /\ Alive /\ Heap!Working
  /\ collects < MaxCollects
  /\ ~Available(Cardinality(Heap!Rooted))
  /\ lost' = "null"
  /\ UNCHANGED <<heapVars, sameVars, listVars, used, made>>

(* The node that looking at o makes for its field or element s, if it does. *)
Wanted(o, s) ==
  /\ otype[o] # "parray" /\ fields[o][s] \in Obj
  /\ IF otype[o] = "object"
       THEN ~Heap!FieldLooksDone(fields[o][s])
       ELSE ~Heap!LooksDone(fields[o][s])

NodesFor(o, slots) ==
  LET found == SetToSeq(slots) IN [i \in 1..Len(found) |-> fields[o][found[i]]]

(* Wrong on purpose: the loop over the fields ends at a 0 that it finds. *)
NodesToNull(o) ==
  NodesFor(o, {s \in Slot : Wanted(o, s) /\ \A t \in Slot : fields[o][t] # Null})

(* The nodes that looking at o puts in front of rb, one for each slot. *)
Nodes(o) == NodesFor(o, {s \in Slot : Wanted(o, s)})

Current == la[at]
Looking == Alive /\ phase = "mark" /\ at <= Len(la)

Scan ==
  /\ Looking
  /\ ~Heap!LooksDone(Current) /\ ~Heap!BadElement(Current)
  /\ Available(Len(Nodes(Current)))
  /\ lb' = Nodes(Current) \o lb
  /\ used' = used + Len(Nodes(Current))
  /\ cmark' = [cmark EXCEPT ![Current] = jmark]
  /\ hold' = [hold EXCEPT ![Current] = FALSE]
  /\ marked' = marked \cup {Current}
  /\ at' = at + 1
  /\ UNCHANGED <<chain, otype, fields, stackCnt, jmark, phase, roots, collects>>
  /\ UNCHANGED <<statics, running, la, made, lost>>

Skip ==
  /\ Looking
  /\ Heap!LooksDone(Current)
  /\ at' = at + 1
  /\ UNCHANGED <<heapVars, sameVars, la, lb, used, made, lost>>

CrashOnElement ==
  /\ Looking
  /\ ~Heap!LooksDone(Current) /\ Heap!BadElement(Current)
  /\ phase' = "crash"
  /\ UNCHANGED <<heapVars, jmark, marked, roots, collects, statics, running>>
  /\ UNCHANGED <<listVars, used, made, lost>>

(* A node cannot be had, and the address of the object is stored through 0. *)
NodeThroughNull ==
  /\ Looking
  /\ ~Heap!LooksDone(Current) /\ ~Heap!BadElement(Current)
  /\ ~Available(Len(Nodes(Current)))
  /\ lost' = "null"
  /\ UNCHANGED <<heapVars, sameVars, listVars, used, made>>

(* Wrong on purpose: the nodes of the last pass are not given back. *)
EndPassKeepsLast ==
  /\ Alive /\ phase = "mark"
  /\ la # <<>> /\ at > Len(la)
  /\ used' = IF lb = <<>> THEN used ELSE used - Len(la)
  /\ la' = lb /\ lb' = <<>> /\ at' = 1
  /\ UNCHANGED <<heapVars, sameVars, made, lost>>

(* Wrong on purpose: the next pass starts where the last one ended. *)
EndPassKeepsAt ==
  /\ Alive /\ phase = "mark"
  /\ la # <<>> /\ at > Len(la)
  /\ used' = used - Len(la)
  /\ la' = lb /\ lb' = <<>> /\ at' = at
  /\ UNCHANGED <<heapVars, sameVars, made, lost>>

(* The pass is over: its nodes are given back and rb takes the place of ra. *)
EndPass ==
  /\ Alive /\ phase = "mark"
  /\ la # <<>> /\ at > Len(la)
  /\ used' = used - Len(la)
  /\ la' = lb /\ lb' = <<>> /\ at' = 1
  /\ UNCHANGED <<heapVars, sameVars, made, lost>>

(* Of an object that is freed, the header alone is given back. *)
Sweep ==
  /\ Alive /\ phase = "mark" /\ la = <<>>
  /\ chain' = {o \in chain : Heap!Kept(o)}
  /\ used' = used - Cardinality(chain \ chain')
  /\ phase' = "idle" /\ marked' = {} /\ roots' = {}
  /\ UNCHANGED <<otype, fields, stackCnt, cmark, hold, jmark, collects>>
  /\ UNCHANGED <<statics, running, listVars, made, lost>>

Collecting == Scan \/ Skip \/ CrashOnElement \/ NodeThroughNull \/ EndPass \/ Sweep

Stopped == (~running \/ phase = "crash" \/ lost # "none") /\ UNCHANGED vars

(* Nothing left to do within MaxCollects. *)
Idle == Alive /\ Heap!Working /\ collects = MaxCollects /\ UNCHANGED vars

Next ==
  \/ Mutate \/ StartCollect \/ Collecting \/ Stopped \/ Idle
  \/ CreationRefused \/ FieldsThroughNull \/ ArrayIsStale \/ StartThroughNull

Spec == Init /\ [][Next]_vars

(* jvm_Collect runs to its end without giving way to anything else. *)
FairSpec == Spec /\ WF_vars(Collecting)

-----------------------------------------------------------------------------
(***************************************************************************)
(* The lists may be taken for sets: looking at an object a second time     *)
(* (rjvm.c:857-905) finds nothing to add that the first time did not.      *)
(***************************************************************************)
ImplementsHeap == Heap!Spec

(***************************************************************************)
(* jvm_Collect gives back every node it asked for, pass by pass            *)
(* (rjvm.c:909-912), and the header of every object it frees; the fields   *)
(* and elements of freed objects (rjvm.c:927) are all that is never given  *)
(* back.                                                                   *)
(***************************************************************************)
OnlyFieldsLeak ==
  used = Cardinality(chain) + made + Len(la) + Len(lb)

(***************************************************************************)
(* jvm_Collect returns, or dies for want of a node: the passes end.        *)
(***************************************************************************)
CollectReturns == phase = "mark" ~> (phase # "mark" \/ lost = "null")

-----------------------------------------------------------------------------
(* Why the lists may be taken for sets, for the proofs: what a second look *)
(* at o would add is on rb since the first.                                *)
SeenTo(o) ==
  /\ o \in marked /\ cmark[o] = jmark /\ ~hold[o]
  /\ ~Heap!BadElement(o)
  /\ Heap!NewEntries(o) \subseteq ToSet(lb)

ListInv ==
  /\ IsFiniteSet(chain)
  /\ phase = "idle" => la = <<>> /\ lb = <<>>
  /\ at = 1 => lb = <<>>
  /\ phase = "mark" => \A o \in Looked : Heap!LooksDone(o) \/ SeenTo(o)
=============================================================================
