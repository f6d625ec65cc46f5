----------------------------- MODULE ManagedHeap -----------------------------
(***************************************************************************)
(* The collector at work for a running program.  The program is reduced to *)
(* what the collector can see of it: objects are created, references go to *)
(* and come from operand stacks and locals (which counts them, see         *)
(* src/src/stack.c), and are stored in fields, array elements and static   *)
(* fields (which does not).  The machine has a single thread, so the       *)
(* program stands still while jvm_Collect runs.                            *)
(***************************************************************************)
EXTENDS Collector

CONSTANTS
  Static, \* the static fields of all classes together
  Uses    \* what the program makes use of, among the names in Feature

Feature == {"object", "held", "oarray", "parray", "nested"}

ASSUME UsesAssumption == Uses \subseteq Feature

VARIABLES
  statics, \* JVMClass.sfields: their values
  running  \* FALSE once the program has left through System.exit or main

vars == <<heapVars, gcVars, statics, running>>

TypeOK ==
  /\ HeapTypeOK
  /\ CollectorTypeOK
  /\ statics \in [Static -> Value]
  /\ running \in BOOLEAN

Init ==
  /\ HeapInit
  /\ CollectorInit
  /\ statics = [x \in Static |-> Num]
  /\ running = TRUE

(* What the program can have on a stack or in a local. *)
InHand(v) == v \in Obj /\ stackCnt[v] > 0

Working == phase = "idle" /\ running

-----------------------------------------------------------------------------
(* The operations of the program. *)

(* Opcode new: created, pushed, released. *)
New(o) ==
  /\ Working
  /\ "object" \in Uses
  /\ CreateObject(o, FALSE, 1)
  /\ UNCHANGED <<gcVars, statics, running>>

(* The entry object of main, and ldc of a class: created, counted once and *)
(* never released.                                                         *)
NewHeld(o) ==
  /\ Working
  /\ "held" \in Uses
  /\ CreateObject(o, TRUE, 1)
  /\ UNCHANGED <<gcVars, statics, running>>

NewObjectArray(o) ==
  /\ Working
  /\ "oarray" \in Uses
  /\ CreateObjectArray(o, FALSE, 1)
  /\ UNCHANGED <<gcVars, statics, running>>

NewPrimArray(o) ==
  /\ Working
  /\ "parray" \in Uses
  /\ CreatePrimArray(o, 1)
  /\ UNCHANGED <<gcVars, statics, running>>

(* A reference already in hand is copied to one more stack slot or local. *)
Push(o) ==
  /\ Working
  /\ InHand(o)
  /\ stackCnt[o] < MaxCnt
  /\ stackCnt' = Inc(stackCnt, o)
  /\ UNCHANGED <<chain, otype, fields, cmark, hold, gcVars, statics, running>>

Pop(o) ==
  /\ Working
  /\ InHand(o)
  /\ stackCnt' = Dec(stackCnt, o)
  /\ UNCHANGED <<chain, otype, fields, cmark, hold, gcVars, statics, running>>

(* putfield of a value in hand, of null or of a number. *)
PutField(p, s, v) ==
  /\ Working
  /\ InHand(p)
  /\ otype[p] = "object"
  /\ InHand(v) \/ v \in {Null, Num}
  /\ Store(p, s, v)
  /\ UNCHANGED <<chain, otype, stackCnt, cmark, hold, gcVars, statics, running>>

(* aastore: null passes the test of the opcode.  An array may be an element *)
(* of an array when its class, which is that of its elements, allows it.    *)
StoreElement(p, s, v) ==
  /\ Working
  /\ InHand(p)
  /\ otype[p] = "oarray"
  /\ v = Null \/ (InHand(v) /\ (otype[v] = "oarray" => "nested" \in Uses))
  /\ Store(p, s, v)
  /\ UNCHANGED <<chain, otype, stackCnt, cmark, hold, gcVars, statics, running>>

(* getfield and aaload of a reference: it is pushed. *)
Fetch(p, s) ==
  /\ Working
  /\ InHand(p)
  /\ otype[p] # "parray"
  /\ fields[p][s] \in Obj
  /\ stackCnt[fields[p][s]] < MaxCnt
  /\ stackCnt' = Inc(stackCnt, fields[p][s])
  /\ UNCHANGED <<chain, otype, fields, cmark, hold, gcVars, statics, running>>

(* aaload of an element never stored: the push counts at a wild address. *)
FetchWild(p, s) ==
  /\ Working
  /\ InHand(p)
  /\ otype[p] = "oarray"
  /\ fields[p][s] = Wild
  /\ phase' = "crash"
  /\ UNCHANGED <<heapVars, jmark, ra, rb, marked, roots, collects, statics, running>>

PutStatic(x, v) ==
  /\ Working
  /\ InHand(v) \/ v = Null
  /\ statics' = [statics EXCEPT ![x] = v]
  /\ UNCHANGED <<heapVars, gcVars, running>>

GetStatic(x) ==
  /\ Working
  /\ statics[x] \in Obj
  /\ stackCnt[statics[x]] < MaxCnt
  /\ stackCnt' = Inc(stackCnt, statics[x])
  /\ UNCHANGED <<chain, otype, fields, cmark, hold, gcVars, statics, running>>

(* The native Core.Collect, or the collections at the end of main. *)
Collect == Working /\ StartCollect /\ UNCHANGED <<statics, running>>

(* The native Core.Exit. *)
Exit == Working /\ running' = FALSE /\ UNCHANGED <<heapVars, gcVars, statics>>

(* The process is gone. *)
Stopped == (~running \/ phase = "crash") /\ UNCHANGED vars

-----------------------------------------------------------------------------
Mutate ==
  \/ \E o \in Obj : \/ New(o) \/ NewHeld(o)
                    \/ NewObjectArray(o) \/ NewPrimArray(o)
                    \/ Push(o) \/ Pop(o)
  \/ \E p \in Obj, s \in Slot :
       \/ \E v \in Value : PutField(p, s, v) \/ StoreElement(p, s, v)
       \/ Fetch(p, s)
       \/ FetchWild(p, s)
  \/ \E x \in Static : GetStatic(x) \/ \E v \in Value : PutStatic(x, v)

Collecting == CollectStep /\ UNCHANGED <<statics, running>>

Next == Mutate \/ Collect \/ Collecting \/ Exit \/ Stopped

Spec == Init /\ [][Next]_vars

-----------------------------------------------------------------------------
(***************************************************************************)
(* The sweep is exact: of the old chain it keeps the objects that can be   *)
(* reached from what was counted or held when jvm_Collect was called, and  *)
(* no other.                                                               *)
(***************************************************************************)
SweepExact == [][Collecting /\ Sweep => chain' = Reachable(roots)]_vars

(* The refinement mapping: what the abstract heap sees of this one. *)
RefsOfChain == [o \in Obj |-> IF o \in chain THEN Refs(o) ELSE {}]
CountedOfChain == {o \in chain : stackCnt[o] > 0}

Abstract == INSTANCE AbstractHeap
  WITH objs <- chain, refs <- RefsOfChain, hand <- CountedOfChain

(***************************************************************************)
(* The heap with its counts, marks and lists implements the heap that only *)
(* reclaims what nothing can reach.                                        *)
(***************************************************************************)
ImplementsAbstract == Abstract!AbsSpec

-----------------------------------------------------------------------------
(* Why the marking is complete, for the proofs.                            *)

(* No mark is used twice, fresh memory holds neither marks nor the          *)
(* addresses of objects, and the program keeps no reference in a static    *)
(* field.                                                                  *)
FreshMarks ==
  /\ MaxCollects <= MarkMask
  /\ Junk \subseteq {0} /\ Unwritten \cap Obj = {}
  /\ Static = {}

(* What holds between any two steps. *)
HeapInv == MarkingInv /\ CountedLive

-----------------------------------------------------------------------------
(* What comments of the code say of it, to be compared with what it does.  *)

(***************************************************************************)
(* rjvm.c:836 gives the lower four bits of cmark to the mark and the upper *)
(* four to the flags: a collection that writes a mark leaves the hold as   *)
(* it was.                                                                 *)
(***************************************************************************)
HoldKept ==
  [][Collecting => \A o \in chain \cap chain' : hold[o] => hold'[o]]_vars

(***************************************************************************)
(* rjvm.c:922 calls an object that the sweep frees "unreachable as         *)
(* reference from anything": no object that stays and no static field      *)
(* refers to it.                                                           *)
(***************************************************************************)
FreedUnreferenced ==
  [][Collecting /\ Sweep =>
       /\ \A o \in chain' : Refs(o) \subseteq chain'
       /\ \A x \in Static : statics[x] \notin chain \ chain']_vars

(***************************************************************************)
(* rjvm.c:858 "do not do objects already done": an object that was visited *)
(* by this collection is not visited again.                                *)
(***************************************************************************)
NotDoneTwice ==
  [][\A o \in Obj : ScanEntry(o) => o \notin marked]_vars
=============================================================================
