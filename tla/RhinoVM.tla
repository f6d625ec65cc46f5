------------------------------ MODULE RhinoVM ------------------------------
(***************************************************************************)
(* The virtual machine as main of src/srchead/rhino.c puts it together:    *)
(* the interpreter, the collector, and the heap they share.  The program   *)
(* collects through the native method Core.Collect, from a call of any     *)
(* depth, and main collects once more when the program has returned.       *)
(* There is one thread: no opcode executes while jvm_Collect runs.         *)
(***************************************************************************)
EXTENDS Interpreter, Collector

CONSTANT CoreCollects \* whether the class Core declares the method Collect

ASSUME CoreAssumption == CoreCollects \in BOOLEAN

vars == <<interpVars, gcVars>>

Init == InterpInit /\ CollectorInit

TypeOK == InterpTypeOK /\ CollectorTypeOK

(* An opcode executes. *)
Execute == phase = "idle" /\ InterpStep /\ UNCHANGED gcVars

(* An invoke of Core.Collect, which has no argument and no result. *)
NativeCollect ==
  /\ CoreCollects
  /\ Operands(0)
  /\ StartCollect
  /\ UNCHANGED <<statics, frames, status>>

(* The last call of main. *)
FinalCollect ==
  /\ status = "returned"
  /\ StartCollect
  /\ status' = "finished"
  /\ UNCHANGED <<statics, frames>>

Collecting == CollectStep /\ UNCHANGED <<statics, frames, status>>

(* The process is gone. *)
Gone ==
  \/ phase = "crash"
  \/ phase = "idle" /\ status \in {"finished", "exited", "crashed"}

Next ==
  \/ Execute \/ NativeCollect \/ FinalCollect \/ Collecting
  \/ (Gone \/ collects = MaxCollects) /\ UNCHANGED vars

Spec == Init /\ [][Next]_vars

-----------------------------------------------------------------------------
(* The objects that operands and locals of the frames refer to. *)
FrameRefs ==
  {o \in Obj : \E d \in DOMAIN frames :
     \/ \E k \in DOMAIN frames[d].stack : frames[d].stack[k] = o
     \/ \E i \in Local : frames[d].locals[i] = o}

(***************************************************************************)
(* No method, however far down the calls, has a reference to an object     *)
(* that a collection has freed, and no allocated object refers to one:     *)
(* exec.c and rjvm.c agree through the stack counts alone on what is in    *)
(* use.                                                                    *)
(***************************************************************************)
FramesLive ==
  /\ FrameRefs \subseteq chain
  /\ \A o \in chain : Refs(o) \subseteq chain

(***************************************************************************)
(* A collection starts from the objects the frames refer to and from those *)
(* that are held, and from no other: no count is left behind by a pop, a   *)
(* call or a return, which would keep garbage for ever (rjvm.c:849).       *)
(***************************************************************************)
StartsFromFrames ==
  [][phase = "idle" /\ phase' = "mark" =>
       ra' = FrameRefs \cup {o \in chain : hold[o]}]_vars

(***************************************************************************)
(* When main has collected for the last time, what is left is what the     *)
(* objects that were still held keep alive: the counts of the program have *)
(* all been given back (rjvm.c:924).                                       *)
(***************************************************************************)
OnlyHeldRemains ==
  [][status = "finished" /\ Collecting /\ Sweep =>
       /\ frames = <<>>
       /\ chain' = Reachable(roots)
       /\ \A o \in Obj : stackCnt[o] = 0 \/ o \notin chain]_vars
=============================================================================
