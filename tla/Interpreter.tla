----------------------------- MODULE Interpreter -----------------------------
(***************************************************************************)
(* jvm_ExecuteObjectMethod (src/src/exec.c) as far as references go: the   *)
(* frames of the methods that are being executed, each with its operand    *)
(* stack and its locals, and what every group of opcodes does to them, to  *)
(* the stack counts and to the heap.                                       *)
(*                                                                         *)
(* The code is any code a Java compiler can produce: an opcode may execute *)
(* when the operands it needs are on the stack.  What branches decide and  *)
(* what numbers are is left open, so every opcode that fits may be next.   *)
(***************************************************************************)
EXTENDS ObjectHeap, Sequences

CONSTANTS
  Static,    \* the static fields of all classes together
  MaxDepth,  \* how deep calls nest
  MaxStack,  \* max_stack of a method
  MaxLocals, \* max_locals of a method
  MaxScrub,  \* the largest max_locals jvm_ScrubLocals can be told: 0xff
  Ops        \* the groups of opcodes the program is made of

ASSUME FrameAssumption ==
  /\ MaxDepth \in Nat \ {0} /\ MaxStack \in Nat \ {0}
  /\ MaxLocals \in Nat \ {0} /\ MaxScrub \in Nat \ {0}

OpGroup == {"object", "string", "class", "oarray", "parray", "local", "dup", "static", "call",
            "native", "enum", "error", "leftover"}

ASSUME OpsAssumption == Ops \subseteq OpGroup

VARIABLES
  statics, \* JVMClass.sfields: their values
  frames,  \* the executions of jvm_ExecuteObjectMethod, the innermost last
  status   \* "boot", "running", then how the process went on

interpVars == <<heapVars, statics, frames, status>>

(* An operand or a local: its data and whether it is flagged a reference.  *)
(* Null is the data 0 under any flags, Num other data without the flag.     *)
Item == Obj \cup {Null, Num}

Local == 0..(MaxLocals - 1)

Frame == [stack : Seq(Item), locals : [Local -> Item]]

InterpTypeOK ==
  /\ HeapTypeOK
  /\ statics \in [Static -> Item]
  /\ frames \in Seq(Frame)
  /\ Len(frames) <= MaxDepth
  /\ \A d \in DOMAIN frames : Len(frames[d].stack) <= MaxStack
  /\ status \in {"boot", "running", "returned", "exited", "crashed", "finished"}

InterpInit ==
  /\ HeapInit
  /\ statics = [x \in Static |-> Num]
  /\ frames = <<>>
  /\ status = "boot"

-----------------------------------------------------------------------------
(* The innermost frame. *)

depth == Len(frames)
stack == frames[depth].stack
locals == frames[depth].locals

(* The operand k places under the top, and the stack without its k last. *)
Arg(k) == stack[Len(stack) - k]
Below(k) == SubSeq(stack, 1, Len(stack) - k)

(* The opcode may execute: the operands are there. *)
Operands(k) == status = "running" /\ Len(stack) >= k

(* The operand stack becomes st. *)
SetStack(st) ==
  /\ Len(st) <= MaxStack
  /\ frames' = [frames EXCEPT ![depth].stack = st]

(* The opcode replaces k operands by the item v. *)
Yield(k, v) == SetStack(Append(Below(k), v))

(* The k-th operand from the top is no reference: an index, a length, a value. *)
NoRef(k) == Arg(k) \notin Obj

Occurrences(f, o) == Cardinality({i \in DOMAIN f : f[i] = o})

(* Wrong on purpose: each object is taken off once more than it should be. *)
DecAllAndOne(cnt, f, times) ==
  [o \in Obj |-> IF o \in {f[i] : i \in DOMAIN f}
                THEN (cnt[o] - times * Occurrences(f, o) - 1) % (MaxCnt + 1)
                ELSE cnt[o]]

(* All the items of a sequence, or of the locals, cease to be counted. *)
DecAll(cnt, f, times) ==
  [o \in Obj |-> (cnt[o] - times * Occurrences(f, o)) % (MaxCnt + 1)]

(* Wrong on purpose: a return forgets the locals. *)
ScrubbedNone == <<>>

(* The locals that jvm_ScrubLocals looks at. *)
ScrubbedLocals ==
  [i \in {j \in Local : j < MaxLocals % (MaxScrub + 1)} |-> locals[i]]

(* A new frame for a call with the arguments args, the first in local 0. *)
NewFrame(args) ==
  [stack |-> <<>>,
   locals |-> [i \in Local |-> IF i < Len(args) THEN args[i + 1] ELSE Null]]

-----------------------------------------------------------------------------
(* Constants, stack and locals. *)

(* aconst_null, iconst, bipush, sipush, ldc of a number, iload. *)
Constant(v) ==
  /\ Operands(0)
  /\ v \in {Null, Num}
  /\ Yield(0, v)
  /\ UNCHANGED <<heapVars, statics, status>>

(* pop, the conditional branches, the switches, monitorenter and -exit:    *)
(* one or two operands are popped and nothing is pushed.                   *)
Consume(k) ==
  /\ Operands(k)
  /\ SetStack(Below(k))
  /\ stackCnt' = Dec(IF k = 2 THEN Dec(stackCnt, Arg(1)) ELSE stackCnt, Arg(0))
  /\ UNCHANGED <<chain, otype, fields, cmark, hold, statics, status>>

(* The arithmetic of one or two operands.  iinc, goto, checkcast of what it *)
(* accepts and the native ThreadCreate, which gives back its argument, leave *)
(* everything here as it was.                                              *)
Arithmetic(k) ==
  /\ Operands(k)
  /\ NoRef(0) /\ NoRef(k - 1)
  /\ \E v \in {Null, Num} : Yield(k, v)
  /\ UNCHANGED <<heapVars, statics, status>>

(* aload *)
LoadLocal(i) ==
  /\ "local" \in Ops
  /\ Operands(0)
  /\ Yield(0, locals[i])
  /\ stackCnt' = Inc(stackCnt, locals[i])
  /\ UNCHANGED <<chain, otype, fields, cmark, hold, statics, status>>

(* Wrong on purpose: the local is overwritten as if it had held nothing. *)
StoreLocalOnly(i) ==
  /\ "local" \in Ops
  /\ Operands(1)
  /\ frames' = [frames EXCEPT ![depth] =
                  [stack |-> Below(1), locals |-> [locals EXCEPT ![i] = Arg(0)]]]
  /\ stackCnt' = Inc(Dec(stackCnt, Arg(0)), Arg(0))
  /\ UNCHANGED <<chain, otype, fields, cmark, hold, statics, status>>

(* astore and istore: the pop, then jvm_LocalPut. *)
StoreLocal(i) ==
  /\ "local" \in Ops
  /\ Operands(1)
  /\ frames' = [frames EXCEPT ![depth] =
                  [stack |-> Below(1), locals |-> [locals EXCEPT ![i] = Arg(0)]]]
  /\ stackCnt' = Inc(Dec(Dec(stackCnt, Arg(0)), locals[i]), Arg(0))
  /\ UNCHANGED <<chain, otype, fields, cmark, hold, statics, status>>

(* Wrong on purpose: the copy is not counted. *)
DuplicateUncounted ==
  /\ "dup" \in Ops
  /\ Operands(1)
  /\ Yield(0, Arg(0))
  /\ UNCHANGED <<heapVars, statics, status>>

(* dup *)
Duplicate ==
  /\ "dup" \in Ops
  /\ Operands(1)
  /\ Yield(0, Arg(0))
  /\ stackCnt' = Inc(stackCnt, Arg(0))
  /\ UNCHANGED <<chain, otype, fields, cmark, hold, statics, status>>

(* dup_x1 *)
DuplicateUnder ==
  /\ "dup" \in Ops
  /\ Operands(2)
  /\ SetStack(Below(2) \o <<Arg(0), Arg(1), Arg(0)>>)
  /\ stackCnt' = Inc(stackCnt, Arg(0))
  /\ UNCHANGED <<chain, otype, fields, cmark, hold, statics, status>>

-----------------------------------------------------------------------------
(* Objects and arrays. *)

NewObject(o) ==
  /\ "object" \in Ops
  /\ Operands(0)
  /\ CreateObject(o, FALSE, 1)
  /\ Yield(0, o)
  /\ UNCHANGED <<statics, status>>

(* ldc of a string: the String and the array of its characters, which only *)
(* the field s of the String refers to.                                    *)
NewString(o, a, s) ==
  /\ "string" \in Ops
  /\ Operands(0)
  /\ o # a /\ {o, a} \cap chain = {}
  /\ chain' = chain \cup {o, a}
  /\ otype' = [otype EXCEPT ![o] = "object", ![a] = "parray"]
  /\ fields' = [fields EXCEPT ![o] = [r \in Slot |-> IF r = s THEN a ELSE Null],
                              ![a] = [r \in Slot |-> Num]]
  /\ cmark' = [cmark EXCEPT ![o] = 0, ![a] = 0]
  /\ hold' = [hold EXCEPT ![o] = FALSE, ![a] = FALSE]
  /\ stackCnt' = [stackCnt EXCEPT ![o] = 1, ![a] = 0]
  /\ Yield(0, o)
  /\ UNCHANGED <<statics, status>>

(* ldc of a class: the hold is not released. *)
NewClassObject(o) ==
  /\ "class" \in Ops
  /\ Operands(0)
  /\ CreateObject(o, TRUE, 1)
  /\ Yield(0, o)
  /\ UNCHANGED <<statics, status>>

NewArray(o) ==
  /\ Operands(1)
  /\ NoRef(0)
  /\ \/ "oarray" \in Ops /\ CreateObjectArray(o, FALSE, 1)
     \/ "parray" \in Ops /\ CreatePrimArray(o, 1)
  /\ Yield(1, o)
  /\ UNCHANGED <<statics, status>>

(* getfield: a field that was never assigned is 0, whatever its flags. *)
GetField(s) ==
  /\ Operands(1)
  /\ Arg(0) \in Obj /\ otype[Arg(0)] = "object"
  /\ LET v == fields[Arg(0)][s] IN
       /\ Yield(1, v)
       /\ stackCnt' = Inc(Dec(stackCnt, Arg(0)), v)
  /\ UNCHANGED <<chain, otype, fields, cmark, hold, statics, status>>

PutField(s) ==
  /\ Operands(2)
  /\ Arg(1) \in Obj /\ otype[Arg(1)] = "object"
  /\ SetStack(Below(2))
  /\ Store(Arg(1), s, Arg(0))
  /\ stackCnt' = Dec(Dec(stackCnt, Arg(0)), Arg(1))
  /\ UNCHANGED <<chain, otype, cmark, hold, statics, status>>

(* aaload *)
LoadElement(s) ==
  /\ Operands(2)
  /\ NoRef(0)
  /\ Arg(1) \in Obj /\ otype[Arg(1)] = "oarray"
  /\ LET v == fields[Arg(1)][s] IN
       /\ v \in Item
       /\ Yield(2, v)
       /\ stackCnt' = Inc(Dec(stackCnt, Arg(1)), v)
  /\ UNCHANGED <<chain, otype, fields, cmark, hold, statics, status>>

(* aastore *)
StoreElement(s) ==
  /\ Operands(3)
  /\ Arg(0) \in Obj \cup {Null}
  /\ NoRef(1)
  /\ Arg(2) \in Obj /\ otype[Arg(2)] = "oarray"
  /\ SetStack(Below(3))
  /\ Store(Arg(2), s, Arg(0))
  /\ stackCnt' = Dec(Dec(stackCnt, Arg(0)), Arg(2))
  /\ UNCHANGED <<chain, otype, cmark, hold, statics, status>>

(* arraylength, and the loads of elements that are numbers. *)
LoadNumber(k) ==
  /\ Operands(k)
  /\ k = 2 => NoRef(0)
  /\ Arg(k - 1) \in Obj
  /\ IF k = 1 THEN otype[Arg(0)] # "object" ELSE otype[Arg(1)] = "parray"
  /\ \E v \in {Null, Num} : Yield(k, v)
  /\ stackCnt' = Dec(stackCnt, Arg(k - 1))
  /\ UNCHANGED <<chain, otype, fields, cmark, hold, statics, status>>

(* The stores of elements that are numbers. *)
StoreNumber ==
  /\ Operands(3)
  /\ NoRef(0) /\ NoRef(1)
  /\ Arg(2) \in Obj /\ otype[Arg(2)] = "parray"
  /\ SetStack(Below(3))
  /\ stackCnt' = Dec(stackCnt, Arg(2))
  /\ UNCHANGED <<chain, otype, fields, cmark, hold, statics, status>>

(* getfield, putfield, checkcast and monitorenter follow the null they are *)
(* given, i2f and i2d write through the number they are given, aaload      *)
(* counts at the element it pushes, which may never have been stored, and  *)
(* LoadResource follows the data of a String that has none.                *)
Crash ==
  /\ Operands(1)
  /\ \/ NoRef(0)
     \/ Len(stack) > 1 /\ Arg(1) = Null
     \/ /\ Len(stack) > 1
        /\ Arg(1) \in Obj /\ otype[Arg(1)] = "oarray"
        /\ \E s \in Slot : fields[Arg(1)][s] = Wild
     \/ /\ "native" \in Ops
        /\ Arg(0) \in Obj /\ otype[Arg(0)] = "object"
        /\ \E s \in Slot : fields[Arg(0)][s] = Null
  /\ status' = "crashed"
  /\ UNCHANGED <<heapVars, statics, frames>>

(* putstatic and getstatic: the static field itself is not counted. *)
PutStatic(x) ==
  /\ "static" \in Ops
  /\ Operands(1)
  /\ SetStack(Below(1))
  /\ statics' = [statics EXCEPT ![x] = Arg(0)]
  /\ stackCnt' = Dec(stackCnt, Arg(0))
  /\ UNCHANGED <<chain, otype, fields, cmark, hold, status>>

GetStatic(x) ==
  /\ "static" \in Ops
  /\ Operands(0)
  /\ Yield(0, statics[x])
  /\ stackCnt' = Inc(stackCnt, statics[x])
  /\ UNCHANGED <<chain, otype, fields, cmark, hold, statics, status>>

-----------------------------------------------------------------------------
(* Calls. *)

(* main of rhino.c makes the entry object, holds it and calls its method. *)
Start(o) ==
  /\ status = "boot"
  /\ CreateObject(o, TRUE, 1)
  /\ frames' = <<NewFrame(<<o>>)>>
  /\ status' = "running"
  /\ UNCHANGED statics

(***************************************************************************)
(* An invoke that finds a Java method: the n arguments are popped, which   *)
(* takes them off the counts, and the callee counts them as its locals.    *)
(***************************************************************************)
Invoke(n) ==
  /\ "call" \in Ops
  /\ Operands(n)
  /\ n <= MaxLocals
  /\ depth < MaxDepth
  /\ LET args == SubSeq(stack, Len(stack) - n + 1, Len(stack))
     IN  frames' = Append([frames EXCEPT ![depth].stack = Below(n)], NewFrame(args))
  /\ UNCHANGED <<heapVars, statics, status>>

(***************************************************************************)
(* The native methods of Core take their arguments off the stack, and so   *)
(* off the counts, and count nothing themselves.  Print of null, or of a   *)
(* String without data, does nothing else; any other Print exits.          *)
(***************************************************************************)
PrintNothing ==
  /\ "native" \in Ops
  /\ Operands(1)
  /\ \/ Arg(0) = Null
     \/ Arg(0) \in Obj /\ otype[Arg(0)] = "object" /\ Null \in {fields[Arg(0)][s] : s \in Slot}
  /\ SetStack(Below(1))
  /\ stackCnt' = Dec(stackCnt, Arg(0))
  /\ UNCHANGED <<chain, otype, fields, cmark, hold, statics, status>>

(* LoadResource of a path makes a byte array, which the invoke pushes. *)
LoadResource(o) ==
  /\ "native" \in Ops
  /\ Operands(1)
  /\ Arg(0) \in Obj /\ otype[Arg(0)] = "object"
  /\ o \notin chain
  /\ chain' = chain \cup {o}
  /\ otype' = [otype EXCEPT ![o] = "parray"]
  /\ fields' = [fields EXCEPT ![o] = [s \in Slot |-> Num]]
  /\ cmark' = [cmark EXCEPT ![o] = 0]
  /\ hold' = [hold EXCEPT ![o] = FALSE]
  /\ stackCnt' = [Dec(stackCnt, Arg(0)) EXCEPT ![o] = 1]
  /\ Yield(1, o)
  /\ UNCHANGED <<statics, status>>

(***************************************************************************)
(* EnumClasses makes the array o of one String str[s] for every class, with *)
(* the bytes of its name, data[s], in its first field f.  The invoke pushes *)
(* the array; neither it nor a String is released.                         *)
(***************************************************************************)
EnumClasses(o, str, data, f) ==
  LET strs == {str[s] : s \in Slot}
      datas == {data[s] : s \in Slot}
      new == {o} \cup strs \cup datas
  IN  /\ "enum" \in Ops
      /\ Operands(0)
      /\ Cardinality(new) = 1 + 2 * Cardinality(Slot)
      /\ new \cap chain = {}
      /\ chain' = chain \cup new
      /\ otype' = [p \in Obj |-> IF p = o THEN "oarray"
                                ELSE IF p \in strs THEN "object"
                                ELSE IF p \in datas THEN "parray" ELSE otype[p]]
      /\ fields' = [p \in Obj |->
           IF p = o THEN str
           ELSE IF p \in datas THEN [s \in Slot |-> Num]
           ELSE IF p \in strs
                THEN LET x == CHOOSE t \in Slot : str[t] = p
                     IN  [s \in Slot |-> IF s = f THEN data[x] ELSE Null]
           ELSE fields[p]]
      /\ \E m \in Junk :
           cmark' = [p \in Obj |-> IF p = o THEN m ELSE IF p \in new THEN 0 ELSE cmark[p]]
      /\ hold' = [p \in Obj |-> IF p \in new THEN p \notin datas ELSE hold[p]]
      /\ stackCnt' = [p \in Obj |-> IF p = o THEN 1 ELSE IF p \in new THEN 0 ELSE stackCnt[p]]
      /\ Yield(0, o)
      /\ UNCHANGED <<statics, status>>

(***************************************************************************)
(* areturn, ireturn, lreturn (k = 1) and return (k = 0): the result is     *)
(* popped, jvm_ScrubStack pops what is left and takes each reference off   *)
(* the count once more, jvm_ScrubLocals takes the locals off, as many as   *)
(* its parameter of 8 bits says, and the caller pushes the result.         *)
(* Compilers leave nothing on the stack.                                   *)
(***************************************************************************)
Return(k) ==
  /\ Operands(k)
  /\ Below(k) # <<>> => "leftover" \in Ops
  /\ LET result == IF k = 1 THEN Arg(0) ELSE Null
         popped == Dec(stackCnt, result)
         scrubbed == DecAll(DecAll(popped, Below(k), 2), ScrubbedLocals, 1)
         caller == SubSeq(frames, 1, depth - 1)
     IN  IF depth = 1
         THEN /\ frames' = <<>>
              /\ stackCnt' = scrubbed
              /\ status' = "returned"
         ELSE /\ k = 1 => Len(caller[depth - 1].stack) < MaxStack
              /\ frames' = IF k = 0 THEN caller
                           ELSE [caller EXCEPT ![depth - 1].stack = Append(@, result)]
              /\ stackCnt' = Inc(scrubbed, result)
              /\ UNCHANGED status
  /\ UNCHANGED <<chain, otype, fields, cmark, hold, statics>>

(* An error, a thrown exception, Core.Exit or Core.Print: the process exits. *)
Fail ==
  /\ "error" \in Ops
  /\ status = "running"
  /\ status' = "exited"
  /\ UNCHANGED <<heapVars, statics, frames>>

InterpStep ==
  \/ \E v \in {Null, Num} : Constant(v)
  \/ \E k \in 1..2 : Consume(k) \/ LoadNumber(k) \/ Arithmetic(k)
  \/ Duplicate \/ DuplicateUnder \/ StoreNumber \/ PrintNothing \/ Crash \/ Fail
  \/ \E i \in Local : LoadLocal(i) \/ StoreLocal(i)
  \/ \E o \in Obj : \/ Start(o) \/ NewObject(o) \/ NewClassObject(o)
                    \/ NewArray(o) \/ LoadResource(o)
  \/ \E o, a \in Obj, s \in Slot : NewString(o, a, s)
  \/ \E o \in Obj, str, data \in [Slot -> Obj], f \in Slot :
       EnumClasses(o, str, data, f)
  \/ \E s \in Slot : GetField(s) \/ PutField(s) \/ LoadElement(s) \/ StoreElement(s)
  \/ \E x \in Static : PutStatic(x) \/ GetStatic(x)
  \/ \E n \in 0..MaxLocals : Invoke(n)
  \/ \E k \in 0..1 : Return(k)

(* Nothing runs any more. *)
InterpStopped ==
  /\ status \in {"returned", "exited", "crashed"}
  /\ UNCHANGED interpVars

InterpNext == InterpStep \/ InterpStopped

InterpSpec == InterpInit /\ [][InterpNext]_interpVars

-----------------------------------------------------------------------------
(* The places a stack count is about: operands and locals of every frame. *)

StackPlaces(o) ==
  {p \in (DOMAIN frames) \X (1..MaxStack) :
     p[2] \in DOMAIN frames[p[1]].stack /\ frames[p[1]].stack[p[2]] = o}

LocalPlaces(o) ==
  {p \in (DOMAIN frames) \X Local : frames[p[1]].locals[p[2]] = o}

(***************************************************************************)
(* rjvm.h:307: stackCnt is "how many instances are on stack and locals".   *)
(* Pops, pushes, jvm_LocalPut, the binding of arguments and the scrubbing  *)
(* at a return together keep it so, across calls of any depth; the         *)
(* collector relies on it.                                                 *)
(***************************************************************************)
CountExact ==
  \A o \in Obj :
    o \in chain =>
      stackCnt[o] = Cardinality(StackPlaces(o)) + Cardinality(LocalPlaces(o))
=============================================================================
