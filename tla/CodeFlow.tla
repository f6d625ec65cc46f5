------------------------------ MODULE CodeFlow ------------------------------
(***************************************************************************)
(* Where jvm_ExecuteObjectMethod (src/src/exec.c) goes next: the index x   *)
(* of the byte to decode, as the branches, the switches, calls, returns,   *)
(* monitors and errors set it.  Positions and offsets are the real ones,   *)
(* at their real widths; everything an opcode does beside setting x is     *)
(* left out, so "body" stands for any run of bytes that are decoded one    *)
(* after the other, and a test may go either way.                          *)
(*                                                                         *)
(* A method is chosen at the start.  Compiled calls that are nested are    *)
(* nested calls in C, each with an x of its own.                           *)
(***************************************************************************)
EXTENDS Integers, Sequences, SequencesExt

CONSTANTS
  Methods,  \* the methods to run
  Operands, \* the values that a switch may be given
  Bases,    \* what the address of the code may be, modulo 4
  MaxDepth  \* how many calls the C stack holds

ASSUME FlowAssumption ==
  /\ Bases \subseteq 0..3
  /\ MaxDepth \in Nat \ {0}
  /\ Operands \subseteq Int

VARIABLES
  method,  \* the method that runs
  layout,  \* the byte at which each of its instructions starts, and the end
  base,    \* the address of method->code->code
  calls,   \* x of each call under way, innermost last
  lock,    \* the mutex word of the object: 0 or 1
  status,  \* "running", or how the process ended
  strayed  \* history: an instruction was executed that the code has wrong

vars == <<method, layout, base, calls, lock, status, strayed>>

Instr(i) == method.code[i]
Length == Len(method.code)

-----------------------------------------------------------------------------
(* The layout of a class file: the tables of a switch start at the next    *)
(* multiple of four after the opcode, counted from the start of the code.  *)

Align4(n) == ((n + 3) \div 4) * 4

Size(instr, pos) ==
  CASE instr.op = "body" -> instr.size
    [] instr.op \in {"goto", "if", "ifeq", "risky", "call"} -> 3
    [] instr.op \in {"nop", "throw", "return", "enter", "exit"} -> 1
    [] instr.op = "table" -> Align4(pos + 1) - pos + 4 * (3 + Len(instr.to))
    [] instr.op = "lookup" -> Align4(pos + 1) - pos + 4 * (2 + 2 * (Len(instr.to) + instr.more))

(* The byte at which each instruction starts, and where the code ends. *)
PositionsOf(instrs) ==
  LET pos[i \in 1..(Len(instrs) + 1)] ==
        IF i = 1 THEN 0 ELSE LET p == pos[i - 1] IN p + Size(instrs[i - 1], p)
  IN  pos

(* An instruction of a method of n of them. *)
Instruction(n) ==
  [op : {"nop", "risky", "throw", "enter", "exit", "call", "return"}]
  \cup [op : {"body"}, size : Nat \ {0}]
  \cup [op : {"goto", "if", "ifeq"}, to : 1..n]
  \cup [op : {"table"}, low : Int, to : Seq(1..n), dflt : 1..n]
  \cup [op : {"lookup"}, keys : Seq(Int), to : Seq(1..n), more : Nat, dflt : 1..n]

Int16(d) == d >= -32768 /\ d <= 32767

(* The distance of a branch has 16 bits. *)
BranchFits(instrs, j) ==
  instrs[j].op \in {"goto", "if", "ifeq"} =>
    Int16(PositionsOf(instrs)[instrs[j].to] - PositionsOf(instrs)[j])

(* A tableswitch has an entry, and the keys of a lookupswitch differ. *)
SwitchFits(instr) ==
  /\ instr.op = "table" => instr.to # <<>>
  /\ instr.op = "lookup" =>
       /\ DOMAIN instr.to = DOMAIN instr.keys
       /\ \A k, l \in DOMAIN instr.keys : instr.keys[k] = instr.keys[l] => k = l

(* What a verifier accepts: every target is the start of an instruction,   *)
(* and the code is not left at its end.                                    *)
WellFormed(m) ==
  /\ Len(m.code) > 0
  /\ m.code \in Seq(Instruction(Len(m.code)))
  /\ m.code[Len(m.code)].op \in {"goto", "table", "lookup", "throw", "return"}
  /\ \A j \in 1..Len(m.code) : BranchFits(m.code, j) /\ SwitchFits(m.code[j])

ASSUME MethodAssumption == \A m \in Methods : WellFormed(m)

Pos(i) == layout[i]
codesz == Pos(Length + 1)

(* The instruction that starts at byte x; 0 when none does. *)
At(x) == IF \E i \in 1..Length : Pos(i) = x THEN CHOOSE i \in 1..Length : Pos(i) = x ELSE 0

(* The offset a compiler writes into the branch at i for the target t. *)
Offset(i, t) == Pos(t) - Pos(i)

-----------------------------------------------------------------------------
(* How the code reads what the compiler wrote.                             *)

(* Two bytes joined to an intptr, and the cast to int16 most branches make. *)
Unsigned16(v) == v % 65536
Signed16(v) == IF v % 65536 >= 32768 THEN (v % 65536) - 65536 ELSE v % 65536

(***************************************************************************)
(* nothl applied to an element of int32 *map: the last byte of the value   *)
(* is the first of the word in memory, x >> 24 is an arithmetic shift, and *)
(* a byte of 128 or more fills the 24 bits above it.                       *)
(***************************************************************************)
nothl(v) == IF v % 256 >= 128 THEN (v % 256) - 256 ELSE v

(* "fix for odd case": an offset from -256 to -1 is cut to its last byte. *)
TableOffset(v) == IF nothl(v) \in -256..-1 THEN nothl(v) % 256 ELSE nothl(v)

(* Wrong on purpose: the code starts where its block does. *)
codeUnaligned == base

(* The code starts at the first multiple of four in its block. *)
code == Align4(base)

(* Where the table of a switch at x is looked for, counted from the code. *)
MapAt(x) == Align4(code + x + 1) - code

-----------------------------------------------------------------------------
(* What is written in the manual, and the code has wrong: the instruction  *)
(* at i with the value v (where it looks at one), going to instruction t.  *)

(* Numbers that nothl does not read as they were written. *)
Misread(v) == v % 256 >= 128 /\ v \notin -128..-1

MisreadOffset(v) ==
  IF v < 0 THEN v >= -256 \/ Misread(v) ELSE v >= 256 /\ Misread(v)

(* The process has ended on its own account, or no longer follows the method. *)
Stopped == strayed \/ status \notin {"running", "returned"}

Java == INSTANCE JavaControl WITH
  todo <- IF Stopped THEN <<>> ELSE [d \in DOMAIN calls |-> At(calls[d])],
  locks <- IF Stopped THEN 0 ELSE lock,
  state <- IF Stopped THEN "stopped" ELSE status

WrongTable(i, v) ==
  \/ Misread(Instr(i).low) \/ Misread(Instr(i).low + Len(Instr(i).to) - 1)
  \/ MisreadOffset(Offset(i, Java!TableTarget(i, v)))

WrongLookup(i, v) ==
  \/ Len(Instr(i).keys) + Instr(i).more > 30
  \/ \E k \in DOMAIN Instr(i).keys : Misread(Instr(i).keys[k])
  \/ Misread(Offset(i, Java!LookupTarget(i, v)))

-----------------------------------------------------------------------------
Init ==
  /\ method \in Methods
  /\ layout = PositionsOf(method.code)
  /\ base \in Bases
  /\ calls = <<0>>
  /\ lock = 0
  /\ status = "running"
  /\ strayed = FALSE

depth == Len(calls)
x == calls[depth]
i == At(x)
Opcode(op) == status = "running" /\ Instr(i).op = op

(***************************************************************************)
(* x gets a new value.  The loop goes on while x < codesz, a comparison of *)
(* unsigned numbers, so that a negative x ends it too; a byte that is not  *)
(* the first of an instruction is decoded as if it were, and what comes of *)
(* that is not followed.                                                   *)
(***************************************************************************)
Continue(nx) ==
  /\ calls' = [calls EXCEPT ![depth] = nx]
  /\ status' = IF nx \notin 0..(codesz - 1) THEN "exit55"
               ELSE IF At(nx) = 0 THEN "wild" ELSE "running"

Strays(wrong) == strayed' = (strayed \/ wrong)

-----------------------------------------------------------------------------
Body ==
  /\ Opcode("body")
  /\ Continue(x + Instr(i).size)
  /\ UNCHANGED <<method, layout, base, lock, strayed>>

Nop ==
  /\ Opcode("nop")
  /\ Continue(x + 2)
  /\ Strays(TRUE)
  /\ UNCHANGED <<method, layout, base, lock>>

Goto ==
  /\ Opcode("goto")
  /\ Continue(x + Signed16(Offset(i, Instr(i).to)))
  /\ UNCHANGED <<method, layout, base, lock, strayed>>

(* if_icmpxx, ifle and the like, ifnull and ifnonnull. *)
If ==
  /\ Opcode("if")
  /\ \/ Continue(x + Signed16(Offset(i, Instr(i).to)))
     \/ Continue(x + 3)
  /\ UNCHANGED <<method, layout, base, lock, strayed>>

(* ifeq and ifne do not extend the sign of the offset. *)
Ifeq ==
  /\ Opcode("ifeq")
  /\ \/ /\ Continue(x + Unsigned16(Offset(i, Instr(i).to)))
        /\ Strays(Offset(i, Instr(i).to) < 0)
     \/ Continue(x + 3) /\ UNCHANGED strayed
  /\ UNCHANGED <<method, layout, base, lock>>

(* The table is not where the compiler wrote it, or has no such entry. *)
WildJump == status' = "wild" /\ UNCHANGED calls

TableSwitch(v) ==
  LET low == nothl(Instr(i).low)
      high == nothl(Instr(i).low + Len(Instr(i).to) - 1)
      entry == v - low + 1
      goto(t) == Continue(x + TableOffset(Offset(i, t)))
  IN  /\ Opcode("table")
      /\ IF MapAt(x) # Align4(x + 1) THEN WildJump
         ELSE IF v < low \/ v > high THEN goto(Instr(i).dflt)
         ELSE IF entry \in DOMAIN Instr(i).to THEN goto(Instr(i).to[entry])
         ELSE WildJump
      /\ Strays(WrongTable(i, v))
      /\ UNCHANGED <<method, layout, base, lock>>

(* The first of the pairs that is matched.  With more than thirty of them   *)
(* the code gives up.                                                      *)
LookupSwitch(v) ==
  LET npairs == nothl(Len(Instr(i).keys) + Instr(i).more)
      match == {k \in DOMAIN Instr(i).keys : k <= npairs /\ nothl(Instr(i).keys[k]) = v}
      goto(t) == Continue(x + nothl(Offset(i, t)))
  IN  /\ Opcode("lookup")
      /\ IF MapAt(x) # Align4(x + 1) THEN WildJump
         ELSE IF npairs > 30 THEN status' = "exit3" /\ UNCHANGED calls
         ELSE IF match # {}
           THEN goto(Instr(i).to[CHOOSE k \in match : \A j \in match : k <= j])
         ELSE goto(Instr(i).dflt)
      /\ Strays(WrongLookup(i, v))
      /\ UNCHANGED <<method, layout, base, lock>>

(* Wrong on purpose: the word is counted up, not tested. *)
MonitorEnterCounts ==
  /\ Opcode("enter")
  /\ lock' = lock + 1
  /\ Continue(x + 1)
  /\ UNCHANGED <<method, layout, base, strayed>>

(* monitorenter, when the word was 0; if not the opcode spins, see Spinning. *)
MonitorEnter ==
  /\ Opcode("enter")
  /\ lock = 0
  /\ lock' = 1
  /\ Continue(x + 1)
  /\ UNCHANGED <<method, layout, base, strayed>>

(* Wrong on purpose: the word is left as it is. *)
MonitorExitKeeps ==
  /\ Opcode("exit")
  /\ UNCHANGED lock
  /\ Continue(x + 1)
  /\ Strays(lock = 0)
  /\ UNCHANGED <<method, layout, base>>

MonitorExit ==
  /\ Opcode("exit")
  /\ lock' = 0
  /\ Continue(x + 1)
  /\ Strays(lock = 0)
  /\ UNCHANGED <<method, layout, base>>

(* Opcodes of three bytes that may fail, as new and getfield do, when they  *)
(* do not.                                                                 *)
Risky ==
  /\ Opcode("risky")
  /\ Continue(x + 3)
  /\ UNCHANGED <<method, layout, base, lock, strayed>>

(* Every error, and athrow, comes to exit(-3) at the head of the block that *)
(* would look for a handler.                                               *)
Error ==
  /\ Opcode("risky") \/ Opcode("throw") \/ Opcode("call")
  /\ status' = "exit3"
  /\ UNCHANGED <<method, layout, base, calls, lock, strayed>>

Invoke ==
  /\ Opcode("call")
  /\ IF depth < MaxDepth
       THEN calls' = Append(calls, 0) /\ UNCHANGED status
       ELSE status' = "overflow" /\ UNCHANGED calls
  /\ UNCHANGED <<method, layout, base, lock, strayed>>

(* Wrong on purpose: the caller does not go past the invoke. *)
ReturnToInvoke ==
  /\ Opcode("return")
  /\ IF depth = 1
       THEN status' = "returned" /\ UNCHANGED calls
       ELSE calls' = Front(calls) /\ UNCHANGED status
  /\ UNCHANGED <<method, layout, base, lock, strayed>>

(* Back in the invoke of the caller, which ends with x += 3. *)
Return ==
  /\ Opcode("return")
  /\ IF depth = 1
       THEN status' = "returned" /\ UNCHANGED calls
       ELSE /\ calls' = [Front(calls) EXCEPT ![depth - 1] = @ + 3]
            /\ UNCHANGED status
  /\ UNCHANGED <<method, layout, base, lock, strayed>>

(* jvm_MutexAquire waits for the word to be 0, and there is one thread. *)
Spinning == Opcode("enter") /\ lock = 1

Decode ==
  \/ Body \/ Nop \/ Goto \/ If \/ Ifeq
  \/ \E v \in Operands : TableSwitch(v) \/ LookupSwitch(v)
  \/ MonitorEnter \/ MonitorExit
  \/ Risky \/ Error \/ Invoke \/ Return

Rest == (Spinning \/ status # "running") /\ UNCHANGED vars

Next == Decode \/ Rest

Spec == Init /\ [][Next]_vars

(* The process is not stopped from outside. *)
FairSpec == Spec /\ WF_vars(Decode)

-----------------------------------------------------------------------------
TypeOK ==
  /\ layout = PositionsOf(method.code) /\ base \in Bases
  /\ calls \in Seq(Int) /\ depth \in 1..MaxDepth
  /\ status = "running" => \A d \in 1..depth : At(calls[d]) # 0
  /\ lock \in 0..1
  /\ status \in {"running", "returned", "exit3", "exit55", "wild", "overflow"}
  /\ strayed \in BOOLEAN

(***************************************************************************)
(* Where an instruction is not one of those listed above as wrong, the     *)
(* opcodes that set x (exec.c:245 to 1595) go on with the instruction the  *)
(* manual says, at any distance, from any call, or the process ends.       *)
(***************************************************************************)
ImplementsJava == Java!JavaSpec

(***************************************************************************)
(* exec.c:1738 "we never should make it here": the loop is not left at its *)
(* end, and no byte is decoded that starts no instruction, unless an       *)
(* instruction was executed that is listed above.                          *)
(***************************************************************************)
LoopNeverLeft == status \in {"exit55", "wild"} => strayed

(* The instructions that can go to another one than the next. *)
Branches(j) ==
  CASE Instr(j).op \in {"goto", "if", "ifeq"} -> {Instr(j).to}
    [] Instr(j).op \in {"table", "lookup"} -> ToSet(Instr(j).to) \cup {Instr(j).dflt}
    [] OTHER -> {}

Is(j, op) == Instr(j).op = op

(* No branch goes back; no second monitorenter comes without a monitorexit  *)
(* before it, on any way through the method.                               *)
Forward ==
  /\ \A j \in 1..Length : \A t \in Branches(j) : t > j
  /\ \A j, t \in 1..Length :
       t \in Branches(j) => \A k \in (j + 1)..(t - 1) : ~Is(k, "exit")
  /\ \A j, k \in 1..Length :
       j < k /\ Is(j, "enter") /\ Is(k, "enter") => \E l \in j..k : Is(l, "exit")
  /\ (\E j \in 1..Length : Is(j, "enter")) => \A j \in 1..Length : ~Is(j, "call")

(***************************************************************************)
(* A method that only goes forward, and leaves a monitor before it enters  *)
(* it again, comes to an end: neither the offsets of the switches          *)
(* (exec.c:1346, 1386) nor the wait for a monitor (exec.c:334) keep it.    *)
(***************************************************************************)
ForwardEnds == Forward ~> (status # "running" \/ strayed)

(***************************************************************************)
(* exec.c:1697 "now we need to check if there is an exception handler      *)
(* which can take control or if not we will pass it down": an error for    *)
(* which a call under way has a handler does not end the process.          *)
(***************************************************************************)
Caught ==
  [][status' = "exit3" /\ ~strayed' =>
       \A d \in 1..depth : ~Java!Catches(At(calls[d]))]_vars
=============================================================================
