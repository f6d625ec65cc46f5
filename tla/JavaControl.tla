----------------------------- MODULE JavaControl -----------------------------
(***************************************************************************)
(* What the instruction set promises about where a method goes next: a     *)
(* method is a sequence of instructions, named by their indices, and only  *)
(* the instruction, the value it looks at and the table of exceptions      *)
(* decide on the one that follows.  There are no bytes here.  The machine  *)
(* may stop at any time (it may run out of something), but it never goes   *)
(* on with an instruction that is not the next one.                        *)
(*                                                                         *)
(* All calls are of the method itself and there is one object to lock,     *)
(* with a lock that its holder may take again.                             *)
(***************************************************************************)
EXTENDS Integers, Sequences

CONSTANT Operands \* the values that a switch may be given

VARIABLES
  method, \* the method: its code, and what it catches where
  todo,   \* for each call under way, innermost last: the instruction to do
  locks,  \* how many times the lock is held
  state   \* "running", "returned" or "stopped"

javaVars == <<method, todo, locks, state>>

Instr(i) == method.code[i]

(* Where a switch at i goes for the value v. *)
TableTarget(i, v) ==
  LET k == v - Instr(i).low + 1
  IN  IF k \in DOMAIN Instr(i).to THEN Instr(i).to[k] ELSE Instr(i).dflt

LookupTarget(i, v) ==
  IF \E k \in DOMAIN Instr(i).keys : Instr(i).keys[k] = v
    THEN Instr(i).to[CHOOSE k \in DOMAIN Instr(i).keys : Instr(i).keys[k] = v]
    ELSE Instr(i).dflt

(* The instructions that may follow i in the same call. *)
Successors(i) ==
  CASE Instr(i).op \in {"body", "nop", "risky", "enter", "exit", "call"} -> {i + 1}
    [] Instr(i).op = "goto" -> {Instr(i).to}
    [] Instr(i).op \in {"if", "ifeq"} -> {Instr(i).to, i + 1}
    [] Instr(i).op = "table" -> {TableTarget(i, v) : v \in Operands}
    [] Instr(i).op = "lookup" -> {LookupTarget(i, v) : v \in Operands}
    [] Instr(i).op \in {"throw", "return"} -> {}

Depth == Len(todo)
Current == todo[Depth]
Caller == SubSeq(todo, 1, Depth - 1)

(* Whether an exception at instruction i is caught by the method. *)
Catches(i) == method.handler # 0 /\ i \in method.covered

-----------------------------------------------------------------------------
Go ==
  /\ Instr(Current).op \notin {"call", "enter", "exit"}
  /\ \E j \in Successors(Current) : todo' = [todo EXCEPT ![Depth] = j]
  /\ UNCHANGED <<method, locks, state>>

Enter ==
  /\ Instr(Current).op = "enter"
  /\ locks' = locks + 1
  /\ todo' = [todo EXCEPT ![Depth] = @ + 1]
  /\ UNCHANGED <<method, state>>

Leave ==
  /\ Instr(Current).op = "exit"
  /\ locks > 0
  /\ locks' = locks - 1
  /\ todo' = [todo EXCEPT ![Depth] = @ + 1]
  /\ UNCHANGED <<method, state>>

Call ==
  /\ Instr(Current).op = "call"
  /\ todo' = Append(todo, 1)
  /\ UNCHANGED <<method, locks, state>>

Return ==
  /\ Instr(Current).op = "return"
  /\ IF Depth = 1
       THEN /\ state' = "returned" /\ UNCHANGED todo
       ELSE /\ todo' = [Caller EXCEPT ![Depth - 1] = @ + 1] /\ UNCHANGED state
  /\ UNCHANGED <<method, locks>>

(* An exception goes to the innermost call that catches it. *)
Throw ==
  /\ Instr(Current).op \in {"throw", "risky"}
  /\ \E d \in 1..Depth :
       /\ Catches(todo[d])
       /\ \A e \in (d + 1)..Depth : ~Catches(todo[e])
       /\ todo' = Append(SubSeq(todo, 1, d - 1), method.handler)
  /\ UNCHANGED <<method, locks, state>>

(* Nothing is to be done any more. *)
Stop == state' = "stopped" /\ todo' = <<>> /\ locks' = 0 /\ UNCHANGED method

JavaInit ==
  /\ todo = <<1>>
  /\ locks = 0
  /\ state = "running"

JavaNext ==
  /\ state = "running"
  /\ Go \/ Enter \/ Leave \/ Call \/ Return \/ Throw \/ Stop

JavaSpec == JavaInit /\ [][JavaNext]_javaVars
=============================================================================
