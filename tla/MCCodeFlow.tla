----------------------------- MODULE MCCodeFlow -----------------------------
(* The methods that TLC runs. *)
EXTENDS CodeFlow

CONSTANTS
  Sizes,   \* the lengths of runs of bytes
  Tables,  \* the lowest keys of a tableswitch
  Keys,    \* the keys of a lookupswitch, as sequences
  More,    \* how many pairs a lookupswitch has that no operand matches
  Items    \* how many instructions a method has before its return

Simple == {[op |-> o] : o \in {"nop", "risky", "throw", "enter", "exit", "call", "return"}}
Bodies == {[op |-> "body", size |-> s] : s \in Sizes}
To(n, ops) == {[op |-> o, to |-> t] : o \in ops, t \in 1..(n + 1)}

Plain(n) == Simple \cup Bodies \cup To(n, {"goto", "if", "ifeq"})

Switches(n) ==
  {[op |-> "table", low |-> l, to |-> <<t, n + 1>>, dflt |-> d] :
     l \in Tables, t \in 1..(n + 1), d \in {1, n, n + 1}}
  \cup {[op |-> "lookup", keys |-> k, to |-> [j \in DOMAIN k |-> t], more |-> m, dflt |-> d] :
     k \in Keys, t \in 1..(n + 1), m \in More, d \in {1, n, n + 1}}

(* What a switch has around it: bytes to reach over, and a way back to it. *)
Around(n, l) == [1..l -> Bodies \cup To(n, {"if"})]

(* A method ends in a return; one with a switch has one switch. *)
Codes(n) ==
  {Append(c, [op |-> "return"]) : c \in [1..n -> Plain(n)]}
  \cup UNION {{a \o <<s>> \o b \o <<[op |-> "return"]>> :
                 a \in Around(n, k - 1), b \in Around(n, n - k), s \in Switches(n)} :
               k \in 1..n}

(* What it catches, if there is something to catch, ends at the handler. *)
Fails(c) == \E k \in DOMAIN c : c[k].op \in {"risky", "throw", "call"}

MCMethods ==
  {[code |-> c, handler |-> IF Fails(c) THEN Items + 1 ELSE 0,
    covered |-> IF Fails(c) THEN 1..Items ELSE {}] : c \in Codes(Items)}

MCOperands == {-100, -56, 0, 1, 5, 127, 200}
MCTables == {-1, 127, 255}
MCKeys == {<<-56>>, <<5, 200>>}
MCMore == {0, 30, 128}
=============================================================================
