---------------------------- MODULE MCInterpreter ----------------------------
(* The instances of Interpreter that TLC explores. *)
EXTENDS Interpreter, TLC, FiniteSetsExt

CONSTANTS MaxSize, MaxCallSize

(* Addresses are interchangeable, and so are slots. *)
Symmetry == Permutations(Obj) \cup Permutations(Slot)

(* The objects and operands there are. *)
SizeOfState ==
  Cardinality(chain) + MapThenSumSet(LAMBDA d : Len(frames[d].stack), DOMAIN frames)

(* A method was called, or local 0 is not as the machine set it. *)
Calling ==
  \E d \in DOMAIN frames : d > 1 \/ \E i \in Local : frames[d].locals[i] \notin {o \in Obj : hold[o]}

Small == SizeOfState <= IF Calling THEN MaxCallSize ELSE MaxSize
=============================================================================
