----------------------------- MODULE MCIntSlots -----------------------------
(* The instance of IntSlots that TLC explores. *)
EXTENDS IntSlots, TLC

(* The places are interchangeable. *)
Symmetry == Permutations(Reg)
=============================================================================
