---------------------------- MODULE MCManagedHeap ----------------------------
(* The instances of ManagedHeap that TLC explores. *)
EXTENDS ManagedHeap, TLC

(* Addresses are interchangeable, and so are slots. *)
Symmetry == Permutations(Obj) \cup Permutations(Slot)
=============================================================================
