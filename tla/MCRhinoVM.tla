------------------------------ MODULE MCRhinoVM ------------------------------
(* The instances of RhinoVM that TLC explores. *)
EXTENDS RhinoVM, TLC

(* Addresses are interchangeable, and so are slots. *)
Symmetry == Permutations(Obj) \cup Permutations(Slot)
=============================================================================
