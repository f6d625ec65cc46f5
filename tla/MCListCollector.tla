--------------------------- MODULE MCListCollector ---------------------------
(* The instances of ListCollector that TLC explores. *)
EXTENDS ListCollector, TLC
=============================================================================
