------------------------------ MODULE MCRMalloc ------------------------------
(* The instances of RMalloc that TLC explores. *)
EXTENDS RMalloc

(* One chunk in which headers beyond the first part are seen, and two. *)
OneChunk == <<110>>
TwoChunks == <<78, 66>>
=============================================================================
