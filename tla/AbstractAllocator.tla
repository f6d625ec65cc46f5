-------------------------- MODULE AbstractAllocator --------------------------
(***************************************************************************)
(* What an allocator promises to its callers, and what malloctestproxy.py  *)
(* tests of this one (lines 100 to 109): a block that is handed out lies   *)
(* in memory that was given to the allocator, and no byte of it belongs to *)
(* a block that was handed out before and is not free again.               *)
(***************************************************************************)
EXTENDS Integers

CONSTANTS
  Given, \* Given[c]: the number of bytes of the chunk c
  Sizes  \* the sizes callers ask for

VARIABLE live \* the blocks that are in use: [chunk, addr, len]

Block == [chunk : DOMAIN Given, addr : Nat, len : Sizes]

(* Two blocks have a byte in common. *)
Overlap(b, d) ==
  /\ b.chunk = d.chunk
  /\ b.addr < d.addr + d.len
  /\ d.addr < b.addr + b.len

AbsInit == live = {}

Alloc(b) ==
  /\ b.addr + b.len <= Given[b.chunk]
  /\ \A d \in live : ~Overlap(b, d)
  /\ live' = live \cup {b}

Free(b) == live' = live \ {b}

AbsNext ==
  \/ \E b \in live : Free(b)
  \/ \E b \in live' : b \in Block /\ Alloc(b)

AbsSpec == AbsInit /\ [][AbsNext]_live
=============================================================================
