------------------------------- MODULE RMalloc -------------------------------
(***************************************************************************)
(* The allocator of src/src/rmalloc.c, with INTERNALMALLOC_BUFCHK as       *)
(* src/inc/conf.h has it.  Every chunk of memory given to it starts with a *)
(* chunk header; parts follow, each with a header of its own that holds    *)
(* its size and whether it is used.  jvm_m_malloc walks the parts of one   *)
(* chunk after the other, first to check the signature at the end of each  *)
(* used part, then to find the first run of free parts that is large       *)
(* enough, which it makes one part, or two.  One action is one round of    *)
(* one of these loops.                                                     *)
(*                                                                         *)
(* Addresses are offsets in a chunk.  fas[c] has in its domain the offsets *)
(* where a part header was written and not been overwritten since; sigs[c] *)
(* likewise for signatures.  The walk itself only goes by the sizes it     *)
(* reads.                                                                  *)
(***************************************************************************)
EXTENDS Integers, Sequences

CONSTANTS
  Given,  \* the chunks in the order of the list, by the size that was given
  Sizes,  \* the sizes callers ask for
  ChHdr,  \* sizeof(JVM_M_CH): 24
  PtHdr,  \* sizeof(JVM_M_PT): 4
  SigLen  \* the bytes of a signature: 4

ASSUME AllocAssumption ==
  /\ ChHdr \in Nat \ {0} /\ PtHdr \in Nat \ {0} /\ SigLen \in Nat \ {0}
  /\ Sizes \subseteq Nat \ {0}
  /\ Given \in Seq(Nat)
  /\ \A c \in DOMAIN Given : Given[c] > 2 * (ChHdr + PtHdr)

VARIABLES
  fas,    \* JVM_M_PT.fas of every part header
  sigs,   \* where a signature is intact
  live,   \* history: the blocks callers have: [chunk, addr, len]
  pc,     \* where jvm_m_malloc is
  size,   \* its argument, with the signature
  ch,     \* its variable ch: the position of the chunk in the list
  pt,     \* its variable pt
  start,  \* its variable _pt: the first part of a run of free ones, or 0
  rtotal  \* its variable rtotal: the bytes in that run

memory == <<fas, sigs, live>>
cursor == <<pc, size, ch, pt, start, rtotal>>
vars == <<memory, cursor>>

Part == [used : BOOLEAN, size : Nat]

TypeOK ==
  /\ \A c \in DOMAIN Given :
       /\ DOMAIN fas[c] \subseteq 0..Given[c]
       /\ \A h \in DOMAIN fas[c] : fas[c][h] \in Part
       /\ sigs[c] \subseteq 0..Given[c]
  /\ live \subseteq [chunk : DOMAIN Given, addr : Nat, len : Sizes]
  /\ pc \in {"idle", "chunk", "check", "scan", "corrupt", "wild"}
  /\ ch \in 1..(Len(Given) + 1)
  /\ size \in Nat /\ pt \in Nat /\ start \in Nat /\ rtotal \in Int

(* ch->size and ch->free, which are never changed. *)
ChunkSize(c) == Given[c] - ChHdr
ChunkFree(c) == Given[c] - ChHdr - PtHdr

(* jvm_m_give has been called for every chunk. *)
Init ==
  /\ fas = [c \in DOMAIN Given |->
              [h \in {ChHdr} |-> [used |-> FALSE, size |-> ChunkFree(c)]]]
  /\ sigs = [c \in DOMAIN Given |-> {}]
  /\ live = {}
  /\ pc = "idle"
  /\ size = 0 /\ ch = 1 /\ pt = 0 /\ start = 0 /\ rtotal = 0

-----------------------------------------------------------------------------
(* Memory. *)

(* The l bytes at a and the m bytes at b have one in common. *)
Meet(a, l, b, m) == a < b + m /\ b < a + l

(* The headers, and the signatures, that are left of the chunk c when the l *)
(* bytes at a get other contents.                                          *)
HeadersOutside(c, a, l) == {h \in DOMAIN fas[c] : ~Meet(h, PtHdr, a, l)}
SigsOutside(c, a, l) == {g \in sigs[c] : ~Meet(g, SigLen, a, l)}

(* The part at h of the current chunk. *)
Header(h) == fas[ch][h]
Next(h) == h + Header(h).size + PtHdr

(* The loops go on. *)
Inside(h) == h < ChunkSize(ch)
Written(h) == h \in DOMAIN fas[ch]

(* Wrong on purpose: the size is counted from the header. *)
SigAtHeader(h) == h + Header(h).size - SigLen

SigAt(h) == h + PtHdr + Header(h).size - SigLen

-----------------------------------------------------------------------------
(* jvm_m_malloc. *)

(* The call is over, and its variables are gone. *)
Returned ==
  /\ pc' = "idle"
  /\ size' = 0 /\ ch' = 1 /\ pt' = 0 /\ start' = 0 /\ rtotal' = 0

(* A caller asks for n bytes. *)
Request(n) ==
  /\ pc = "idle"
  /\ size' = n + SigLen
  /\ ch' = 1
  /\ pc' = "chunk"
  /\ UNCHANGED <<memory, pt, start, rtotal>>

Enter ==
  /\ pc = "chunk"
  /\ ch \in DOMAIN Given
  /\ ChunkFree(ch) >= size
  /\ pt' = ChHdr
  /\ start' = 0
  /\ pc' = "check"
  /\ UNCHANGED <<memory, size, ch, rtotal>>

PassBy ==
  /\ pc = "chunk"
  /\ ch \in DOMAIN Given
  /\ ChunkFree(ch) < size
  /\ ch' = ch + 1
  /\ UNCHANGED <<memory, pc, size, pt, start, rtotal>>

(* No chunk is left: the caller gets 0. *)
OutOfMemory ==
  /\ pc = "chunk"
  /\ ch \notin DOMAIN Given
  /\ Returned
  /\ UNCHANGED memory

(* The corruption checker: the process exits when a signature is not there, *)
(* and nobody knows what it does where no header was written.              *)
Check ==
  /\ pc = "check"
  /\ Inside(pt)
  /\ IF ~Written(pt) THEN pc' = "wild" /\ UNCHANGED pt
     ELSE IF Header(pt).used /\ SigAt(pt) \notin sigs[ch]
          THEN pc' = "corrupt" /\ UNCHANGED pt
          ELSE pt' = Next(pt) /\ UNCHANGED pc
  /\ UNCHANGED <<memory, size, ch, start, rtotal>>

(* The corruption checker is through. *)
Checked ==
  /\ pc = "check"
  /\ ~Inside(pt)
  /\ pt' = ChHdr
  /\ rtotal' = -PtHdr
  /\ pc' = "scan"
  /\ UNCHANGED <<memory, size, ch, start>>

(* The search reads the headers that the checker has read. *)

(* Wrong on purpose: a used part does not end the run of free ones. *)
ScanUsedKeeps ==
  /\ pc = "scan"
  /\ Inside(pt)
  /\ Header(pt).used
  /\ pt' = Next(pt)
  /\ UNCHANGED <<memory, pc, size, ch, start, rtotal>>

(* A used part ends a run of free ones. *)
ScanUsed ==
  /\ pc = "scan"
  /\ Inside(pt)
  /\ Header(pt).used
  /\ rtotal' = -PtHdr
  /\ start' = 0
  /\ pt' = Next(pt)
  /\ UNCHANGED <<memory, pc, size, ch>>

(* The run of free parts, with the part at pt in it. *)
RunStart == IF start = 0 THEN pt ELSE start
RunTotal == rtotal + Header(pt).size + PtHdr

AtFreePart == pc = "scan" /\ Inside(pt) /\ ~Header(pt).used

ScanFree ==
  /\ AtFreePart
  /\ RunTotal < size
  /\ rtotal' = RunTotal
  /\ start' = RunStart
  /\ pt' = Next(pt)
  /\ UNCHANGED <<memory, pc, size, ch>>

(* The part at h is used from now on, has z bytes, and goes to the caller; *)
(* the headers in new are written too.                                     *)
Grant(h, z, new) ==
  LET heads == {h} \cup DOMAIN new
      kept == HeadersOutside(ch, h, PtHdr + z) \ heads
  IN  /\ fas' = [fas EXCEPT ![ch] =
             [g \in kept \cup heads |->
                IF g = h THEN [used |-> TRUE, size |-> z]
                ELSE IF g \in DOMAIN new THEN new[g] ELSE fas[ch][g]]]
      /\ sigs' = [sigs EXCEPT ![ch] =
             {g \in @ : \A k \in heads : ~Meet(g, SigLen, k, PtHdr)}
               \cup {h + PtHdr + z - SigLen}]
      /\ live' = live \cup
             {[chunk |-> ch, addr |-> h + PtHdr, len |-> size - SigLen]}
      /\ Returned

(* Wrong on purpose: the header of the part that is left is not taken off. *)
SplitNoHeader ==
  /\ AtFreePart
  /\ RunTotal - size > 2 * PtHdr
  /\ LET rest == RunStart + PtHdr + size
     IN  Grant(RunStart, size,
               [g \in {rest} |-> [used |-> FALSE, size |-> RunTotal - size]])

(* Wrong on purpose: a part is left even when its header does not fit. *)
SplitAlways ==
  /\ AtFreePart
  /\ RunTotal > size
  /\ LET rest == RunStart + PtHdr + size
     IN  Grant(RunStart, size,
               [g \in {rest} |-> [used |-> FALSE, size |-> RunTotal - size - PtHdr]])

(* The run is more than large enough: what is left of it is a part. *)
Split ==
  /\ AtFreePart
  /\ RunTotal - size > 2 * PtHdr
  /\ LET rest == RunStart + PtHdr + size
     IN  Grant(RunStart, size,
               [g \in {rest} |-> [used |-> FALSE, size |-> RunTotal - size - PtHdr]])

(* The run is large enough, and used as a whole. *)
Whole ==
  /\ AtFreePart
  /\ RunTotal >= size
  /\ RunTotal - size <= 2 * PtHdr
  /\ Grant(RunStart, RunTotal, [g \in {} |-> 0])

(* Wrong on purpose: the chunks after this one are not tried. *)
LeaveAll ==
  /\ pc = "scan"
  /\ ~Inside(pt)
  /\ ch' = Len(Given) + 1
  /\ pc' = "chunk"
  /\ UNCHANGED <<memory, size, pt, start, rtotal>>

(* Wrong on purpose: the same chunk is tried again. *)
LeaveNot ==
  /\ pc = "scan"
  /\ ~Inside(pt)
  /\ pc' = "chunk"
  /\ UNCHANGED <<memory, size, ch, pt, start, rtotal>>

(* The chunk has no such run. *)
Leave ==
  /\ pc = "scan"
  /\ ~Inside(pt)
  /\ ch' = ch + 1
  /\ pc' = "chunk"
  /\ UNCHANGED <<memory, size, pt, start, rtotal>>

-----------------------------------------------------------------------------
(* The other operations. *)

(* Wrong on purpose: the part stays used. *)
FreeNothing(b) ==
  /\ pc = "idle"
  /\ live' = live \ {b}
  /\ UNCHANGED <<fas, sigs, cursor>>

(* jvm_m_free: parts are not joined here, but by the next scan.  The bytes  *)
(* of the signature stay, but a part that is used again gets a new one, so *)
(* they are not remembered.                                                *)
Free(b) ==
  LET h == b.addr - PtHdr
  IN  /\ pc = "idle"
      /\ live' = live \ {b}
      /\ IF h \in DOMAIN fas[b.chunk]
         THEN /\ fas' = [fas EXCEPT ![b.chunk][h].used = FALSE]
              /\ sigs' = [sigs EXCEPT ![b.chunk] =
                   @ \ {h + PtHdr + fas[b.chunk][h].size - SigLen}]
              /\ UNCHANGED pc
         ELSE pc' = "wild" /\ UNCHANGED <<fas, sigs>>
      /\ UNCHANGED <<size, ch, pt, start, rtotal>>

(* A caller writes the bytes it asked for. *)
Write(b) ==
  /\ pc = "idle"
  /\ fas' = [fas EXCEPT ![b.chunk] =
       [h \in HeadersOutside(b.chunk, b.addr, b.len) |-> @[h]]]
  /\ sigs' = [sigs EXCEPT ![b.chunk] = SigsOutside(b.chunk, b.addr, b.len)]
  /\ UNCHANGED <<live, cursor>>

Malloc ==
  \/ Enter \/ PassBy \/ OutOfMemory
  \/ Check \/ Checked
  \/ ScanUsed \/ ScanFree \/ Split \/ Whole \/ Leave

(* No caller calls, or the process is gone. *)
NoCall == pc \in {"idle", "corrupt", "wild"} /\ UNCHANGED vars

MallocNext ==
  \/ \E n \in Sizes : Request(n)
  \/ Malloc
  \/ \E b \in live : Free(b) \/ Write(b)
  \/ NoCall

Spec == Init /\ [][MallocNext]_vars

(* jvm_m_malloc runs until it returns. *)
FairSpec == Spec /\ WF_vars(Malloc)

-----------------------------------------------------------------------------
(***************************************************************************)
(* The walk over a chunk only ever reads headers, never the bytes of a     *)
(* block, and the signature at the end of a used part is still there: the  *)
(* corruption checker (rmalloc.c:91) stops the process for no caller that  *)
(* keeps to the bytes it asked for.                                        *)
(***************************************************************************)
NoFalseAlarm == pc \notin {"wild", "corrupt"}

(***************************************************************************)
(* The parts of a chunk follow each other without a gap up to its end, so  *)
(* that splitting, using as a whole and joining lose and invent no byte.   *)
(***************************************************************************)
Tiled ==
  \A c \in DOMAIN Given : \A h \in DOMAIN fas[c] :
    LET end == h + PtHdr + fas[c][h].size
    IN  /\ end = Given[c] \/ end \in DOMAIN fas[c]
        /\ \A g \in DOMAIN fas[c] : g <= h \/ g >= end

(***************************************************************************)
(* Every block that a caller has lies in a part of its own that is used,   *)
(* and no other part is used, so nothing that was freed stays in use.      *)
(***************************************************************************)
UsedIsLive ==
  \A c \in DOMAIN Given :
    {h \in DOMAIN fas[c] : fas[c][h].used}
      = {b.addr - PtHdr : b \in {d \in live : d.chunk = c}}

(* The blocks handed out, seen as those of the abstract allocator. *)
Abstract == INSTANCE AbstractAllocator

(***************************************************************************)
(* The allocator keeps the promise of AbstractAllocator: whatever is asked *)
(* for and freed in whatever order, a new block shares no byte with one in *)
(* use (malloctestproxy.py:103).                                           *)
(***************************************************************************)
ImplementsAllocator == Abstract!AbsSpec

(* The free bytes between the headers h and g, both of chunk c, h first,    *)
(* when they and all the parts between them are free.                      *)
FreeRun(c, h, g) ==
  IF \A k \in DOMAIN fas[c] : h <= k /\ k <= g => ~fas[c][k].used
  THEN g + fas[c][g].size - h ELSE 0

(***************************************************************************)
(* A request gets 0 only when no run of free parts that the scan can see   *)
(* is large enough: nothing is left out for the state the last request or  *)
(* free left behind (rmalloc.c:109).  Of what it cannot see, because the   *)
(* loop at rmalloc.c:103 ends before the chunk does, there is never more   *)
(* than the size of a chunk header: no run at all is larger than the       *)
(* request by that much.                                                   *)
(***************************************************************************)
RefusedOnlyWhenFull ==
  [][OutOfMemory =>
       \A c \in DOMAIN Given : \A h, g \in DOMAIN fas[c] : h <= g =>
         /\ g < ChunkSize(c) => FreeRun(c, h, g) < size
         /\ FreeRun(c, h, g) < size + ChHdr]_vars

(***************************************************************************)
(* A request is answered: the loops over chunks and parts end.             *)
(***************************************************************************)
MallocReturns == pc \in {"chunk", "check", "scan"} ~> pc = "idle"

-----------------------------------------------------------------------------
(***************************************************************************)
(* rmalloc.c:79 means the walk to end at the end of the chunk ("make sure  *)
(* we have not gone past end of chunk"): a request that a run of free      *)
(* parts up to that end could serve does not get 0.                        *)
(***************************************************************************)
ServedToTheEnd ==
  [][OutOfMemory =>
       \A c \in DOMAIN Given : \A h, g \in DOMAIN fas[c] :
         h <= g => FreeRun(c, h, g) < size]_vars
=============================================================================
