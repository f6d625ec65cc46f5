--------------------------- MODULE RMallocProofs ---------------------------
(***************************************************************************)
(* Proofs about the internal allocator, for every list of chunks, every    *)
(* size of a request and every size of the headers.                        *)
(***************************************************************************)
EXTENDS RMalloc, FiniteSetTheorems, TLAPS

(* The first byte after the part at h of the chunk c. *)
End(c, h) == h + PtHdr + fas[c][h].size

(* Where the signature of that part is, if it is used. *)
Sig(c, h) == End(c, h) - SigLen

(* The headers of a chunk lie in it, and the parts tile it. *)
PartsTile ==
  \A c \in DOMAIN Given :
    /\ ChHdr \in DOMAIN fas[c]
    /\ \A h \in DOMAIN fas[c] :
         /\ h \in Nat /\ ChHdr <= h
         /\ fas[c][h].size \in Nat
         /\ End(c, h) = Given[c] \/ End(c, h) \in DOMAIN fas[c]
         /\ End(c, h) <= Given[c]
         /\ \A g \in DOMAIN fas[c] : g <= h \/ g >= End(c, h)

(* Every used part has room for its signature, and has it. *)
PartsSigned ==
  \A c \in DOMAIN Given : \A h \in DOMAIN fas[c] :
    fas[c][h].used => fas[c][h].size >= SigLen /\ Sig(c, h) \in sigs[c]

(* Blocks and used parts belong together, one to one, with room for the     *)
(* signature behind the block.                                             *)
BlocksInParts ==
  /\ \A b \in live :
       /\ b \in [chunk : DOMAIN Given, addr : Nat, len : Sizes]
       /\ b.addr - PtHdr \in DOMAIN fas[b.chunk]
       /\ fas[b.chunk][b.addr - PtHdr].used
       /\ b.len + SigLen <= fas[b.chunk][b.addr - PtHdr].size
  /\ \A a, b \in live : a.chunk = b.chunk /\ a.addr = b.addr => a = b
  /\ \A c \in DOMAIN Given : \A h \in DOMAIN fas[c] :
       fas[c][h].used => \E b \in live : b.chunk = c /\ b.addr = h + PtHdr

(* The signatures lie in the chunk. *)
SigsInChunk ==
  \A c \in DOMAIN Given : \A g \in sigs[c] : g \in Nat /\ g <= Given[c]

(* The walk stands on a part or at the end of the chunk. *)
OnPart == ch \in DOMAIN Given /\ (pt = Given[ch] \/ pt \in DOMAIN fas[ch])

(* start and rtotal describe the run of free parts that ends before pt; it  *)
(* is too small yet.                                                       *)
RunBefore ==
  /\ rtotal < size
  /\ start = 0 => rtotal = -PtHdr
  /\ start # 0 =>
       /\ start \in DOMAIN fas[ch] /\ start < pt
       /\ rtotal = pt - start - PtHdr
       /\ \A h \in DOMAIN fas[ch] : start <= h /\ h < pt => ~fas[ch][h].used

CursorSound ==
  /\ pc \in {"idle", "chunk", "check", "scan"}
  /\ ch \in 1..(Len(Given) + 1)
  /\ size \in Nat /\ pt \in Nat /\ start \in Nat /\ rtotal \in Int
  /\ pc # "idle" => size - SigLen \in Sizes
  /\ pc = "check" => OnPart /\ start = 0
  /\ pc = "scan" => OnPart /\ RunBefore

Shape ==
  /\ DOMAIN fas = DOMAIN Given
  /\ DOMAIN sigs = DOMAIN Given

AllocInv ==
  /\ Shape
  /\ PartsTile
  /\ PartsSigned
  /\ BlocksInParts
  /\ SigsInChunk
  /\ CursorSound

-----------------------------------------------------------------------------
(* The walk over the parts. *)

LEMMA ChunkFacts ==
  ASSUME NEW c \in DOMAIN Given
  PROVE  /\ Given[c] \in Nat
         /\ ChunkSize(c) \in Int /\ ChunkSize(c) < Given[c]
         /\ ChunkFree(c) \in Nat /\ ChHdr + PtHdr + ChunkFree(c) = Given[c]
<1>1. Given[c] \in Nat /\ Given[c] > 2 * (ChHdr + PtHdr)
  BY AllocAssumption
<1>2. QED
  BY <1>1, AllocAssumption DEF ChunkSize, ChunkFree

LEMMA AllocInitially == Init => AllocInv
<1> SUFFICES ASSUME Init PROVE AllocInv
  OBVIOUS
<1>1. Shape
  BY DEF Init, Shape
<1>2. ASSUME NEW c \in DOMAIN Given
      PROVE  DOMAIN fas[c] = {ChHdr} /\ fas[c][ChHdr].size = ChunkFree(c)
  BY <1>2 DEF Init
<1>3. ASSUME NEW c \in DOMAIN Given
      PROVE  sigs[c] = {} /\ ~fas[c][ChHdr].used
  BY <1>3 DEF Init
<1>4. PartsTile
  <2>1. ASSUME NEW c \in DOMAIN Given
        PROVE  Given[c] \in Nat /\ ChunkFree(c) \in Nat /\ End(c, ChHdr) = Given[c]
    BY <1>2, <2>1, ChunkFacts, AllocAssumption DEF End
  <2>2. ASSUME NEW c \in DOMAIN Given, NEW h \in DOMAIN fas[c]
        PROVE  h = ChHdr
    BY <1>2, <2>2
  <2>3. ChHdr \in Nat
    BY AllocAssumption
  <2>4. SUFFICES ASSUME NEW c \in DOMAIN Given
                 PROVE  /\ ChHdr \in DOMAIN fas[c]
                        /\ \A h \in DOMAIN fas[c] :
                             /\ h \in Nat /\ ChHdr <= h
                             /\ fas[c][h].size \in Nat
                             /\ End(c, h) = Given[c] /\ End(c, h) <= Given[c]
                             /\ \A g \in DOMAIN fas[c] : g <= h
    BY Zenon DEF PartsTile
  <2>5. QED
    BY <1>2, <2>1, <2>2, <2>3
<1>5. PartsSigned /\ BlocksInParts /\ SigsInChunk
  BY <1>2, <1>3 DEF Init, PartsSigned, BlocksInParts, SigsInChunk
<1>6. CursorSound
  BY AllocAssumption DEF Init, CursorSound
<1>7. QED
  BY <1>1, <1>4, <1>5, <1>6 DEF AllocInv

LEMMA MemoryKept ==
  ASSUME AllocInv, UNCHANGED memory
  PROVE  Shape' /\ PartsTile' /\ PartsSigned' /\ BlocksInParts' /\ SigsInChunk'
  BY DEF AllocInv, memory, Shape, PartsTile, PartsSigned, BlocksInParts, SigsInChunk,
         End, Sig

(* Where the walk looks at a part, there is one. *)
LEMMA AtPart ==
  ASSUME AllocInv, OnPart, Inside(pt)
  PROVE  /\ ch \in DOMAIN Given
         /\ pt \in DOMAIN fas[ch] /\ pt \in Nat /\ ChHdr <= pt
         /\ Header(pt).size \in Nat
         /\ Next(pt) = End(ch, pt)
         /\ Next(pt) \in Nat
         /\ Next(pt) = Given[ch] \/ Next(pt) \in DOMAIN fas[ch]
         /\ \A g \in DOMAIN fas[ch] : g <= pt \/ g >= Next(pt)
<1>1. pt \in DOMAIN fas[ch] /\ ch \in DOMAIN Given
  BY ChunkFacts DEF OnPart, Inside
<1>2. Next(pt) = End(ch, pt)
  BY <1>1, AllocAssumption DEF AllocInv, PartsTile, Next, End, Header
<1>3. QED
  BY <1>1, <1>2, AllocAssumption DEF AllocInv, PartsTile, End, Header

(* The run of free parts that ends with the part at pt. *)
LEMMA RunFacts ==
  ASSUME AllocInv, OnPart, RunBefore, Inside(pt), ~Header(pt).used
  PROVE  /\ RunStart \in DOMAIN fas[ch] /\ RunStart \in Nat /\ RunStart # 0
         /\ RunStart <= pt /\ RunStart < Next(pt)
         /\ RunTotal = Next(pt) - RunStart - PtHdr
         /\ pt < RunStart + PtHdr + size
         /\ \A h \in DOMAIN fas[ch] : RunStart <= h /\ h < Next(pt) => ~fas[ch][h].used
<1>1. /\ ch \in DOMAIN Given /\ pt \in DOMAIN fas[ch] /\ pt \in Nat /\ ChHdr <= pt
      /\ Header(pt).size \in Nat /\ Next(pt) = pt + Header(pt).size + PtHdr
      /\ \A g \in DOMAIN fas[ch] : g <= pt \/ g >= Next(pt)
  BY AtPart DEF Next
<1>2. \A h \in DOMAIN fas[ch] : h \in Nat /\ ChHdr <= h
  BY <1>1 DEF AllocInv, PartsTile
<1>3. RunStart \in DOMAIN fas[ch] /\ RunStart \in Nat /\ RunStart # 0 /\ RunStart <= pt
  BY <1>1, <1>2, AllocAssumption DEF RunBefore, RunStart
<1>4. rtotal < size /\ rtotal = pt - RunStart - PtHdr
  <2>1. CASE start = 0
    BY <1>1, <2>1, AllocAssumption DEF RunBefore, RunStart
  <2>2. CASE start # 0
    BY <1>1, <2>2 DEF RunBefore, RunStart
  <2>3. QED
    BY <2>1, <2>2
<1>5. /\ RunTotal = Next(pt) - RunStart - PtHdr
      /\ pt < RunStart + PtHdr + size
  <2>1. size \in Nat /\ PtHdr \in Nat
    BY AllocAssumption DEF AllocInv, CursorSound
  <2>2. RunTotal = rtotal + Header(pt).size + PtHdr
    BY DEF RunTotal
  <2>3. QED
    BY <1>1, <1>3, <1>4, <2>1, <2>2
<1>6. ASSUME NEW h \in DOMAIN fas[ch], RunStart <= h, h < Next(pt)
      PROVE  ~fas[ch][h].used
  <2>1. h <= pt
    BY <1>1, <1>2, <1>6, AllocAssumption
  <2>2. CASE h = pt
    BY <2>2, Zenon DEF Header
  <2>3. CASE h < pt
    BY <1>1, <1>2, <1>6, <2>3 DEF RunBefore, RunStart
  <2>4. QED
    BY <1>1, <1>2, <2>1, <2>2, <2>3
<1>7. RunStart < Next(pt)
  BY <1>1, <1>3, AllocAssumption
<1>8. QED
  BY <1>3, <1>5, <1>6, <1>7

-----------------------------------------------------------------------------
(* The steps that leave the memory as it is. *)

LEMMA CursorSteps ==
  ASSUME AllocInv, UNCHANGED memory,
         \/ \E n \in Sizes : Request(n)
         \/ Enter \/ PassBy \/ OutOfMemory \/ Check \/ Checked
         \/ ScanUsed \/ ScanFree \/ Leave
  PROVE  AllocInv'
<1> USE DEF AllocInv
<1>1. SUFFICES CursorSound'
  BY MemoryKept
<1>2. Len(Given) \in Nat /\ DOMAIN Given = 1..Len(Given)
  BY AllocAssumption
<1>3. fas' = fas
  BY DEF memory
<1>4. ASSUME NEW n \in Sizes, Request(n) PROVE CursorSound'
  BY <1>2, <1>4, AllocAssumption DEF Request, CursorSound
<1>5. CASE Enter
  <2>1. ChHdr \in DOMAIN fas[ch] /\ ChHdr \in Nat
    BY <1>5, AllocAssumption DEF Enter, PartsTile
  <2>2. QED
    BY <1>2, <1>3, <1>5, <2>1 DEF Enter, CursorSound, OnPart
<1>6. CASE PassBy
  BY <1>2, <1>6 DEF PassBy, CursorSound
<1>7. CASE OutOfMemory
  BY <1>2, <1>7 DEF OutOfMemory, Returned, CursorSound
<1>8. CASE Check
  <2>1. OnPart /\ Inside(pt) /\ start = 0
    BY <1>8 DEF Check, CursorSound
  <2>2. Written(pt) /\ ~(Header(pt).used /\ SigAt(pt) \notin sigs[ch])
    <3>1. ch \in DOMAIN Given /\ pt \in DOMAIN fas[ch] /\ pt \in Nat
      BY <2>1, AtPart
    <3>2. SigAt(pt) = Sig(ch, pt)
      BY <2>1, <3>1, AtPart, AllocAssumption DEF SigAt, Sig, End, Header
    <3>3. QED
      BY <3>1, <3>2 DEF Written, PartsSigned, Header
  <2>3. pt' = Next(pt) /\ pc' = pc
    BY <1>8, <2>2 DEF Check
  <2>4. QED
    BY <1>2, <1>3, <1>8, <2>1, <2>3, AtPart DEF Check, CursorSound, OnPart
<1>9. CASE Checked
  <2>1. ch \in DOMAIN Given /\ start = 0 /\ size \in Nat
    BY <1>9 DEF Checked, CursorSound, OnPart
  <2>2. ChHdr \in DOMAIN fas[ch] /\ ChHdr \in Nat /\ -PtHdr \in Int /\ -PtHdr < size
    BY <2>1, AllocAssumption DEF PartsTile
  <2>3. QED
    BY <1>2, <1>3, <1>9, <2>1, <2>2 DEF Checked, CursorSound, OnPart, RunBefore
<1>10. CASE ScanUsed
  <2>1. OnPart /\ Inside(pt) /\ size \in Nat
    BY <1>10 DEF ScanUsed, CursorSound
  <2>2. -PtHdr \in Int /\ -PtHdr < size
    BY <2>1, AllocAssumption
  <2>3. QED
    BY <1>2, <1>3, <1>10, <2>1, <2>2, AtPart DEF ScanUsed, CursorSound, OnPart, RunBefore
<1>11. CASE ScanFree
  <2>1. OnPart /\ RunBefore /\ Inside(pt) /\ ~Header(pt).used
    BY <1>11 DEF ScanFree, AtFreePart, CursorSound
  <2>2. /\ RunStart \in DOMAIN fas[ch] /\ RunStart \in Nat /\ RunStart # 0
        /\ RunStart < Next(pt) /\ RunTotal = Next(pt) - RunStart - PtHdr
        /\ \A h \in DOMAIN fas[ch] : RunStart <= h /\ h < Next(pt) => ~fas[ch][h].used
    BY <2>1, RunFacts
  <2>3. /\ pc = "scan" /\ pc' = pc /\ ch' = ch /\ size' = size
        /\ pt' = Next(pt) /\ start' = RunStart /\ rtotal' = RunTotal /\ RunTotal < size
    BY <1>11 DEF ScanFree, AtFreePart
  <2>4. RunTotal \in Int /\ Next(pt) \in Nat
    BY <2>1, <2>2, AtPart, AllocAssumption
  <2>5. OnPart' /\ RunBefore'
    BY <1>3, <2>1, <2>2, <2>3, AtPart DEF OnPart, RunBefore
  <2>6. QED
    BY <1>2, <2>2, <2>3, <2>4, <2>5 DEF CursorSound
<1>12. CASE Leave
  BY <1>2, <1>12 DEF Leave, CursorSound, OnPart
<1>13. QED
  BY <1>4, <1>5, <1>6, <1>7, <1>8, <1>9, <1>10, <1>11, <1>12

-----------------------------------------------------------------------------
(* A block is handed out: the run from RunStart to Next(pt) becomes a used  *)
(* part that ends at m and, when R is not empty, a free part from m on.     *)

Outside == {h \in DOMAIN fas[ch] : h < RunStart \/ h >= Next(pt)}

Granted(m, R) ==
  /\ m \in Nat /\ RunStart + PtHdr + size <= m
  /\ \/ R = {} /\ m = Next(pt)
     \/ R = {m} /\ m + PtHdr <= Next(pt)
  /\ DOMAIN fas' = DOMAIN fas /\ DOMAIN sigs' = DOMAIN sigs
  /\ \A c \in DOMAIN Given : c # ch => fas'[c] = fas[c] /\ sigs'[c] = sigs[c]
  /\ DOMAIN (fas'[ch]) = Outside \cup {RunStart} \cup R
  /\ \A h \in Outside : fas'[ch][h] = fas[ch][h]
  /\ fas'[ch][RunStart].used /\ fas'[ch][RunStart].size = m - RunStart - PtHdr
  /\ \A r \in R : ~fas'[ch][r].used /\ fas'[ch][r].size = Next(pt) - m - PtHdr
  /\ \A g : g \in sigs'[ch]
              <=> \/ g = m - SigLen
                  \/ /\ g \in sigs[ch]
                     /\ \A k \in {RunStart} \cup R : ~Meet(g, SigLen, k, PtHdr)
  /\ live' = live \cup {[chunk |-> ch, addr |-> RunStart + PtHdr, len |-> size - SigLen]}
  /\ Returned

LEMMA GrantFacts ==
  ASSUME AllocInv, AtFreePart, NEW m, NEW R, Granted(m, R)
  PROVE  /\ ch \in DOMAIN Given /\ Given[ch] \in Nat
         /\ RunStart \in DOMAIN fas[ch] /\ RunStart \in Nat /\ ChHdr <= RunStart
         /\ Next(pt) \in Nat /\ Next(pt) <= Given[ch]
         /\ Next(pt) = Given[ch] \/ Next(pt) \in Outside
         /\ \A h \in DOMAIN fas[ch] : RunStart <= h /\ h < Next(pt) => ~fas[ch][h].used
         /\ size \in Nat /\ size - SigLen \in Sizes /\ size >= SigLen
         /\ m \in Nat /\ RunStart + PtHdr + size <= m /\ m <= Next(pt)
         /\ \A r \in R : r = m /\ m + PtHdr <= Next(pt)
<1>1. OnPart /\ RunBefore /\ Inside(pt) /\ ~Header(pt).used /\ size - SigLen \in Sizes
      /\ size \in Nat
  BY DEF AllocInv, AtFreePart, CursorSound
<1>2. /\ ch \in DOMAIN Given
      /\ Next(pt) = End(ch, pt) /\ pt \in DOMAIN fas[ch]
      /\ Next(pt) \in Nat
      /\ Next(pt) = Given[ch] \/ Next(pt) \in DOMAIN fas[ch]
  BY <1>1, AtPart
<1>3. Next(pt) <= Given[ch]
  BY <1>2 DEF AllocInv, PartsTile
<1>4. /\ RunStart \in DOMAIN fas[ch] /\ RunStart \in Nat
      /\ \A h \in DOMAIN fas[ch] : RunStart <= h /\ h < Next(pt) => ~fas[ch][h].used
  BY <1>1, RunFacts
<1>5. ChHdr <= RunStart
  BY <1>2, <1>4 DEF AllocInv, PartsTile
<1>6. Next(pt) = Given[ch] \/ Next(pt) \in Outside
  BY <1>2 DEF Outside
<1>7. size >= SigLen
  BY <1>1, AllocAssumption
<1>8. /\ m \in Nat /\ RunStart + PtHdr + size <= m /\ m <= Next(pt)
      /\ \A r \in R : r = m /\ m + PtHdr <= Next(pt)
  BY <1>2, AllocAssumption DEF Granted
<1>9. QED
  BY <1>1, <1>2, <1>3, <1>4, <1>5, <1>6, <1>7, <1>8, ChunkFacts

(* The parts outside the run, and where they lie. *)
LEMMA OutsideFacts ==
  ASSUME AllocInv, AtFreePart, NEW m, NEW R, Granted(m, R), NEW h \in Outside
  PROVE  /\ h \in DOMAIN fas[ch] /\ h \in Nat /\ ChHdr <= h
         /\ fas[ch][h].size \in Nat /\ End(ch, h) \in Nat /\ h + PtHdr <= End(ch, h)
         /\ fas'[ch][h] = fas[ch][h]
         /\ End(ch, h) <= Given[ch]
         /\ End(ch, h) = Given[ch] \/ End(ch, h) \in Outside \cup {RunStart}
         /\ \/ h < RunStart /\ End(ch, h) <= RunStart
            \/ h >= Next(pt) /\ h > RunStart
         /\ \A g \in DOMAIN fas[ch] : g <= h \/ g >= End(ch, h)
<1>1. fas'[ch][h] = fas[ch][h]
  BY DEF Granted
<1>2. /\ h \in DOMAIN fas[ch] /\ h \in Nat /\ ChHdr <= h
      /\ fas[ch][h].size \in Nat /\ End(ch, h) <= Given[ch]
      /\ End(ch, h) = Given[ch] \/ End(ch, h) \in DOMAIN fas[ch]
      /\ \A g \in DOMAIN fas[ch] : g <= h \/ g >= End(ch, h)
  BY GrantFacts DEF AllocInv, PartsTile, Outside
<1>3. End(ch, h) \in Nat /\ h + PtHdr <= End(ch, h)
  BY <1>2, AllocAssumption DEF End
<1>4. /\ RunStart \in DOMAIN fas[ch] /\ RunStart \in Nat /\ RunStart < Next(pt)
      /\ Next(pt) \in Nat /\ Next(pt) <= Given[ch]
      /\ h < RunStart \/ h >= Next(pt)
  <2>1. RunStart \in DOMAIN fas[ch] /\ RunStart \in Nat
        /\ Next(pt) \in Nat /\ Next(pt) <= Given[ch]
        /\ RunStart + PtHdr + size <= m /\ m <= Next(pt) /\ size \in Nat /\ m \in Nat
    BY GrantFacts
  <2>2. QED
    BY <2>1, AllocAssumption DEF Outside
<1>5. CASE h < RunStart
  <2>1. End(ch, h) <= RunStart
    BY <1>2, <1>3, <1>4, <1>5
  <2>2. End(ch, h) \in DOMAIN fas[ch]
    <3>1. Given[ch] \in Nat
      BY GrantFacts
    <3>2. QED
      BY <1>2, <1>3, <1>4, <2>1, <3>1
  <2>3. End(ch, h) \in Outside \cup {RunStart}
    BY <1>3, <1>4, <2>1, <2>2 DEF Outside
  <2>4. QED
    BY <1>1, <1>2, <1>3, <1>5, <2>1, <2>3
<1>6. CASE h >= Next(pt)
  <2>1. End(ch, h) >= Next(pt) /\ h > RunStart
    BY <1>2, <1>3, <1>4, <1>6, AllocAssumption
  <2>2. End(ch, h) = Given[ch] \/ End(ch, h) \in Outside
    BY <1>2, <2>1 DEF Outside
  <2>3. QED
    BY <1>1, <1>2, <1>3, <1>6, <2>1, <2>2
<1>7. QED
  BY <1>4, <1>5, <1>6

(* What the parts of the chunk are afterwards. *)
LEMMA PartAfter ==
  ASSUME AllocInv, AtFreePart, NEW m, NEW R, Granted(m, R),
         NEW c, c = ch, NEW h \in DOMAIN (fas'[c])
  PROVE  \/ /\ h \in Outside /\ h # RunStart /\ h \notin R
            /\ fas'[c][h] = fas[c][h]
            /\ End(c, h)' = End(c, h)
         \/ /\ h = RunStart /\ fas'[c][h].used
            /\ fas'[c][h].size = m - RunStart - PtHdr
            /\ End(c, h)' = m
         \/ /\ h \in R /\ h = m /\ h # RunStart
            /\ ~fas'[c][h].used /\ fas'[c][h].size = Next(pt) - m - PtHdr
            /\ End(c, h)' = Next(pt)
<1>1. h \in Outside \/ h = RunStart \/ h \in R
  BY DEF Granted
<1>2. /\ RunStart \in Nat /\ Next(pt) \in Nat /\ m \in Nat /\ size \in Nat
      /\ RunStart + PtHdr + size <= m
      /\ \A r \in R : r = m /\ m + PtHdr <= Next(pt)
  BY GrantFacts
<1>3. CASE h \in Outside
  <2>1. h \in Nat /\ (h < RunStart \/ (h >= Next(pt) /\ h > RunStart))
        /\ fas'[c][h] = fas[c][h]
    BY <1>3, OutsideFacts
  <2>2. h # RunStart /\ h \notin R
    BY <1>2, <2>1, AllocAssumption
  <2>3. QED
    BY <1>3, <2>1, <2>2 DEF End
<1>4. CASE h = RunStart
  <2>1. fas'[c][h].used /\ fas'[c][h].size = m - RunStart - PtHdr
    BY <1>4, Zenon DEF Granted
  <2>2. End(c, h)' = h + PtHdr + fas'[c][h].size
    BY DEF End
  <2>3. End(c, h)' = m
    BY <1>2, <1>4, <2>1, <2>2, AllocAssumption
  <2>4. QED
    BY <1>4, <2>1, <2>3
<1>5. CASE h \in R
  <2>1. ~fas'[c][h].used /\ fas'[c][h].size = Next(pt) - m - PtHdr
    BY <1>5, Zenon DEF Granted
  <2>2. End(c, h)' = h + PtHdr + fas'[c][h].size
    BY DEF End
  <2>3. h = m /\ End(c, h)' = Next(pt) /\ h # RunStart
    BY <1>2, <1>5, <2>1, <2>2, AllocAssumption
  <2>4. QED
    BY <1>5, <2>1, <2>3
<1>6. QED
  BY <1>1, <1>3, <1>4, <1>5

LEMMA GrantTiles ==
  ASSUME AllocInv, AtFreePart, NEW m, NEW R, Granted(m, R)
  PROVE  PartsTile'
<1>1. SUFFICES ASSUME NEW c \in DOMAIN Given
      PROVE  /\ ChHdr \in DOMAIN (fas'[c])
             /\ \A h \in DOMAIN (fas'[c]) :
                  /\ h \in Nat /\ ChHdr <= h
                  /\ fas'[c][h].size \in Nat
                  /\ End(c, h)' = Given[c] \/ End(c, h)' \in DOMAIN (fas'[c])
                  /\ End(c, h)' <= Given[c]
                  /\ \A g \in DOMAIN (fas'[c]) : g <= h \/ g >= End(c, h)'
  BY Zenon DEF PartsTile
<1>2. CASE c # ch
  <2>1. fas'[c] = fas[c]
    BY <1>2 DEF Granted
  <2>2. \A h : End(c, h)' = End(c, h)
    BY <2>1 DEF End
  <2>3. QED
    BY <2>1, <2>2 DEF AllocInv, PartsTile
<1>3. CASE c = ch
  <2>1. /\ Given[c] \in Nat
        /\ RunStart \in DOMAIN fas[c] /\ RunStart \in Nat /\ ChHdr <= RunStart
        /\ Next(pt) \in Nat /\ Next(pt) <= Given[c]
        /\ Next(pt) = Given[c] \/ Next(pt) \in Outside
        /\ m \in Nat /\ size \in Nat /\ RunStart + PtHdr + size <= m /\ m <= Next(pt)
        /\ \A r \in R : r = m /\ m + PtHdr <= Next(pt)
    BY <1>3, GrantFacts
  <2>2. DOMAIN (fas'[c]) = Outside \cup {RunStart} \cup R
        /\ ((R = {} /\ m = Next(pt)) \/ R = {m})
    BY <1>3 DEF Granted
  <2>3. ChHdr \in DOMAIN (fas'[c])
    <3>1. ChHdr \in DOMAIN fas[c] /\ ChHdr \in Nat
      BY AllocAssumption DEF AllocInv, PartsTile
    <3>2. ChHdr = RunStart \/ ChHdr \in Outside
      BY <1>3, <2>1, <3>1 DEF Outside
    <3>3. QED
      BY <2>2, <3>2
  <2>4. ASSUME NEW h \in DOMAIN (fas'[c])
        PROVE  /\ h \in Nat /\ ChHdr <= h
               /\ fas'[c][h].size \in Nat
               /\ End(c, h)' = Given[c] \/ End(c, h)' \in DOMAIN (fas'[c])
               /\ End(c, h)' <= Given[c]
               /\ \A g \in DOMAIN (fas'[c]) : g <= h \/ g >= End(c, h)'
    <3>1. CASE h \in Outside /\ fas'[c][h] = fas[c][h] /\ End(c, h)' = End(c, h)
      <4>1. /\ h \in Nat /\ ChHdr <= h
            /\ fas[c][h].size \in Nat /\ End(c, h) \in Nat
            /\ End(c, h) <= Given[c]
            /\ End(c, h) = Given[c] \/ End(c, h) \in Outside \cup {RunStart}
            /\ \/ h < RunStart /\ End(c, h) <= RunStart
               \/ h >= Next(pt)
            /\ \A g \in DOMAIN fas[c] : g <= h \/ g >= End(c, h)
        BY <1>3, <3>1, OutsideFacts
      <4>2. ASSUME NEW g \in DOMAIN (fas'[c]) PROVE g <= h \/ g >= End(c, h)
        <5>1. CASE g \in Outside \/ g = RunStart
          BY <1>3, <2>1, <4>1, <5>1 DEF Outside
        <5>2. CASE g \in R
          BY <2>1, <4>1, <5>2, AllocAssumption
        <5>3. QED
          BY <2>2, <5>1, <5>2
      <4>3. QED
        BY <2>2, <3>1, <4>1, <4>2
    <3>2. ASSUME NEW g \in Outside
          PROVE  g \in Nat /\ (g < RunStart \/ g >= Next(pt))
      BY <3>2, OutsideFacts
    <3>3. CASE h = RunStart /\ fas'[c][h].size = m - RunStart - PtHdr /\ End(c, h)' = m
      <4>1. m - RunStart - PtHdr \in Nat
        BY <2>1, AllocAssumption
      <4>2. m = Given[c] \/ m \in DOMAIN (fas'[c])
        BY <2>1, <2>2
      <4>3. ASSUME NEW g \in DOMAIN (fas'[c]) PROVE g <= h \/ g >= m
        BY <2>1, <2>2, <3>2, <3>3, <4>3
      <4>4. QED
        BY <2>1, <3>3, <4>1, <4>2, <4>3
    <3>4. CASE /\ h \in R /\ h = m /\ fas'[c][h].size = Next(pt) - m - PtHdr
               /\ End(c, h)' = Next(pt)
      <4>1. Next(pt) - m - PtHdr \in Nat /\ ChHdr <= m
        BY <2>1, <3>4, AllocAssumption
      <4>2. ASSUME NEW g \in DOMAIN (fas'[c]) PROVE g <= h \/ g >= Next(pt)
        BY <2>1, <2>2, <3>2, <3>4, <4>2, AllocAssumption
      <4>3. QED
        BY <2>1, <2>2, <3>4, <4>1, <4>2
    <3>5. QED
      BY <1>3, <3>1, <3>3, <3>4, PartAfter
  <2>5. QED
    BY <2>3, <2>4
<1>4. QED
  BY <1>2, <1>3

LEMMA GrantSigned ==
  ASSUME AllocInv, AtFreePart, NEW m, NEW R, Granted(m, R)
  PROVE  PartsSigned' /\ SigsInChunk'
<1>1. ASSUME NEW c \in DOMAIN Given, c # ch
      PROVE  fas'[c] = fas[c] /\ sigs'[c] = sigs[c] /\ \A h : Sig(c, h)' = Sig(c, h)
  <2>1. fas'[c] = fas[c] /\ sigs'[c] = sigs[c]
    BY <1>1 DEF Granted
  <2>2. QED
    BY <2>1 DEF Sig, End
<1>2. /\ Given[ch] \in Nat /\ RunStart \in Nat
      /\ Next(pt) \in Nat /\ Next(pt) <= Given[ch]
      /\ m \in Nat /\ size \in Nat /\ RunStart + PtHdr + size <= m /\ m <= Next(pt)
      /\ \A r \in R : r = m /\ m + PtHdr <= Next(pt)
      /\ size >= SigLen
  BY GrantFacts
<1>3. \A g : g \in sigs'[ch]
               <=> \/ g = m - SigLen
                   \/ /\ g \in sigs[ch]
                      /\ \A k \in {RunStart} \cup R : ~Meet(g, SigLen, k, PtHdr)
  BY DEF Granted
<1>4. ASSUME NEW c \in DOMAIN Given, c = ch, NEW h \in DOMAIN (fas'[c]), fas'[c][h].used
      PROVE  fas'[c][h].size >= SigLen /\ Sig(c, h)' \in sigs'[c]
  <2>1. Sig(c, h)' = End(c, h)' - SigLen
    BY DEF Sig
  <2>2. CASE h \in Outside /\ fas'[c][h] = fas[c][h] /\ End(c, h)' = End(c, h)
    <3>1. /\ h \in DOMAIN fas[c] /\ h \in Nat
          /\ fas[c][h].size \in Nat /\ End(c, h) \in Nat
          /\ \/ h < RunStart /\ End(c, h) <= RunStart
             \/ h >= Next(pt)
      BY <1>4, <2>2, OutsideFacts
    <3>2. fas[c][h].size >= SigLen /\ Sig(c, h) \in sigs[c]
      BY <1>4, <2>2, <3>1 DEF AllocInv, PartsSigned
    <3>3. End(c, h) = h + PtHdr + fas[c][h].size /\ Sig(c, h) = End(c, h) - SigLen
      BY DEF End, Sig
    <3>4. ASSUME NEW k \in {RunStart} \cup R
          PROVE  ~Meet(Sig(c, h), SigLen, k, PtHdr)
      <4>1. /\ k \in Nat /\ RunStart <= k /\ k + PtHdr <= Next(pt)
        BY <1>2, <3>4, AllocAssumption
      <4>2. PtHdr \in Nat /\ SigLen \in Nat /\ Sig(c, h) \in Int
        BY <3>1, <3>3, AllocAssumption
      <4>3. CASE h < RunStart /\ End(c, h) <= RunStart
        <5>1. Sig(c, h) + SigLen <= k
          BY <1>2, <3>1, <3>3, <4>1, <4>2, <4>3
        <5>2. QED
          BY <4>1, <4>2, <5>1 DEF Meet
      <4>4. CASE h >= Next(pt)
        <5>1. Sig(c, h) >= h + PtHdr
          BY <3>1, <3>2, <3>3, <4>2
        <5>2. Sig(c, h) >= k + PtHdr
          BY <1>2, <3>1, <4>1, <4>2, <4>4, <5>1
        <5>3. QED
          BY <4>1, <4>2, <5>2 DEF Meet
      <4>5. QED
        BY <3>1, <4>3, <4>4
    <3>5. QED
      BY <1>3, <1>4, <2>1, <2>2, <3>2, <3>3, <3>4
  <2>3. CASE /\ h = RunStart /\ fas'[c][h].size = m - RunStart - PtHdr
             /\ End(c, h)' = m
    <3>1. m - RunStart - PtHdr >= SigLen
      BY <1>2, AllocAssumption
    <3>2. QED
      BY <1>3, <1>4, <2>1, <2>3, <3>1
  <2>4. QED
    BY <1>4, <2>2, <2>3, PartAfter
<1>5. PartsSigned'
  <2>1. SUFFICES ASSUME NEW c \in DOMAIN Given, NEW h \in DOMAIN (fas'[c]), fas'[c][h].used
                 PROVE  fas'[c][h].size >= SigLen /\ Sig(c, h)' \in sigs'[c]
    BY Zenon DEF PartsSigned
  <2>2. CASE c # ch
    BY <1>1, <2>1, <2>2 DEF AllocInv, PartsSigned
  <2>3. QED
    BY <1>4, <2>1, <2>2
<1>6. SigsInChunk'
  <2>1. SUFFICES ASSUME NEW c \in DOMAIN Given, NEW g \in sigs'[c]
                 PROVE  g \in Nat /\ g <= Given[c]
    BY Zenon DEF SigsInChunk
  <2>2. CASE g \in sigs[c]
    BY <2>2 DEF AllocInv, SigsInChunk
  <2>3. CASE c = ch /\ g = m - SigLen
    <3>1. m - SigLen \in Nat /\ m - SigLen <= Given[ch]
      BY <1>2, AllocAssumption
    <3>2. QED
      BY <2>3, <3>1
  <2>4. QED
    BY <1>1, <1>3, <2>1, <2>2, <2>3
<1>7. QED
  BY <1>5, <1>6

LEMMA GrantBlocks ==
  ASSUME AllocInv, AtFreePart, NEW m, NEW R, Granted(m, R)
  PROVE  BlocksInParts'
<1> DEFINE new == [chunk |-> ch, addr |-> RunStart + PtHdr, len |-> size - SigLen]
<1>1. /\ ch \in DOMAIN Given /\ RunStart \in Nat /\ RunStart \in DOMAIN fas[ch]
      /\ Next(pt) \in Nat
      /\ m \in Nat /\ size \in Nat /\ RunStart + PtHdr + size <= m /\ m <= Next(pt)
      /\ size - SigLen \in Sizes
      /\ \A h \in DOMAIN fas[ch] : RunStart <= h /\ h < Next(pt) => ~fas[ch][h].used
  BY GrantFacts
<1>2. /\ live' = live \cup {new}
      /\ \A c \in DOMAIN Given : c # ch => fas'[c] = fas[c]
      /\ DOMAIN (fas'[ch]) = Outside \cup {RunStart} \cup R
      /\ \A h \in Outside : fas'[ch][h] = fas[ch][h]
      /\ fas'[ch][RunStart].size = m - RunStart - PtHdr
  BY DEF Granted
<1>3. fas'[ch][RunStart].used
  BY DEF Granted
<1>4. /\ new \in [chunk : DOMAIN Given, addr : Nat, len : Sizes]
      /\ new.addr - PtHdr = RunStart /\ new.chunk = ch
      /\ new.len + SigLen = size /\ new.addr = RunStart + PtHdr
  BY <1>1, AllocAssumption
<1>5. ASSUME NEW b \in live
      PROVE  /\ b \in [chunk : DOMAIN Given, addr : Nat, len : Sizes]
             /\ b.addr - PtHdr \in DOMAIN (fas'[b.chunk])
             /\ fas'[b.chunk][b.addr - PtHdr] = fas[b.chunk][b.addr - PtHdr]
             /\ ~(b.chunk = ch /\ b.addr = new.addr)
  <2>1. /\ b \in [chunk : DOMAIN Given, addr : Nat, len : Sizes]
        /\ b.addr - PtHdr \in DOMAIN fas[b.chunk]
        /\ fas[b.chunk][b.addr - PtHdr].used
    BY <1>5 DEF AllocInv, BlocksInParts
  <2>2. CASE b.chunk # ch
    BY <1>2, <2>1, <2>2
  <2>3. CASE b.chunk = ch
    <3>1. b.addr - PtHdr \in DOMAIN fas[ch] /\ b.addr - PtHdr \in Nat
      BY <1>1, <2>1, <2>3 DEF AllocInv, PartsTile
    <3>2. b.addr - PtHdr \in Outside
      BY <1>1, <2>1, <2>3, <3>1 DEF Outside
    <3>3. b.addr - PtHdr # RunStart
      <4>1. RunStart < Next(pt)
        BY <1>1, AllocAssumption
      <4>2. QED
        BY <1>1, <2>1, <2>3, <4>1
    <3>4. QED
      BY <1>2, <1>4, <2>1, <2>3, <3>2, <3>3
  <2>4. QED
    BY <2>2, <2>3
<1>6. ASSUME NEW b \in live'
      PROVE  /\ b \in [chunk : DOMAIN Given, addr : Nat, len : Sizes]
             /\ b.addr - PtHdr \in DOMAIN (fas'[b.chunk])
             /\ fas'[b.chunk][b.addr - PtHdr].used
             /\ b.len + SigLen <= fas'[b.chunk][b.addr - PtHdr].size
  <2>1. CASE b \in live
    BY <1>5, <2>1 DEF AllocInv, BlocksInParts
  <2>2. CASE b = new
    <3>1. size <= m - RunStart - PtHdr
      BY <1>1, AllocAssumption
    <3>2. b.addr - PtHdr = RunStart /\ b.chunk = ch /\ b.len + SigLen = size
      BY <1>4, <2>2
    <3>3. fas'[b.chunk][b.addr - PtHdr].used
      BY <1>3, <3>2
    <3>4. b.len + SigLen <= fas'[b.chunk][b.addr - PtHdr].size
      BY <1>2, <3>1, <3>2
    <3>5. b.addr - PtHdr \in DOMAIN (fas'[b.chunk])
      BY <1>2, <3>2
    <3>6. QED
      BY <1>4, <2>2, <3>3, <3>4, <3>5
  <2>3. QED
    BY <1>2, <1>6, <2>1, <2>2
<1>7. ASSUME NEW a \in live', NEW b \in live', a.chunk = b.chunk, a.addr = b.addr
      PROVE  a = b
  <2>1. CASE a \in live /\ b \in live
    BY <1>7, <2>1 DEF AllocInv, BlocksInParts
  <2>2. (a \in live \/ a = new) /\ (b \in live \/ b = new)
    BY <1>2, <1>7
  <2>3. ~(a \in live /\ b = new) /\ ~(b \in live /\ a = new)
    BY <1>4, <1>5, <1>7
  <2>4. QED
    BY <2>1, <2>2, <2>3
<1>8. ASSUME NEW c \in DOMAIN Given, NEW h \in DOMAIN (fas'[c]), fas'[c][h].used
      PROVE  \E b \in live' : b.chunk = c /\ b.addr = h + PtHdr
  <2>1. CASE h \in DOMAIN fas[c] /\ fas'[c][h] = fas[c][h]
    <3>1. \E b \in live : b.chunk = c /\ b.addr = h + PtHdr
      BY <1>8, <2>1 DEF AllocInv, BlocksInParts
    <3>2. QED
      BY <1>2, <3>1
  <2>2. CASE c = ch /\ h = RunStart
    BY <1>2, <1>4, <2>2
  <2>3. CASE c # ch
    BY <1>2, <1>8, <2>1, <2>3
  <2>4. CASE c = ch
    <3>1. (h \in Outside /\ fas'[c][h] = fas[c][h]) \/ h = RunStart
      BY <1>8, <2>4, PartAfter
    <3>2. QED
      BY <2>1, <2>2, <2>4, <3>1 DEF Outside
  <2>5. QED
    BY <2>3, <2>4
<1>9. QED
  <2> HIDE DEF new
  <2>1. /\ \A b \in live' :
             /\ b \in [chunk : DOMAIN Given, addr : Nat, len : Sizes]
             /\ b.addr - PtHdr \in DOMAIN (fas'[b.chunk])
             /\ fas'[b.chunk][b.addr - PtHdr].used
             /\ b.len + SigLen <= fas'[b.chunk][b.addr - PtHdr].size
    BY <1>6, Zenon
  <2>2. QED
    BY <2>1, <1>7, <1>8, Zenon DEF BlocksInParts

(* What becomes of the signatures. *)
LEMMA GrantSigs ==
  ASSUME NEW h, NEW z, NEW new, Grant(h, z, new), ch \in DOMAIN sigs
  PROVE  /\ DOMAIN sigs' = DOMAIN sigs
         /\ \A c \in DOMAIN sigs : c # ch => sigs'[c] = sigs[c]
         /\ \A g : g \in sigs'[ch]
                     <=> \/ g = h + PtHdr + z - SigLen
                         \/ /\ g \in sigs[ch]
                            /\ \A k \in {h} \cup DOMAIN new : ~Meet(g, SigLen, k, PtHdr)
<1>1. sigs' = [sigs EXCEPT ![ch] =
        {g \in sigs[ch] : \A k \in {h} \cup DOMAIN new : ~Meet(g, SigLen, k, PtHdr)}
          \cup {h + PtHdr + z - SigLen}]
  BY Zenon DEF Grant
<1>2. ASSUME NEW S, sigs' = [sigs EXCEPT ![ch] = S]
      PROVE  /\ DOMAIN sigs' = DOMAIN sigs /\ sigs'[ch] = S
             /\ \A c \in DOMAIN sigs : c # ch => sigs'[c] = sigs[c]
  BY <1>2
<1>3. /\ DOMAIN sigs' = DOMAIN sigs
      /\ \A c \in DOMAIN sigs : c # ch => sigs'[c] = sigs[c]
      /\ sigs'[ch] =
           {g \in sigs[ch] : \A k \in {h} \cup DOMAIN new : ~Meet(g, SigLen, k, PtHdr)}
             \cup {h + PtHdr + z - SigLen}
  BY <1>1, <1>2, Zenon
<1>4. QED
  BY <1>3, Zenon

(* What becomes of the headers. *)
LEMMA GrantHeaders ==
  ASSUME NEW h, NEW z, NEW new, Grant(h, z, new), ch \in DOMAIN fas
  PROVE  /\ DOMAIN fas' = DOMAIN fas
         /\ \A c \in DOMAIN fas : c # ch => fas'[c] = fas[c]
         /\ \A g : g \in DOMAIN (fas'[ch])
                     <=> g \in HeadersOutside(ch, h, PtHdr + z) \/ g = h \/ g \in DOMAIN new
         /\ \A g \in DOMAIN (fas'[ch]) :
              fas'[ch][g] = IF g = h THEN [used |-> TRUE, size |-> z]
                            ELSE IF g \in DOMAIN new THEN new[g] ELSE fas[ch][g]
<1>1. fas' = [fas EXCEPT ![ch] =
        [g \in (HeadersOutside(ch, h, PtHdr + z) \ ({h} \cup DOMAIN new))
                 \cup ({h} \cup DOMAIN new) |->
           IF g = h THEN [used |-> TRUE, size |-> z]
           ELSE IF g \in DOMAIN new THEN new[g] ELSE fas[ch][g]]]
  BY Zenon DEF Grant
<1>2. ASSUME NEW S, fas' = [fas EXCEPT ![ch] = S]
      PROVE  /\ DOMAIN fas' = DOMAIN fas /\ fas'[ch] = S
             /\ \A c \in DOMAIN fas : c # ch => fas'[c] = fas[c]
  BY <1>2
<1>3. /\ DOMAIN fas' = DOMAIN fas
      /\ \A c \in DOMAIN fas : c # ch => fas'[c] = fas[c]
      /\ fas'[ch] =
           [g \in (HeadersOutside(ch, h, PtHdr + z) \ ({h} \cup DOMAIN new))
                    \cup ({h} \cup DOMAIN new) |->
              IF g = h THEN [used |-> TRUE, size |-> z]
              ELSE IF g \in DOMAIN new THEN new[g] ELSE fas[ch][g]]
  BY <1>1, <1>2, Zenon
<1>4. QED
  BY <1>3

(* A block is handed out as Granted says, with z bytes. *)
LEMMA GrantIsGranted ==
  ASSUME AllocInv, AtFreePart, NEW z \in Nat, size <= z, NEW new,
         \/ DOMAIN new = {} /\ RunStart + PtHdr + z = Next(pt)
         \/ /\ DOMAIN new = {RunStart + PtHdr + z}
            /\ RunStart + PtHdr + z + PtHdr <= Next(pt)
            /\ new[RunStart + PtHdr + z]
                 = [used |-> FALSE, size |-> Next(pt) - (RunStart + PtHdr + z) - PtHdr],
         Grant(RunStart, z, new)
  PROVE  Granted(RunStart + PtHdr + z, DOMAIN new)
<1>0. /\ DOMAIN sigs = DOMAIN Given /\ ch \in DOMAIN sigs
      /\ DOMAIN sigs' = DOMAIN sigs
      /\ \A c \in DOMAIN sigs : c # ch => sigs'[c] = sigs[c]
      /\ \A g : g \in sigs'[ch]
                  <=> \/ g = RunStart + PtHdr + z - SigLen
                      \/ /\ g \in sigs[ch]
                         /\ \A k \in {RunStart} \cup DOMAIN new : ~Meet(g, SigLen, k, PtHdr)
  <2>1. DOMAIN sigs = DOMAIN Given /\ ch \in DOMAIN Given
    BY AtPart DEF AllocInv, AtFreePart, CursorSound, Shape
  <2>2. QED
    BY <2>1, GrantSigs, Zenon
<1> DEFINE m == RunStart + PtHdr + z
           R == DOMAIN new
<1>1. OnPart /\ RunBefore /\ Inside(pt) /\ ~Header(pt).used /\ size \in Nat
  BY DEF AllocInv, AtFreePart, CursorSound
<1>2. /\ ch \in DOMAIN Given /\ pt \in DOMAIN fas[ch] /\ pt \in Nat /\ Next(pt) \in Nat
      /\ \A g \in DOMAIN fas[ch] : g <= pt \/ g >= Next(pt)
  BY <1>1, AtPart
<1>3. /\ RunStart \in DOMAIN fas[ch] /\ RunStart \in Nat
      /\ RunStart <= pt /\ RunStart < Next(pt)
      /\ pt < RunStart + PtHdr + size
  BY <1>1, RunFacts
<1>4. /\ m \in Nat /\ RunStart + PtHdr + size <= m /\ RunStart < m
      /\ \/ R = {} /\ m = Next(pt)
         \/ R = {m} /\ m + PtHdr <= Next(pt)
  BY <1>1, <1>3, AllocAssumption
<1>5. ASSUME NEW g \in DOMAIN fas[ch]
      PROVE  g \in HeadersOutside(ch, RunStart, PtHdr + z) <=> g \in Outside
  <2>1. g \in Nat /\ RunStart \in Nat /\ End(ch, g) \in Nat /\ g + PtHdr <= End(ch, g)
    <3>1. g \in Nat /\ RunStart \in Nat /\ fas[ch][g].size \in Nat
      BY <1>2, <1>3 DEF AllocInv, PartsTile
    <3>2. QED
      BY <3>1, AllocAssumption DEF End
  <2>2. RunStart <= g \/ RunStart >= End(ch, g)
    BY <1>2, <1>3 DEF AllocInv, PartsTile
  <2>3. PtHdr \in Nat /\ PtHdr # 0 /\ z \in Nat
    BY AllocAssumption
  <2>4. CASE g < RunStart
    <3>1. ~Meet(g, PtHdr, RunStart, PtHdr + z)
      BY <1>2, <1>3, <1>4, <2>1, <2>2, <2>3, <2>4 DEF Meet
    <3>2. QED
      BY <2>4, <3>1 DEF HeadersOutside, Outside
  <2>5. CASE g >= Next(pt)
    <3>1. g >= RunStart + (PtHdr + z)
      BY <1>2, <1>3, <1>4, <2>1, <2>3, <2>5
    <3>2. ~Meet(g, PtHdr, RunStart, PtHdr + z)
      BY <1>3, <2>1, <2>3, <3>1 DEF Meet
    <3>3. QED
      BY <2>5, <3>1, <3>2 DEF HeadersOutside, Outside
  <2>6. CASE RunStart <= g /\ g < Next(pt)
    <3>1. g <= pt
      BY <1>2, <2>1, <2>6
    <3>2. Meet(g, PtHdr, RunStart, PtHdr + z)
      BY <1>1, <1>2, <1>3, <2>1, <2>3, <2>6, <3>1 DEF Meet
    <3>3. g \notin Outside
      BY <1>2, <1>3, <2>1, <2>6 DEF Outside
    <3>4. QED
      BY <3>2, <3>3 DEF HeadersOutside
  <2>7. QED
    BY <1>2, <1>3, <2>1, <2>4, <2>5, <2>6
<1>6. HeadersOutside(ch, RunStart, PtHdr + z) = Outside
  BY <1>5 DEF HeadersOutside, Outside
<1>7. ASSUME NEW h \in Outside PROVE h # RunStart /\ h \notin R
  <2>1. h \in Nat /\ PtHdr \in Nat /\ PtHdr # 0
    BY <1>2, <1>7, AllocAssumption DEF AllocInv, PartsTile, Outside
  <2>2. QED
    BY <1>2, <1>3, <1>4, <1>7, <2>1 DEF Outside
<1>8. /\ DOMAIN fas' = DOMAIN fas
      /\ \A c \in DOMAIN fas : c # ch => fas'[c] = fas[c]
      /\ \A g : g \in DOMAIN (fas'[ch]) <=> g \in Outside \/ g = RunStart \/ g \in R
      /\ \A g \in DOMAIN (fas'[ch]) :
           fas'[ch][g] = IF g = RunStart THEN [used |-> TRUE, size |-> z]
                         ELSE IF g \in R THEN new[g] ELSE fas[ch][g]
  <2>1. ch \in DOMAIN fas
    BY <1>2 DEF AllocInv, Shape
  <2>2. QED
    BY <1>6, <2>1, GrantHeaders, Zenon
<1>9. DOMAIN (fas'[ch]) = Outside \cup {RunStart} \cup R
  BY <1>8
<1>10. \A h \in Outside : fas'[ch][h] = fas[ch][h]
  BY <1>7, <1>8
<1>11. fas'[ch][RunStart].used /\ fas'[ch][RunStart].size = m - RunStart - PtHdr
  <2>1. fas'[ch][RunStart] = [used |-> TRUE, size |-> z]
    BY <1>8
  <2>2. z = m - RunStart - PtHdr
    BY <1>3, AllocAssumption
  <2>3. QED
    BY <2>1, <2>2
<1>12. ASSUME NEW r \in R
       PROVE  ~fas'[ch][r].used /\ fas'[ch][r].size = Next(pt) - m - PtHdr
  <2>1. r = m /\ r # RunStart
    BY <1>3, <1>4, <1>12
  <2>2. fas'[ch][r] = new[m]
    BY <1>8, <1>12, <2>1
  <2>3. new[m] = [used |-> FALSE, size |-> Next(pt) - m - PtHdr]
    BY <1>12
  <2>4. QED
    BY <2>2, <2>3
<1>13. /\ live' = live \cup
             {[chunk |-> ch, addr |-> RunStart + PtHdr, len |-> size - SigLen]}
       /\ Returned
  BY DEF Grant
<1>14. \A c \in DOMAIN Given : c # ch => fas'[c] = fas[c] /\ sigs'[c] = sigs[c]
  BY <1>0, <1>8 DEF AllocInv, Shape
<1>15. ASSUME NEW M, M = RunStart + PtHdr + z, NEW Q, Q = DOMAIN new
       PROVE  Granted(M, Q)
  <2>1. /\ M \in Nat /\ RunStart + PtHdr + size <= M
        /\ \/ Q = {} /\ M = Next(pt)
           \/ Q = {M} /\ M + PtHdr <= Next(pt)
    BY <1>4, <1>15
  <2>2. /\ DOMAIN (fas'[ch]) = Outside \cup {RunStart} \cup Q
        /\ fas'[ch][RunStart].used /\ fas'[ch][RunStart].size = M - RunStart - PtHdr
    BY <1>9, <1>11, <1>15
  <2>3. \A r \in Q : ~fas'[ch][r].used /\ fas'[ch][r].size = Next(pt) - M - PtHdr
    BY <1>12, <1>15
  <2>4. \A g : g \in sigs'[ch]
                 <=> \/ g = M - SigLen
                     \/ /\ g \in sigs[ch]
                        /\ \A k \in {RunStart} \cup Q : ~Meet(g, SigLen, k, PtHdr)
    <3>1. M - SigLen = RunStart + PtHdr + z - SigLen
      BY <1>3, <1>15, AllocAssumption
    <3>2. {RunStart} \cup Q = {RunStart} \cup DOMAIN new
      BY <1>15
    <3>3. QED
      BY <1>0, <3>1, <3>2, Zenon
  <2>5. QED
    BY <1>0, <1>8, <1>10, <1>13, <1>14, <2>1, <2>2, <2>3, <2>4, Zenon DEF Granted
<1>16. QED
  BY <1>15

LEMMA SplitOrWhole ==
  ASSUME AllocInv, Split \/ Whole
  PROVE  AtFreePart /\ \E m, R : Granted(m, R)
<1>1. AtFreePart
  BY DEF Split, Whole
<1>2. OnPart /\ RunBefore /\ Inside(pt) /\ ~Header(pt).used /\ size \in Nat
  BY <1>1 DEF AllocInv, AtFreePart, CursorSound
<1>3. /\ RunStart \in Nat /\ Next(pt) \in Nat /\ RunTotal = Next(pt) - RunStart - PtHdr
  BY <1>2, RunFacts, AtPart
<1>4. CASE Split
  <2> DEFINE rest == RunStart + PtHdr + size
             new == [g \in {rest} |-> [used |-> FALSE, size |-> RunTotal - size - PtHdr]]
  <2>1. Grant(RunStart, size, new)
    BY <1>4 DEF Split
  <2>2. RunTotal - size > 2 * PtHdr
    BY <1>4 DEF Split
  <2>3. /\ DOMAIN new = {rest}
        /\ rest + PtHdr <= Next(pt)
        /\ new[rest] = [used |-> FALSE, size |-> Next(pt) - rest - PtHdr]
    <3>1. rest + PtHdr <= Next(pt) /\ RunTotal - size - PtHdr = Next(pt) - rest - PtHdr
      BY <1>2, <1>3, <2>2, AllocAssumption
    <3>2. QED
      BY <3>1
  <2> HIDE DEF new
  <2>4. size <= size
    BY <1>2
  <2>5. Granted(rest, DOMAIN new)
    BY <1>1, <1>2, <2>1, <2>3, <2>4, GrantIsGranted
  <2>6. QED
    BY <1>1, <2>5
<1>5. CASE Whole
  <2>1. Grant(RunStart, RunTotal, [g \in {} |-> 0]) /\ RunTotal >= size
    BY <1>5 DEF Whole
  <2>2. RunTotal \in Nat /\ size <= RunTotal /\ RunStart + PtHdr + RunTotal = Next(pt)
    BY <1>2, <1>3, <2>1, AllocAssumption
  <2>3. DOMAIN [g \in {} |-> 0] = {}
    OBVIOUS
  <2>4. QED
    BY <1>1, <2>1, <2>2, <2>3, GrantIsGranted
<1>6. QED
  BY <1>1, <1>4, <1>5

LEMMA GrantSafe ==
  ASSUME AllocInv, Split \/ Whole
  PROVE  AllocInv'
<1>1. AtFreePart
  BY SplitOrWhole
<1>2. PICK m, R : Granted(m, R)
  BY SplitOrWhole
<1>3. PartsTile' /\ PartsSigned' /\ SigsInChunk' /\ BlocksInParts'
  BY <1>1, <1>2, GrantTiles, GrantSigned, GrantBlocks
<1>4. Shape'
  BY <1>2 DEF AllocInv, Shape, Granted
<1>5. CursorSound'
  BY <1>2, AllocAssumption DEF Granted, Returned, CursorSound
<1>6. QED
  BY <1>3, <1>4, <1>5 DEF AllocInv

-----------------------------------------------------------------------------
(* The steps of the callers. *)

(* The part of a block, and where the other parts of its chunk are. *)
LEMMA BlockFacts ==
  ASSUME AllocInv, NEW b \in live, NEW c, c = b.chunk, NEW h, h = b.addr - PtHdr
  PROVE  /\ b \in [chunk : DOMAIN Given, addr : Nat, len : Sizes]
         /\ c \in DOMAIN Given /\ h \in DOMAIN fas[c] /\ h \in Nat
         /\ fas[c][h].used
         /\ fas[c][h].size \in Nat /\ End(c, h) \in Nat
         /\ h + PtHdr = b.addr /\ b.addr + b.len + SigLen <= End(c, h)
         /\ \A g \in DOMAIN fas[c] :
              /\ g \in Nat /\ fas[c][g].size \in Nat /\ End(c, g) \in Nat
              /\ End(c, g) = g + PtHdr + fas[c][g].size
              /\ g = h \/ End(c, g) <= h \/ g >= End(c, h)
<1>1. /\ b \in [chunk : DOMAIN Given, addr : Nat, len : Sizes]
      /\ c \in DOMAIN Given /\ h \in DOMAIN fas[c]
      /\ b.len + SigLen <= fas[c][h].size
  BY DEF AllocInv, BlocksInParts
<1>2. fas[c][h].used
  BY DEF AllocInv, BlocksInParts
<1>3. \A g \in DOMAIN fas[c] :
        /\ g \in Nat /\ fas[c][g].size \in Nat
        /\ \A k \in DOMAIN fas[c] : k <= g \/ k >= End(c, g)
  BY <1>1 DEF AllocInv, PartsTile
<1>4. \A g \in DOMAIN fas[c] :
        End(c, g) \in Nat /\ End(c, g) = g + PtHdr + fas[c][g].size
  BY <1>3, AllocAssumption DEF End
<1>5. \A g \in DOMAIN fas[c] : g = h \/ End(c, g) <= h \/ g >= End(c, h)
  BY <1>1, <1>3, <1>4
<1>6. h + PtHdr = b.addr /\ b.addr + b.len + SigLen <= End(c, h)
  <2>1. b.addr \in Nat /\ b.len \in Nat
    BY <1>1, AllocAssumption
  <2>2. PtHdr \in Nat /\ SigLen \in Nat /\ fas[c][h].size \in Nat /\ h \in Nat
    BY <1>1, <1>3, AllocAssumption
  <2>3. QED
    BY <1>1, <1>4, <2>1, <2>2
<1>7. QED
  BY <1>1, <1>2, <1>3, <1>4, <1>5, <1>6

LEMMA FreeSafe ==
  ASSUME AllocInv, NEW b \in live, Free(b)
  PROVE  AllocInv'
<1>1. PICK c, h : c = b.chunk /\ h = b.addr - PtHdr
  OBVIOUS
<1>2. /\ b \in [chunk : DOMAIN Given, addr : Nat, len : Sizes]
      /\ c \in DOMAIN Given /\ h \in DOMAIN fas[c] /\ h \in Nat
      /\ End(c, h) \in Nat /\ h + PtHdr = b.addr /\ h < End(c, h)
      /\ \A g \in DOMAIN fas[c] :
           /\ g \in Nat /\ End(c, g) \in Nat /\ g < End(c, g)
           /\ g = h \/ End(c, g) <= h \/ g >= End(c, h)
  <2>1. /\ b \in [chunk : DOMAIN Given, addr : Nat, len : Sizes]
        /\ c \in DOMAIN Given /\ h \in DOMAIN fas[c] /\ h \in Nat
        /\ End(c, h) \in Nat /\ h + PtHdr = b.addr
        /\ \A g \in DOMAIN fas[c] :
             /\ g \in Nat /\ fas[c][g].size \in Nat /\ End(c, g) \in Nat
             /\ End(c, g) = g + PtHdr + fas[c][g].size
             /\ g = h \/ End(c, g) <= h \/ g >= End(c, h)
    BY <1>1, BlockFacts
  <2>2. PtHdr \in Nat /\ PtHdr # 0
    BY AllocAssumption
  <2>3. ASSUME NEW g \in DOMAIN fas[c] PROVE g < End(c, g)
    BY <2>1, <2>2
  <2>4. QED
    BY <2>1, <2>3
<1>3. /\ pc = "idle" /\ pc' = pc
      /\ live' = live \ {b}
      /\ fas' = [fas EXCEPT ![c][h].used = FALSE]
      /\ sigs' = [sigs EXCEPT ![c] = @ \ {h + PtHdr + fas[c][h].size - SigLen}]
      /\ UNCHANGED <<size, ch, pt, start, rtotal>>
  BY <1>1, <1>2 DEF Free
<1>4. /\ DOMAIN fas' = DOMAIN fas /\ DOMAIN sigs' = DOMAIN sigs
      /\ \A d \in DOMAIN Given : DOMAIN (fas'[d]) = DOMAIN fas[d]
      /\ \A d \in DOMAIN Given : \A g \in DOMAIN fas[d] : fas'[d][g].size = fas[d][g].size
      /\ \A d \in DOMAIN Given : \A g \in DOMAIN fas[d] :
           ~(d = c /\ g = h) => fas'[d][g] = fas[d][g]
  BY <1>2, <1>3 DEF AllocInv, Shape
<1>5. ~fas'[c][h].used
  BY <1>2, <1>3 DEF AllocInv, Shape
<1>6. \A d \in DOMAIN Given : \A g \in DOMAIN fas[d] :
        End(d, g)' = End(d, g) /\ Sig(d, g)' = Sig(d, g)
  BY <1>4 DEF End, Sig
<1>7. PartsTile'
  BY <1>4, <1>6 DEF AllocInv, PartsTile
<1>8. PartsSigned'
  <2>1. SUFFICES ASSUME NEW d \in DOMAIN Given, NEW g \in DOMAIN fas[d], fas'[d][g].used
                 PROVE  fas'[d][g].size >= SigLen /\ Sig(d, g)' \in sigs'[d]
    BY <1>4, Zenon DEF PartsSigned
  <2>2. ~(d = c /\ g = h)
    BY <1>5, <2>1
  <2>3. fas'[d][g] = fas[d][g]
    BY <1>4, <2>2
  <2>4. fas[d][g].size >= SigLen /\ Sig(d, g) \in sigs[d]
    BY <2>1, <2>3 DEF AllocInv, PartsSigned
  <2>5. Sig(d, g) \in sigs'[d]
    <3>1. CASE d # c
      BY <1>3, <2>4, <3>1 DEF AllocInv, Shape
    <3>2. CASE d = c
      <4>1. End(c, g) # End(c, h)
        BY <1>2, <2>2, <3>2
      <4>2. h + PtHdr + fas[c][h].size - SigLen = Sig(c, h)
        <5>1. fas[c][h].size \in Nat /\ End(c, h) = h + PtHdr + fas[c][h].size
          BY <1>2 DEF End, AllocInv, PartsTile
        <5>2. Sig(c, h) = End(c, h) - SigLen /\ SigLen \in Nat /\ PtHdr \in Nat /\ h \in Nat
          BY <1>2, AllocAssumption DEF Sig
        <5>3. QED
          BY <5>1, <5>2
      <4>3. Sig(c, g) # Sig(c, h)
        BY <1>2, <3>2, <4>1, AllocAssumption DEF Sig
      <4>4. QED
        BY <1>2, <1>3, <2>4, <3>2, <4>2, <4>3 DEF AllocInv, Shape
    <3>3. QED
      BY <3>1, <3>2
  <2>6. QED
    BY <1>6, <2>3, <2>4, <2>5
<1>9. BlocksInParts'
  <2>1. ASSUME NEW a \in live'
        PROVE  /\ a \in [chunk : DOMAIN Given, addr : Nat, len : Sizes]
               /\ a.addr - PtHdr \in DOMAIN (fas'[a.chunk])
               /\ fas'[a.chunk][a.addr - PtHdr].used
               /\ a.len + SigLen <= fas'[a.chunk][a.addr - PtHdr].size
    <3>1. a \in live /\ a # b
      BY <1>3, <2>1
    <3>2. /\ a \in [chunk : DOMAIN Given, addr : Nat, len : Sizes]
          /\ a.addr - PtHdr \in DOMAIN fas[a.chunk]
          /\ a.len + SigLen <= fas[a.chunk][a.addr - PtHdr].size
      BY <3>1 DEF AllocInv, BlocksInParts
    <3>3. fas[a.chunk][a.addr - PtHdr].used
      BY <3>1 DEF AllocInv, BlocksInParts
    <3>4. ~(a.chunk = c /\ a.addr - PtHdr = h)
      <4>1. ~(a.chunk = b.chunk /\ a.addr = b.addr)
        BY <3>1 DEF AllocInv, BlocksInParts
      <4>2. QED
        BY <1>1, <1>2, <3>2, <4>1, AllocAssumption
    <3>5. a.chunk \in DOMAIN Given
      BY <3>2
    <3>6. fas'[a.chunk][a.addr - PtHdr] = fas[a.chunk][a.addr - PtHdr]
          /\ DOMAIN (fas'[a.chunk]) = DOMAIN fas[a.chunk]
      BY <1>4, <3>2, <3>4, <3>5
    <3>7. QED
      BY <3>2, <3>3, <3>6
  <2>2. ASSUME NEW a \in live', NEW d \in live', a.chunk = d.chunk, a.addr = d.addr
        PROVE  a = d
    BY <1>3, <2>2 DEF AllocInv, BlocksInParts
  <2>3. ASSUME NEW d \in DOMAIN Given, NEW g \in DOMAIN (fas'[d]), fas'[d][g].used
        PROVE  \E a \in live' : a.chunk = d /\ a.addr = g + PtHdr
    <3>1. g \in DOMAIN fas[d] /\ ~(d = c /\ g = h)
      BY <1>4, <1>5, <2>3
    <3>2. fas[d][g].used
      BY <1>4, <2>3, <3>1
    <3>3. PICK a \in live : a.chunk = d /\ a.addr = g + PtHdr
      BY <3>1, <3>2 DEF AllocInv, BlocksInParts
    <3>4. a # b
      <4>1. g \in Nat
        BY <3>1 DEF AllocInv, PartsTile
      <4>2. QED
        BY <1>1, <1>2, <3>1, <3>3, <4>1, AllocAssumption
    <3>5. QED
      BY <1>3, <3>3, <3>4
  <2>4. QED
    BY <2>1, <2>2, <2>3, Zenon DEF BlocksInParts
<1>10. SigsInChunk'
  BY <1>3 DEF AllocInv, SigsInChunk, Shape
<1>11. CursorSound' /\ Shape'
  BY <1>3, <1>4 DEF AllocInv, CursorSound, Shape
<1>12. QED
  BY <1>7, <1>8, <1>9, <1>10, <1>11 DEF AllocInv

(* A caller that keeps to its block writes over no header, and over no      *)
(* signature of a used part.                                               *)
LEMMA WriteSafe ==
  ASSUME AllocInv, NEW b \in live, Write(b)
  PROVE  AllocInv'
<1>1. PICK c, h : c = b.chunk /\ h = b.addr - PtHdr
  OBVIOUS
<1>2. /\ b \in [chunk : DOMAIN Given, addr : Nat, len : Sizes]
      /\ c \in DOMAIN Given /\ h \in DOMAIN fas[c] /\ h \in Nat
      /\ End(c, h) \in Nat
      /\ h + PtHdr = b.addr /\ b.addr + b.len + SigLen <= End(c, h)
      /\ \A g \in DOMAIN fas[c] :
           /\ g \in Nat /\ fas[c][g].size \in Nat /\ End(c, g) \in Nat
           /\ End(c, g) = g + PtHdr + fas[c][g].size
           /\ g = h \/ End(c, g) <= h \/ g >= End(c, h)
  BY <1>1, BlockFacts
<1>3. /\ b.addr \in Nat /\ b.len \in Nat /\ b.len # 0
      /\ PtHdr \in Nat /\ PtHdr # 0 /\ SigLen \in Nat /\ SigLen # 0
  BY <1>2, AllocAssumption
<1>4. /\ fas' = [fas EXCEPT ![c] = [g \in HeadersOutside(c, b.addr, b.len) |-> fas[c][g]]]
      /\ sigs' = [sigs EXCEPT ![c] = SigsOutside(c, b.addr, b.len)]
      /\ UNCHANGED <<live, cursor>>
  BY <1>1, <1>2 DEF Write, AllocInv, Shape
<1>5. ASSUME NEW g \in DOMAIN fas[c] PROVE ~Meet(g, PtHdr, b.addr, b.len)
  <2>1. /\ g \in Nat /\ fas[c][g].size \in Nat /\ End(c, g) \in Nat
        /\ End(c, g) = g + PtHdr + fas[c][g].size
        /\ g = h \/ End(c, g) <= h \/ g >= End(c, h)
    BY <1>2, <1>5
  <2>2. g + PtHdr <= b.addr \/ g >= b.addr + b.len
    BY <1>2, <1>3, <2>1
  <2>3. QED
    BY <1>3, <2>1, <2>2 DEF Meet
<1>6. HeadersOutside(c, b.addr, b.len) = DOMAIN fas[c]
  BY <1>5 DEF HeadersOutside
<1>7. /\ DOMAIN fas' = DOMAIN fas /\ DOMAIN sigs' = DOMAIN sigs
      /\ \A d \in DOMAIN Given : DOMAIN (fas'[d]) = DOMAIN fas[d]
      /\ \A d \in DOMAIN Given : \A g \in DOMAIN fas[d] : fas'[d][g] = fas[d][g]
      /\ \A d \in DOMAIN Given : d # c => sigs'[d] = sigs[d]
      /\ sigs'[c] = SigsOutside(c, b.addr, b.len)
  BY <1>2, <1>4, <1>6 DEF AllocInv, Shape
<1>8. \A d \in DOMAIN Given : \A g \in DOMAIN fas[d] :
        End(d, g)' = End(d, g) /\ Sig(d, g)' = Sig(d, g)
  BY <1>7 DEF End, Sig
<1>9. PartsTile'
  BY <1>7, <1>8 DEF AllocInv, PartsTile
<1>10. ASSUME NEW g \in DOMAIN fas[c], fas[c][g].used
       PROVE  Sig(c, g) \in sigs'[c]
  <2>1. /\ g \in Nat /\ fas[c][g].size \in Nat /\ End(c, g) \in Nat
        /\ End(c, g) = g + PtHdr + fas[c][g].size
        /\ g = h \/ End(c, g) <= h \/ g >= End(c, h)
    BY <1>2, <1>10
  <2>2. fas[c][g].size >= SigLen /\ Sig(c, g) \in sigs[c]
    BY <1>2, <1>10 DEF AllocInv, PartsSigned
  <2>3. Sig(c, g) = End(c, g) - SigLen
    BY DEF Sig
  <2>4. Sig(c, g) + SigLen <= b.addr \/ Sig(c, g) >= b.addr + b.len
    <3>1. CASE g = h
      BY <1>2, <1>3, <2>1, <2>3, <3>1
    <3>2. CASE End(c, g) <= h
      BY <1>2, <1>3, <2>1, <2>3, <3>2
    <3>3. CASE g >= End(c, h)
      BY <1>2, <1>3, <2>1, <2>2, <2>3, <3>3
    <3>4. QED
      BY <2>1, <3>1, <3>2, <3>3
  <2>5. ~Meet(Sig(c, g), SigLen, b.addr, b.len)
    BY <1>3, <2>1, <2>3, <2>4 DEF Meet
  <2>6. QED
    BY <1>7, <2>2, <2>5 DEF SigsOutside
<1>11. PartsSigned'
  <2>1. SUFFICES ASSUME NEW d \in DOMAIN Given, NEW g \in DOMAIN fas[d], fas'[d][g].used
                 PROVE  fas'[d][g].size >= SigLen /\ Sig(d, g)' \in sigs'[d]
    BY <1>7, Zenon DEF PartsSigned
  <2>2. fas[d][g].used /\ fas'[d][g] = fas[d][g] /\ Sig(d, g)' = Sig(d, g)
    BY <1>7, <1>8, <2>1
  <2>3. fas[d][g].size >= SigLen /\ Sig(d, g) \in sigs[d]
    BY <2>2 DEF AllocInv, PartsSigned
  <2>4. QED
    BY <1>7, <1>10, <2>2, <2>3
<1>12. BlocksInParts'
  <2>1. live' = live
    BY <1>4
  <2>2. ASSUME NEW a \in live
        PROVE  /\ a \in [chunk : DOMAIN Given, addr : Nat, len : Sizes]
               /\ a.addr - PtHdr \in DOMAIN (fas'[a.chunk])
               /\ fas'[a.chunk][a.addr - PtHdr].used
               /\ a.len + SigLen <= fas'[a.chunk][a.addr - PtHdr].size
    <3>1. /\ a \in [chunk : DOMAIN Given, addr : Nat, len : Sizes]
          /\ a.addr - PtHdr \in DOMAIN fas[a.chunk]
          /\ a.len + SigLen <= fas[a.chunk][a.addr - PtHdr].size
      BY <2>2 DEF AllocInv, BlocksInParts
    <3>2. fas[a.chunk][a.addr - PtHdr].used
      BY <2>2 DEF AllocInv, BlocksInParts
    <3>3. a.chunk \in DOMAIN Given
      BY <3>1
    <3>4. fas'[a.chunk][a.addr - PtHdr] = fas[a.chunk][a.addr - PtHdr]
          /\ DOMAIN (fas'[a.chunk]) = DOMAIN fas[a.chunk]
      BY <1>7, <3>1, <3>3
    <3>5. QED
      BY <3>1, <3>2, <3>4
  <2>3. \A a, d \in live : a.chunk = d.chunk /\ a.addr = d.addr => a = d
    BY DEF AllocInv, BlocksInParts
  <2>4. ASSUME NEW d \in DOMAIN Given, NEW g \in DOMAIN (fas'[d]), fas'[d][g].used
        PROVE  \E a \in live : a.chunk = d /\ a.addr = g + PtHdr
    <3>1. g \in DOMAIN fas[d] /\ fas[d][g].used
      BY <1>7, <2>4
    <3>2. QED
      BY <3>1 DEF AllocInv, BlocksInParts
  <2>5. QED
    BY <2>1, <2>2, <2>3, <2>4, Zenon DEF BlocksInParts
<1>13. SigsInChunk'
  BY <1>7 DEF AllocInv, SigsInChunk, SigsOutside
<1>14. CursorSound'
  BY <1>4, <1>7 DEF AllocInv, cursor, CursorSound, OnPart, RunBefore, Write
<1>15. Shape'
  BY <1>7 DEF AllocInv, Shape
<1>16. QED
  BY <1>9, <1>11, <1>12, <1>13, <1>14, <1>15 DEF AllocInv

-----------------------------------------------------------------------------
LEMMA AllocStep ==
  ASSUME AllocInv, [MallocNext]_vars
  PROVE  AllocInv'
<1>1. CASE UNCHANGED vars
  <2>1. UNCHANGED memory /\ UNCHANGED cursor
    BY <1>1 DEF vars
  <2>2. CursorSound'
    BY <2>1 DEF memory, cursor, AllocInv, CursorSound, OnPart, RunBefore
  <2>3. QED
    BY <2>1, <2>2, MemoryKept DEF AllocInv
<1>2. CASE \/ \E n \in Sizes : Request(n)
           \/ Enter \/ PassBy \/ OutOfMemory \/ Check \/ Checked
           \/ ScanUsed \/ ScanFree \/ Leave
  <2>1. UNCHANGED memory
    BY <1>2 DEF Request, Enter, PassBy, OutOfMemory, Check, Checked, ScanUsed,
                ScanFree, Leave
  <2>2. QED
    BY <1>2, <2>1, CursorSteps
<1>3. CASE Split \/ Whole
  BY <1>3, GrantSafe
<1>4. CASE \E b \in live : Free(b) \/ Write(b)
  BY <1>4, FreeSafe, WriteSafe
<1>5. QED
  BY <1>1, <1>2, <1>3, <1>4, Zenon DEF MallocNext, Malloc, NoCall

(***************************************************************************)
(* What jvm_m_malloc and jvm_m_free keep true of the chunks: AllocInv.     *)
(***************************************************************************)
THEOREM AllocInvariant == Spec => []AllocInv
<1>1. Init => AllocInv
  BY AllocInitially
<1>2. AllocInv /\ [MallocNext]_vars => AllocInv'
  BY AllocStep
<1>3. QED
  BY <1>1, <1>2, PTL DEF Spec

(***************************************************************************)
(* The corruption checker stops the process for no caller that keeps to    *)
(* its blocks, and the walk reads nothing but headers: NoFalseAlarm of the *)
(* run malloc_blocks, for all chunks, sizes and sequences of calls.        *)
(***************************************************************************)
THEOREM NoFalseAlarmAlways == Spec => []NoFalseAlarm
<1>1. AllocInv => NoFalseAlarm
  BY DEF AllocInv, CursorSound, NoFalseAlarm
<1>2. QED
  BY <1>1, AllocInvariant, PTL

(***************************************************************************)
(* No byte of a chunk is lost or counted twice: Tiled of the run           *)
(* malloc_blocks, for all chunks, sizes and sequences of calls.            *)
(***************************************************************************)
THEOREM TiledAlways == Spec => []Tiled
<1>1. AllocInv => Tiled
  BY DEF AllocInv, PartsTile, Tiled, End
<1>2. QED
  BY <1>1, AllocInvariant, PTL

(***************************************************************************)
(* A part is used as long as a caller has its block, and no longer:        *)
(* UsedIsLive of the run malloc_blocks, for all sequences of calls.        *)
(***************************************************************************)
THEOREM UsedIsLiveAlways == Spec => []UsedIsLive
<1>1. ASSUME AllocInv, NEW c \in DOMAIN Given
      PROVE  {h \in DOMAIN fas[c] : fas[c][h].used}
               = {b.addr - PtHdr : b \in {d \in live : d.chunk = c}}
  <2>1. ASSUME NEW h \in DOMAIN fas[c], fas[c][h].used
        PROVE  \E b \in {d \in live : d.chunk = c} : h = b.addr - PtHdr
    <3>1. PICK b \in live : b.chunk = c /\ b.addr = h + PtHdr
      BY <1>1, <2>1 DEF AllocInv, BlocksInParts
    <3>2. h \in Nat
      BY <1>1, <2>1 DEF AllocInv, PartsTile
    <3>3. h = b.addr - PtHdr
      BY <3>1, <3>2, AllocAssumption
    <3>4. QED
      BY <3>1, <3>3
  <2>2. ASSUME NEW b \in live, b.chunk = c
        PROVE  b.addr - PtHdr \in DOMAIN fas[c] /\ fas[c][b.addr - PtHdr].used
    BY <1>1, <2>2 DEF AllocInv, BlocksInParts
  <2>3. QED
    BY <2>1, <2>2
<1>2. AllocInv => UsedIsLive
  BY <1>1 DEF UsedIsLive
<1>3. QED
  BY <1>2, AllocInvariant, PTL

-----------------------------------------------------------------------------
(* The types, given the invariant. *)

HeadersTyped ==
  \A c \in DOMAIN Given : \A h \in DOMAIN fas[c] : fas[c][h] \in Part

LEMMA TypesFromInv ==
  ASSUME AllocInv, HeadersTyped, pc # "wild"
  PROVE  TypeOK
<1>1. ASSUME NEW c \in DOMAIN Given
      PROVE  /\ DOMAIN fas[c] \subseteq 0..Given[c]
             /\ \A h \in DOMAIN fas[c] : fas[c][h] \in Part
             /\ sigs[c] \subseteq 0..Given[c]
  <2>1. Given[c] \in Nat
    BY ChunkFacts
  <2>2. ASSUME NEW h \in DOMAIN fas[c] PROVE h \in 0..Given[c]
    <3>1. /\ h \in Nat /\ fas[c][h].size \in Nat
          /\ End(c, h) <= Given[c] /\ End(c, h) = h + PtHdr + fas[c][h].size
      BY DEF AllocInv, PartsTile, End
    <3>2. QED
      BY <2>1, <3>1, AllocAssumption
  <2>3. ASSUME NEW g \in sigs[c] PROVE g \in 0..Given[c]
    BY <2>1 DEF AllocInv, SigsInChunk
  <2>4. QED
    BY <2>2, <2>3 DEF HeadersTyped
<1>2. live \subseteq [chunk : DOMAIN Given, addr : Nat, len : Sizes]
  BY DEF AllocInv, BlocksInParts
<1>3. /\ pc \in {"idle", "chunk", "check", "scan", "corrupt", "wild"}
      /\ ch \in 1..(Len(Given) + 1)
      /\ size \in Nat /\ pt \in Nat /\ start \in Nat /\ rtotal \in Int
  BY DEF AllocInv, CursorSound
<1>4. QED
  BY <1>1, <1>2, <1>3 DEF TypeOK

LEMMA HeadersStep ==
  ASSUME AllocInv, AllocInv', HeadersTyped, [MallocNext]_vars
  PROVE  HeadersTyped'
<1>1. CASE fas' = fas
  BY <1>1 DEF HeadersTyped
<1>2. DOMAIN fas = DOMAIN Given
  BY DEF AllocInv, Shape
<1>3. ASSUME AtFreePart, NEW h, NEW z \in Nat, NEW new, Grant(h, z, new),
             \A r \in DOMAIN new : new[r] \in Part
      PROVE  HeadersTyped'
  <2>1. ch \in DOMAIN fas
    BY <1>2, <1>3 DEF AllocInv, AtFreePart, CursorSound, OnPart
  <2>2. /\ \A c \in DOMAIN fas : c # ch => fas'[c] = fas[c]
        /\ \A g : g \in DOMAIN (fas'[ch])
                    <=> g \in HeadersOutside(ch, h, PtHdr + z) \/ g = h \/ g \in DOMAIN new
        /\ \A g \in DOMAIN (fas'[ch]) :
             fas'[ch][g] = IF g = h THEN [used |-> TRUE, size |-> z]
                           ELSE IF g \in DOMAIN new THEN new[g] ELSE fas[ch][g]
    BY <1>3, <2>1, GrantHeaders, Zenon
  <2>3. ASSUME NEW g \in DOMAIN (fas'[ch]) PROVE fas'[ch][g] \in Part
    <3>1. CASE g = h
      <4>1. fas'[ch][g] = [used |-> TRUE, size |-> z]
        BY <2>2, <2>3, <3>1
      <4>2. QED
        BY <4>1 DEF Part
    <3>2. CASE g # h /\ g \in DOMAIN new
      <4>1. fas'[ch][g] = new[g]
        BY <2>2, <2>3, <3>2
      <4>2. QED
        BY <1>3, <3>2, <4>1
    <3>3. CASE g # h /\ g \notin DOMAIN new
      <4>1. fas'[ch][g] = fas[ch][g] /\ g \in DOMAIN fas[ch]
        BY <2>2, <2>3, <3>3 DEF HeadersOutside
      <4>2. QED
        BY <1>2, <2>1, <4>1 DEF HeadersTyped
    <3>4. QED
      BY <3>1, <3>2, <3>3
  <2>4. QED
    BY <1>2, <2>2, <2>3 DEF HeadersTyped
<1>4. CASE Split
  <2>1. AtFreePart /\ RunTotal - size > 2 * PtHdr
    BY <1>4 DEF Split
  <2>2. size \in Nat /\ RunTotal \in Int
    <3>1. OnPart /\ RunBefore /\ Inside(pt) /\ ~Header(pt).used /\ size \in Nat
      BY <2>1 DEF AllocInv, AtFreePart, CursorSound
    <3>2. QED
      BY <3>1, RunFacts, AtPart, AllocAssumption
  <2>3. RunTotal - size - PtHdr \in Nat
    BY <2>1, <2>2, AllocAssumption
  <2>4. PICK r : r = [used |-> FALSE, size |-> RunTotal - size - PtHdr]
    OBVIOUS
  <2>5. r \in Part
    BY <2>3, <2>4 DEF Part
  <2>6. Grant(RunStart, size, [g \in {RunStart + PtHdr + size} |-> r])
    BY <1>4, <2>4 DEF Split
  <2>7. QED
    BY <1>3, <2>1, <2>2, <2>5, <2>6
<1>5. CASE Whole
  <2>1. AtFreePart /\ Grant(RunStart, RunTotal, [g \in {} |-> 0]) /\ RunTotal >= size
    BY <1>5 DEF Whole
  <2>2. size \in Nat /\ RunTotal \in Int
    <3>1. OnPart /\ RunBefore /\ Inside(pt) /\ ~Header(pt).used /\ size \in Nat
      BY <2>1 DEF AllocInv, AtFreePart, CursorSound
    <3>2. QED
      BY <3>1, RunFacts, AtPart, AllocAssumption
  <2>3. RunTotal \in Nat
    BY <2>1, <2>2
  <2>4. QED
    BY <1>3, <2>1, <2>3
<1>6. ASSUME NEW b \in live, Free(b) PROVE HeadersTyped'
  <2>1. CASE fas' = fas
    BY <1>1, <2>1
  <2>2. CASE fas' = [fas EXCEPT ![b.chunk][b.addr - PtHdr].used = FALSE]
    BY <1>2, <2>2 DEF HeadersTyped, Part
  <2>3. QED
    BY <1>6, <2>1, <2>2 DEF Free
<1>7. ASSUME NEW b \in live, Write(b) PROVE HeadersTyped'
  BY <1>2, <1>7 DEF Write, HeadersTyped, HeadersOutside
<1>8. CASE fas' # fas
  <2>1. \/ Split \/ Whole
        \/ \E b \in live : Free(b) \/ Write(b)
    BY <1>8 DEF MallocNext, Malloc, NoCall, vars, memory, Request, Enter, PassBy,
                OutOfMemory, Check, Checked, ScanUsed, ScanFree, Leave
  <2>2. QED
    BY <1>4, <1>5, <1>6, <1>7, <2>1
<1>9. QED
  BY <1>1, <1>8

(***************************************************************************)
(* TypeOK of the allocator: a header never holds anything but a part, and  *)
(* the cursors of jvm_m_malloc stay in the list of chunks.                 *)
(***************************************************************************)
THEOREM AllocTypeOK == Spec => []TypeOK
<1>1. Init => HeadersTyped
  <2>1. SUFFICES ASSUME Init, NEW c \in DOMAIN Given, NEW h \in DOMAIN fas[c]
                 PROVE  fas[c][h] \in Part
    BY DEF HeadersTyped
  <2>2. fas[c][h] = [used |-> FALSE, size |-> ChunkFree(c)]
    BY <2>1 DEF Init
  <2>3. QED
    BY <2>2, ChunkFacts DEF Part
<1>2. AllocInv /\ AllocInv' /\ HeadersTyped /\ [MallocNext]_vars => HeadersTyped'
  BY HeadersStep
<1>3. AllocInv /\ HeadersTyped => TypeOK
  <2>1. AllocInv => pc # "wild"
    BY DEF AllocInv, CursorSound
  <2>2. QED
    BY <2>1, TypesFromInv
<1>4. QED
  BY <1>1, <1>2, <1>3, AllocInvariant, PTL DEF Spec

-----------------------------------------------------------------------------
(* The allocator implements the abstract one. *)

LEMMA NewBlockIsAlone ==
  ASSUME AllocInv, AtFreePart, NEW m, NEW R, Granted(m, R),
         NEW new, new = [chunk |-> ch, addr |-> RunStart + PtHdr, len |-> size - SigLen]
  PROVE  new \in Abstract!Block /\ Abstract!Alloc(new) /\ new \in live'
<1>1. /\ ch \in DOMAIN Given /\ Given[ch] \in Nat /\ RunStart \in Nat
      /\ Next(pt) \in Nat /\ Next(pt) <= Given[ch]
      /\ m \in Nat /\ size \in Nat /\ RunStart + PtHdr + size <= m /\ m <= Next(pt)
      /\ size - SigLen \in Sizes
      /\ \A h \in DOMAIN fas[ch] : RunStart <= h /\ h < Next(pt) => ~fas[ch][h].used
  BY GrantFacts
<1>2. /\ new.chunk = ch /\ new.addr = RunStart + PtHdr /\ new.len = size - SigLen
      /\ new.addr \in Nat /\ new.len \in Nat
      /\ new.addr + new.len <= Next(pt)
  BY <1>1, AllocAssumption
<1>3. new \in Abstract!Block
  BY <1>1, <1>2 DEF Abstract!Block
<1>4. new.addr + new.len <= Given[new.chunk]
  BY <1>1, <1>2
<1>5. ASSUME NEW d \in live PROVE ~Abstract!Overlap(new, d)
  <2>1. CASE d.chunk # ch
    BY <1>2, <2>1 DEF Abstract!Overlap
  <2>2. CASE d.chunk = ch
    <3>1. PICK h : h = d.addr - PtHdr
      OBVIOUS
    <3>2. /\ d \in [chunk : DOMAIN Given, addr : Nat, len : Sizes]
          /\ h \in DOMAIN fas[ch] /\ h \in Nat /\ End(ch, h) \in Nat
          /\ h + PtHdr = d.addr /\ d.addr + d.len + SigLen <= End(ch, h)
          /\ fas[ch][h].used
      BY <2>2, <3>1, BlockFacts
    <3>3. h \in Outside
      BY <1>1, <3>2 DEF Outside
    <3>4. (h < RunStart /\ End(ch, h) <= RunStart) \/ h >= Next(pt)
      BY <3>3, OutsideFacts
    <3>5. d.addr \in Nat /\ d.len \in Nat /\ PtHdr \in Nat /\ SigLen \in Nat
      BY <3>2, AllocAssumption
    <3>6. d.addr + d.len <= new.addr \/ new.addr + new.len <= d.addr
      BY <1>1, <1>2, <3>2, <3>4, <3>5
    <3>7. QED
      BY <1>2, <3>5, <3>6 DEF Abstract!Overlap
  <2>3. QED
    BY <2>1, <2>2
<1>6. live' = live \cup {new}
  BY DEF Granted
<1>7. QED
  BY <1>3, <1>4, <1>5, <1>6 DEF Abstract!Alloc

(***************************************************************************)
(* A block that jvm_m_malloc hands out shares no byte with one in use, and *)
(* jvm_m_free takes back that one block: RMalloc implements                *)
(* AbstractAllocator, for all chunks, sizes and sequences of calls.        *)
(***************************************************************************)
THEOREM AllocatorImplements == Spec => ImplementsAllocator
<1>1. Init => Abstract!AbsInit
  BY DEF Init, Abstract!AbsInit
<1>2. ASSUME AllocInv, [MallocNext]_vars
      PROVE  [Abstract!AbsNext]_live
  <2>1. CASE Split \/ Whole
    <3>1. AtFreePart
      BY <1>2, <2>1, SplitOrWhole
    <3>2. PICK m, R : Granted(m, R)
      BY <1>2, <2>1, SplitOrWhole
    <3>3. PICK new : new = [chunk |-> ch, addr |-> RunStart + PtHdr, len |-> size - SigLen]
      OBVIOUS
    <3>4. new \in Abstract!Block /\ Abstract!Alloc(new) /\ new \in live'
      BY <1>2, <3>1, <3>2, <3>3, NewBlockIsAlone
    <3>5. QED
      BY <3>4 DEF Abstract!AbsNext
  <2>2. CASE \E b \in live : Free(b)
    BY <2>2 DEF Free, Abstract!Free, Abstract!AbsNext
  <2>3. CASE live' = live
    BY <2>3
  <2>4. QED
    BY <1>2, <2>1, <2>2, <2>3 DEF MallocNext, Malloc, NoCall, vars, memory, Request, Enter,
       PassBy, OutOfMemory, Check, Checked, ScanUsed, ScanFree, Leave, Write
<1>3. QED
  BY <1>1, <1>2, AllocInvariant, PTL
     DEF Spec, ImplementsAllocator, Abstract!AbsSpec

-----------------------------------------------------------------------------
(* A request gets 0 only when nothing is left for it. *)

(* No run of free parts that ends before p would do. *)
Refuses(c, p) ==
  \A h, g \in DOMAIN fas[c] :
    h <= g /\ g < p /\ g < ChunkSize(c) => FreeRun(c, h, g) < size

(* The run that the scan follows starts behind a used part, or behind the   *)
(* chunk header.                                                           *)
RunIsMaximal ==
  \A h \in DOMAIN fas[ch] :
    h < RunStart => \E k \in DOMAIN fas[ch] : h <= k /\ k < RunStart /\ fas[ch][k].used

NothingPassed ==
  /\ pc \in {"chunk", "check", "scan"} =>
       \A c \in DOMAIN Given : c < ch => Refuses(c, Given[c])
  /\ pc = "scan" => Refuses(ch, pt) /\ RunIsMaximal

LEMMA FreeRunBound ==
  ASSUME AllocInv, NEW c \in DOMAIN Given,
         NEW h \in DOMAIN fas[c], NEW g \in DOMAIN fas[c], h <= g
  PROVE  /\ FreeRun(c, h, g) \in Nat
         /\ FreeRun(c, h, g) <= End(c, g) - PtHdr - h
         /\ (\E k \in DOMAIN fas[c] : h <= k /\ k <= g /\ fas[c][k].used) =>
               FreeRun(c, h, g) = 0
<1>1. /\ h \in Nat /\ g \in Nat /\ fas[c][g].size \in Nat /\ PtHdr \in Nat
      /\ End(c, g) = g + PtHdr + fas[c][g].size
  BY AllocAssumption DEF AllocInv, PartsTile, End
<1>2. CASE \A k \in DOMAIN fas[c] : h <= k /\ k <= g => ~fas[c][k].used
  <2>1. FreeRun(c, h, g) = g + fas[c][g].size - h
    BY <1>2 DEF FreeRun
  <2>2. FreeRun(c, h, g) \in Nat /\ FreeRun(c, h, g) <= End(c, g) - PtHdr - h
    BY <1>1, <2>1
  <2>3. QED
    BY <1>2, <2>2
<1>3. CASE ~(\A k \in DOMAIN fas[c] : h <= k /\ k <= g => ~fas[c][k].used)
  <2>1. FreeRun(c, h, g) = 0
    BY <1>3 DEF FreeRun
  <2>2. QED
    BY <1>1, <2>1
<1>4. QED
  BY <1>2, <1>3

(* A used part, or a free one in a run that is too small, is passed. *)
LEMMA PartPassed ==
  ASSUME AllocInv, NothingPassed, pc = "scan", Inside(pt),
         Header(pt).used \/ (~Header(pt).used /\ RunTotal < size)
  PROVE  Refuses(ch, Next(pt))
<1>1. OnPart /\ RunBefore /\ size \in Nat /\ size # 0
  BY AllocAssumption DEF AllocInv, CursorSound
<1>2. /\ ch \in DOMAIN Given
      /\ pt \in DOMAIN fas[ch] /\ pt \in Nat /\ Next(pt) = End(ch, pt) /\ Next(pt) \in Nat
      /\ \A k \in DOMAIN fas[ch] : k \in Nat /\ (k <= pt \/ k >= Next(pt))
  <2>1. ch \in DOMAIN Given
    BY <1>1, AtPart
  <2>2. QED
    BY <1>1, <2>1, AtPart DEF AllocInv, PartsTile
<1>3. SUFFICES ASSUME NEW h \in DOMAIN fas[ch], NEW g \in DOMAIN fas[ch],
                      h <= g, g < Next(pt), g < ChunkSize(ch)
               PROVE  FreeRun(ch, h, g) < size
  BY DEF Refuses
<1>4. CASE g < pt
  BY <1>3, <1>4 DEF NothingPassed, Refuses
<1>5. CASE g = pt
  <2>1. /\ FreeRun(ch, h, pt) \in Nat
        /\ FreeRun(ch, h, pt) <= Next(pt) - PtHdr - h
        /\ (\E k \in DOMAIN fas[ch] : h <= k /\ k <= pt /\ fas[ch][k].used) =>
               FreeRun(ch, h, pt) = 0
    BY <1>2, <1>3, <1>5, FreeRunBound
  <2>2. CASE fas[ch][pt].used
    BY <1>1, <1>2, <1>3, <1>5, <2>1, <2>2
  <2>3. CASE h < RunStart /\ ~Header(pt).used
    <3>1. PICK k \in DOMAIN fas[ch] : h <= k /\ k < RunStart /\ fas[ch][k].used
      BY <2>3 DEF NothingPassed, RunIsMaximal
    <3>2. RunStart \in Nat /\ RunStart <= pt
      BY <1>1, <2>3, RunFacts
    <3>3. k <= pt
      BY <1>2, <3>1, <3>2
    <3>4. QED
      BY <1>1, <1>5, <2>1, <3>1, <3>3
  <2>4. CASE h >= RunStart /\ ~Header(pt).used
    <3>1. RunStart \in Nat /\ RunTotal = Next(pt) - RunStart - PtHdr
      BY <1>1, <2>4, RunFacts
    <3>2. RunTotal < size
      BY <2>4
    <3>3. QED
      BY <1>1, <1>2, <1>5, <2>1, <2>4, <3>1, <3>2, AllocAssumption
  <2>5. h \in Nat /\ RunStart \in Int
    BY <1>2 DEF RunStart, AllocInv, CursorSound
  <2>6. QED
    BY <2>2, <2>3, <2>4, <2>5 DEF Header
<1>6. QED
  BY <1>2, <1>3, <1>4, <1>5

LEMMA NothingPassedStep ==
  ASSUME AllocInv, NothingPassed, [MallocNext]_vars
  PROVE  NothingPassed'
<1>1. /\ Len(Given) \in Nat /\ DOMAIN Given = 1..Len(Given)
      /\ ch \in 1..(Len(Given) + 1) /\ size \in Nat /\ pt \in Nat /\ start \in Nat
      /\ pc \in {"idle", "chunk", "check", "scan"}
  BY AllocAssumption DEF AllocInv, CursorSound
<1>2. CASE UNCHANGED vars
  BY <1>2 DEF vars, memory, cursor, NothingPassed, Refuses, RunIsMaximal, FreeRun,
              RunStart
<1>3. ASSUME NEW n \in Sizes, Request(n) PROVE NothingPassed'
  <2>1. ch' = 1 /\ pc' = "chunk"
    BY <1>3 DEF Request
  <2>2. \A c \in DOMAIN Given : ~(c < 1)
    BY <1>1
  <2>3. QED
    BY <2>1, <2>2 DEF NothingPassed
<1>4. CASE Enter
  <2>1. fas' = fas /\ size' = size /\ ch' = ch /\ pc' = "check" /\ pc = "chunk"
    BY <1>4 DEF Enter, memory
  <2>2. QED
    BY <2>1 DEF NothingPassed, Refuses, FreeRun
<1>5. CASE PassBy
  <2>1. /\ fas' = fas /\ size' = size /\ ch' = ch + 1 /\ pc' = "chunk" /\ pc = "chunk"
        /\ ch \in DOMAIN Given /\ ChunkFree(ch) < size
    BY <1>5 DEF PassBy, memory
  <2>2. Refuses(ch, Given[ch])
    <3>1. SUFFICES ASSUME NEW h \in DOMAIN fas[ch], NEW g \in DOMAIN fas[ch], h <= g
                   PROVE  FreeRun(ch, h, g) < size
      BY DEF Refuses
    <3>2. /\ h \in Nat /\ ChHdr <= h /\ End(ch, g) <= Given[ch]
          /\ FreeRun(ch, h, g) \in Nat
          /\ FreeRun(ch, h, g) <= End(ch, g) - PtHdr - h
      BY <2>1, <3>1, FreeRunBound DEF AllocInv, PartsTile
    <3>3. End(ch, g) \in Nat
      <4>1. g \in Nat /\ fas[ch][g].size \in Nat
        BY <2>1, <3>1 DEF AllocInv, PartsTile
      <4>2. QED
        BY <4>1, AllocAssumption DEF End
    <3>4. ChHdr + PtHdr + ChunkFree(ch) = Given[ch] /\ ChunkFree(ch) \in Nat
          /\ Given[ch] \in Nat
      BY <2>1, ChunkFacts
    <3>5. QED
      BY <1>1, <2>1, <3>2, <3>3, <3>4, AllocAssumption
  <2>3. \A c \in DOMAIN Given : c < ch + 1 => Refuses(c, Given[c])
    BY <1>1, <2>1, <2>2 DEF NothingPassed
  <2>4. QED
    BY <2>1, <2>3 DEF NothingPassed, Refuses, FreeRun
<1>6. CASE OutOfMemory \/ Split \/ Whole
  BY <1>6, Zenon DEF OutOfMemory, Split, Whole, Grant, Returned, NothingPassed
<1>7. CASE Check
  <2>1. fas' = fas /\ size' = size /\ ch' = ch /\ pc = "check" /\ pc' # "scan"
    BY <1>7 DEF Check, memory
  <2>2. QED
    BY <2>1 DEF NothingPassed, Refuses, FreeRun
<1>8. CASE Checked
  <2>1. /\ fas' = fas /\ size' = size /\ ch' = ch /\ pc = "check" /\ pt' = ChHdr
        /\ start' = 0 /\ ch \in DOMAIN Given
    BY <1>8 DEF Checked, memory, AllocInv, CursorSound, OnPart
  <2>2. \A h \in DOMAIN fas[ch] : ~(h < ChHdr)
    <3>1. \A h \in DOMAIN fas[ch] : h \in Nat /\ ChHdr <= h
      BY <2>1 DEF AllocInv, PartsTile
    <3>2. QED
      BY <3>1, AllocAssumption
  <2>3. \A c \in DOMAIN Given : c < ch => Refuses(c, Given[c])
    BY <2>1 DEF NothingPassed
  <2>4. Refuses(ch, pt)' /\ RunIsMaximal'
    BY <2>1, <2>2 DEF Refuses, RunIsMaximal, RunStart
  <2>5. QED
    BY <2>1, <2>3, <2>4 DEF NothingPassed, Refuses, FreeRun
<1>9. CASE ScanUsed \/ ScanFree
  <2>1. /\ fas' = fas /\ size' = size /\ ch' = ch /\ pc = "scan" /\ pc' = pc
        /\ pt' = Next(pt) /\ Inside(pt)
        /\ \/ Header(pt).used /\ start' = 0
           \/ ~Header(pt).used /\ RunTotal < size /\ start' = RunStart
    BY <1>9 DEF ScanUsed, ScanFree, AtFreePart, memory
  <2>2. Refuses(ch, Next(pt))
    BY <2>1, PartPassed
  <2>3. OnPart /\ RunBefore
    BY <2>1 DEF AllocInv, CursorSound
  <2>4. /\ pt \in DOMAIN fas[ch] /\ pt < Next(pt) /\ Next(pt) # 0
        /\ \A h \in DOMAIN fas[ch] : h <= pt \/ h >= Next(pt)
        /\ \A h \in DOMAIN fas[ch] : h \in Nat
        /\ Next(pt) \in Nat
    <3>1. /\ ch \in DOMAIN Given /\ pt \in DOMAIN fas[ch] /\ pt \in Nat
          /\ Header(pt).size \in Nat /\ Next(pt) = pt + Header(pt).size + PtHdr
          /\ Next(pt) \in Nat
          /\ \A h \in DOMAIN fas[ch] : h <= pt \/ h >= Next(pt)
      BY <2>1, <2>3, AtPart DEF Next
    <3>2. pt < Next(pt) /\ Next(pt) # 0
      BY <3>1, AllocAssumption
    <3>3. \A h \in DOMAIN fas[ch] : h \in Nat
      BY <3>1 DEF AllocInv, PartsTile
    <3>4. QED
      BY <3>1, <3>2, <3>3
  <2>5. ASSUME NEW h \in DOMAIN fas[ch], h < (IF start' = 0 THEN Next(pt) ELSE start')
        PROVE  \E k \in DOMAIN fas[ch] :
                 /\ h <= k /\ k < (IF start' = 0 THEN Next(pt) ELSE start')
                 /\ fas[ch][k].used
    <3>1. CASE Header(pt).used /\ start' = 0
      <4>1. h <= pt
        BY <2>4, <2>5, <3>1
      <4>2. QED
        BY <2>4, <3>1, <4>1 DEF Header
    <3>2. CASE ~Header(pt).used /\ start' = RunStart
      <4>1. RunStart # 0
        BY <2>1, <2>3, <3>2, RunFacts
      <4>2. QED
        BY <2>1, <2>5, <3>2, <4>1 DEF NothingPassed, RunIsMaximal
    <3>3. QED
      BY <2>1, <3>1, <3>2
  <2>6. RunIsMaximal'
    BY <2>1, <2>5 DEF RunIsMaximal, RunStart
  <2>7. QED
    BY <2>1, <2>2, <2>6 DEF NothingPassed, Refuses, FreeRun
<1>10. CASE Leave
  <2>1. /\ fas' = fas /\ size' = size /\ ch' = ch + 1 /\ pc = "scan" /\ pc' = "chunk"
        /\ ~Inside(pt) /\ ch \in DOMAIN Given
    BY <1>10 DEF Leave, memory, AllocInv, CursorSound, OnPart
  <2>2. Refuses(ch, Given[ch])
    <3>1. SUFFICES ASSUME NEW h \in DOMAIN fas[ch], NEW g \in DOMAIN fas[ch],
                          h <= g, g < ChunkSize(ch)
                   PROVE  FreeRun(ch, h, g) < size
      BY DEF Refuses
    <3>2. g < pt
      <4>1. g \in Nat /\ ChunkSize(ch) \in Int
        BY <2>1, ChunkFacts DEF AllocInv, PartsTile
      <4>2. QED
        BY <1>1, <2>1, <3>1, <4>1 DEF Inside
    <3>3. QED
      BY <2>1, <3>1, <3>2 DEF NothingPassed, Refuses
  <2>3. \A c \in DOMAIN Given : c < ch + 1 => Refuses(c, Given[c])
    BY <1>1, <2>1, <2>2 DEF NothingPassed
  <2>4. QED
    BY <2>1, <2>3 DEF NothingPassed, Refuses, FreeRun
<1>11. CASE \E b \in live : Free(b) \/ Write(b)
  <2>1. pc' \in {"idle", "wild"}
    BY <1>11 DEF Free, Write, cursor
  <2>2. QED
    BY <2>1 DEF NothingPassed
<1>12. QED
  BY <1>2, <1>3, <1>4, <1>5, <1>6, <1>7, <1>8, <1>9, <1>10, <1>11, Zenon
     DEF MallocNext, Malloc, NoCall

(* A set of numbers that is not empty has a least member. *)
LEMMA Least ==
  ASSUME NEW T \in SUBSET Nat, T # {}
  PROVE  \E n \in T : \A k \in T : n <= k
<1>. DEFINE Below == {0..n : n \in T}
<1>1. Below \subseteq FiniteSubsetsOf(Nat)
  <2>1. ASSUME NEW n \in T PROVE 0..n \in FiniteSubsetsOf(Nat)
    <3>1. IsFiniteSet(0..n)
      BY FS_Interval
    <3>2. 0..n \in SUBSET Nat
      OBVIOUS
    <3>3. QED
      BY <3>1, <3>2 DEF FiniteSubsetsOf
  <2>2. QED
    BY <2>1
<1>2. IsWellFoundedOn(StrictSubsetOrdering(Nat), FiniteSubsetsOf(Nat))
  BY FS_StrictSubsetOrderingWellFounded
<1>3. Below # {}
  OBVIOUS
<1>4. PICK B \in Below : \A C \in Below : ~ (<<C, B>> \in StrictSubsetOrdering(Nat))
  <2>. HIDE DEF Below
  <2>1. QED
    BY <1>1, <1>2, <1>3, WFMin, Zenon
<1>5. PICK n \in T : B = 0..n
  BY <1>4
<1>6. ASSUME NEW k \in T, k < n PROVE FALSE
  <2>1. 0..k \in Below
    OBVIOUS
  <2>2. n \notin 0..k /\ n \in 0..n
    BY <1>6
  <2>3. 0..k \subseteq Nat /\ 0..n \subseteq Nat /\ 0..k \subseteq 0..n /\ 0..k # 0..n
    BY <1>6, <2>2
  <2>4. <<0..k, 0..n>> \in StrictSubsetOrdering(Nat)
    BY <2>3 DEF StrictSubsetOrdering
  <2>5. QED
    BY <1>4, <1>5, <2>1, <2>4
<1>7. QED
  BY <1>6

(* The last part that begins before the byte e, of those from h on. *)
LEMMA LastBefore ==
  ASSUME AllocInv, NEW c \in DOMAIN Given, NEW e \in Int,
         NEW h \in DOMAIN fas[c], h < e
  PROVE  \E k \in DOMAIN fas[c] :
           h <= k /\ k < e /\ \A j \in DOMAIN fas[c] : j < e => j <= k
<1>. DEFINE T == {Given[c] - k : k \in {j \in DOMAIN fas[c] : h <= j /\ j < e}}
<1>1. /\ Given[c] \in Nat
      /\ \A k \in DOMAIN fas[c] : k \in Nat /\ k <= Given[c]
  <2>1. Given[c] \in Nat
    BY ChunkFacts
  <2>2. ASSUME NEW k \in DOMAIN fas[c] PROVE k \in Nat /\ k <= Given[c]
    <3>1. k \in Nat /\ fas[c][k].size \in Nat /\ End(c, k) <= Given[c]
      BY DEF AllocInv, PartsTile
    <3>2. End(c, k) = k + PtHdr + fas[c][k].size
      BY DEF End
    <3>3. PtHdr \in Nat
      BY AllocAssumption
    <3>4. QED
      BY <2>1, <3>1, <3>2, <3>3
  <2>3. QED
    BY <2>1, <2>2
<1>2. T \subseteq Nat /\ Given[c] - h \in T
  BY <1>1
<1>3. PICK n \in T : \A m \in T : n <= m
  <2>. HIDE DEF T
  <2>1. QED
    BY <1>2, Least
<1>4. PICK k \in DOMAIN fas[c] : h <= k /\ k < e /\ n = Given[c] - k
  BY <1>3
<1>5. ASSUME NEW j \in DOMAIN fas[c], j < e PROVE j <= k
  <2>1. CASE h <= j
    <3>1. Given[c] - j \in T
      BY <1>5, <2>1
    <3>2. Given[c] - k <= Given[c] - j
      BY <1>3, <1>4, <3>1
    <3>3. QED
      BY <1>1, <3>2
  <2>2. CASE ~(h <= j)
    BY <1>1, <1>4, <2>2
  <2>3. QED
    BY <2>1, <2>2
<1>6. QED
  BY <1>4, <1>5

(* What the walk does not see of a run is shorter than the chunk header. *)
LEMMA LossIsSmall ==
  ASSUME AllocInv, NEW c \in DOMAIN Given,
         \A h, g \in DOMAIN fas[c] :
           h <= g /\ g < ChunkSize(c) => FreeRun(c, h, g) < size,
         NEW h \in DOMAIN fas[c], NEW g \in DOMAIN fas[c], h <= g,
         size \in Nat, size # 0
  PROVE  FreeRun(c, h, g) < size + ChHdr
<1>1. /\ h \in Nat /\ g \in Nat /\ ChHdr \in Nat /\ PtHdr \in Nat /\ PtHdr # 0
      /\ Given[c] \in Nat /\ ChunkSize(c) \in Int /\ ChunkSize(c) + ChHdr = Given[c]
  <2>1. h \in Nat /\ g \in Nat
    BY DEF AllocInv, PartsTile
  <2>2. ChHdr \in Nat /\ PtHdr \in Nat /\ PtHdr # 0
    BY AllocAssumption
  <2>3. Given[c] \in Nat
    BY ChunkFacts
  <2>4. ChunkSize(c) = Given[c] - ChHdr
    BY DEF ChunkSize
  <2>5. QED
    BY <2>1, <2>2, <2>3, <2>4
<1>2. /\ FreeRun(c, h, g) \in Nat
      /\ FreeRun(c, h, g) <= End(c, g) - PtHdr - h
      /\ (\E k \in DOMAIN fas[c] : h <= k /\ k <= g /\ fas[c][k].used) =>
            FreeRun(c, h, g) = 0
  BY FreeRunBound
<1>3. End(c, g) \in Nat /\ End(c, g) <= Given[c]
  BY <1>1 DEF AllocInv, PartsTile, End
<1>4. CASE g < ChunkSize(c)
  BY <1>1, <1>2, <1>4
<1>5. CASE h >= ChunkSize(c)
  BY <1>1, <1>2, <1>3, <1>5
<1>6. CASE h < ChunkSize(c) /\ ChunkSize(c) <= g
  <2>1. PICK k \in DOMAIN fas[c] :
           /\ h <= k /\ k < ChunkSize(c)
           /\ \A j \in DOMAIN fas[c] : j < ChunkSize(c) => j <= k
    BY <1>1, <1>6, LastBefore
  <2>2. /\ k \in Nat /\ fas[c][k].size \in Nat /\ End(c, k) \in Nat
        /\ End(c, k) = k + PtHdr + fas[c][k].size
        /\ End(c, k) = Given[c] \/ End(c, k) \in DOMAIN fas[c]
    BY <1>1 DEF AllocInv, PartsTile, End
  <2>3. End(c, k) >= ChunkSize(c)
    <3>1. CASE End(c, k) = Given[c]
      BY <1>1, <3>1
    <3>2. CASE End(c, k) \in DOMAIN fas[c]
      BY <1>1, <2>1, <2>2, <3>2
    <3>3. QED
      BY <2>2, <3>1, <3>2
  <2>4. FreeRun(c, h, k) < size
    BY <2>1
  <2>5. CASE \E j \in DOMAIN fas[c] : h <= j /\ j <= g /\ fas[c][j].used
    BY <1>1, <1>2, <2>5
  <2>6. CASE \A j \in DOMAIN fas[c] : h <= j /\ j <= g => ~fas[c][j].used
    <3>1. \A j \in DOMAIN fas[c] : j \in Nat /\ (h <= j /\ j <= k => j <= g)
      BY <1>1, <1>6, <2>1, <2>2 DEF AllocInv, PartsTile
    <3>2. FreeRun(c, h, k) = End(c, k) - PtHdr - h
      BY <1>1, <2>2, <2>6, <3>1 DEF FreeRun
    <3>3. QED
      BY <1>1, <1>2, <1>3, <2>2, <2>3, <2>4, <3>2
  <2>7. QED
    BY <2>5, <2>6
<1>7. QED
  BY <1>1, <1>4, <1>5, <1>6

(***************************************************************************)
(* jvm_m_malloc answers 0 only when no run of free parts that it can see   *)
(* is large enough, and none at all is larger than the request by a chunk  *)
(* header or more: RefusedOnlyWhenFull of the run malloc_blocks, for all   *)
(* chunks, sizes and sequences of calls.                                   *)
(***************************************************************************)
THEOREM RefusedOnlyWhenFullAlways == Spec => RefusedOnlyWhenFull
<1>1. Init => NothingPassed
  BY DEF Init, NothingPassed
<1>2. AllocInv /\ NothingPassed /\ [MallocNext]_vars => NothingPassed'
  BY NothingPassedStep
<1>3. ASSUME AllocInv, NothingPassed, OutOfMemory
      PROVE  \A c \in DOMAIN Given : \A h, g \in DOMAIN fas[c] :
               h <= g /\ g < ChunkSize(c) => FreeRun(c, h, g) < size
  <2>1. SUFFICES ASSUME NEW c \in DOMAIN Given, NEW h \in DOMAIN fas[c],
                        NEW g \in DOMAIN fas[c], h <= g, g < ChunkSize(c)
                 PROVE  FreeRun(c, h, g) < size
    OBVIOUS
  <2>2. pc = "chunk" /\ ch \notin DOMAIN Given
    BY <1>3 DEF OutOfMemory
  <2>3. c < ch
    <3>1. ch \in 1..(Len(Given) + 1) /\ Len(Given) \in Nat /\ DOMAIN Given = 1..Len(Given)
      BY <1>3, AllocAssumption DEF AllocInv, CursorSound
    <3>2. QED
      BY <2>2, <3>1
  <2>4. g \in Nat /\ ChunkSize(c) \in Int /\ Given[c] \in Nat /\ ChunkSize(c) < Given[c]
    BY <1>3, ChunkFacts DEF AllocInv, PartsTile
  <2>5. g < Given[c]
    BY <2>1, <2>4
  <2>6. QED
    BY <1>3, <2>1, <2>2, <2>3, <2>5 DEF NothingPassed, Refuses
<1>4. ASSUME AllocInv, NothingPassed, OutOfMemory
      PROVE  \A c \in DOMAIN Given : \A h, g \in DOMAIN fas[c] : h <= g =>
               /\ g < ChunkSize(c) => FreeRun(c, h, g) < size
               /\ FreeRun(c, h, g) < size + ChHdr
  <2>1. size \in Nat /\ size # 0
    BY <1>4, AllocAssumption DEF AllocInv, CursorSound, OutOfMemory
  <2>2. QED
    BY <1>3, <1>4, <2>1, LossIsSmall
<1>5. AllocInv /\ NothingPassed =>
        [OutOfMemory =>
           \A c \in DOMAIN Given : \A h, g \in DOMAIN fas[c] : h <= g =>
             /\ g < ChunkSize(c) => FreeRun(c, h, g) < size
             /\ FreeRun(c, h, g) < size + ChHdr]_vars
  BY <1>4
<1>6. Spec => []NothingPassed
  BY <1>1, <1>2, AllocInvariant, PTL DEF Spec
<1>7. QED
  BY <1>5, <1>6, AllocInvariant, PTL DEF RefusedOnlyWhenFull
=============================================================================
