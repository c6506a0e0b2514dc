------------------------- MODULE RsdkRecorder_proofs -------------------------
(***************************************************************************)
(* Proofs about the recorder core, for every geometry, every set of        *)
(* channels and every number of segments.                                  *)
(***************************************************************************)
EXTENDS RsdkRecorder, RsdkFormat_proofs, FiniteSetTheorems, SequenceTheorems,
        WellFoundedInduction, TLAPS

(***************************************************************************)
(* Looking back from index_next stays on the ring of slots.                *)
(***************************************************************************)
LEMMA BackOnRing ==
  ASSUME NEW n \in Slot, NEW k \in 1 .. NSlots
  PROVE  (n + NSlots - k) % NSlots \in Slot /\ (n + 1) % NSlots \in Slot
BY FormatAssumption, GroupAssumption DEF Slot

(***************************************************************************)
(* rsdk_index_write changes one slot, to the entry it is given: it adds    *)
(* that entry and at most removes others.                                  *)
(***************************************************************************)
LEMMA IndexWriteAdds ==
  ASSUME NEW ixs \in IndexType, NEW d \in Disk, NEW e \in IndexSlot
  PROVE  LET jxs == [ixs EXCEPT ![d] = IndexWrite(@, e)] IN
         /\ jxs \in IndexType
         /\ \A x \in Disk : \A f \in LiveIn(jxs[x]) : f \in LiveIn(ixs[x]) \/ (x = d /\ f = e)
<1> DEFINE ix == ixs[d]
           jx == IndexWrite(ix, e)
           jxs == [ixs EXCEPT ![d] = IndexWrite(@, e)]
<1>1. ix \in [slot : [Slot -> IndexSlot], next : Slot]
  BY DEF IndexType
<1>2. \E i \in Slot, m \in Slot : jx = [slot |-> [ix.slot EXCEPT ![i] = e], next |-> m]
  <2> DEFINE m == IF Found(ix, e.seg) # {} THEN ix.next ELSE (ix.next + 1) % NSlots
  <2>1. jx = [slot |-> [ix.slot EXCEPT ![Target(ix, e)] = e], next |-> m]
    BY DEF IndexWrite
  <2>2. m \in Slot
    BY <1>1, FormatAssumption, BackOnRing DEF Slot
  <2>3. Target(ix, e) \in Slot
    <3>1. CASE Found(ix, e.seg) # {}
      <4> DEFINE k == CHOOSE k \in Found(ix, e.seg) : TRUE
      <4>1. k \in Found(ix, e.seg)
        BY <3>1
      <4>2. k \in 1 .. NSlots
        BY <4>1, FormatAssumption DEF Found, Scan
      <4>3. Back(ix, k) \in Slot
        BY <1>1, <4>2, BackOnRing DEF Back
      <4>4. QED
        BY <3>1, <4>3 DEF Target
    <3>2. CASE Found(ix, e.seg) = {}
      BY <1>1, <3>2 DEF Target
    <3>3. QED
      BY <3>1, <3>2
  <2> HIDE DEF m
  <2>4. QED
    BY <2>1, <2>2, <2>3
<1>3. PICK i \in Slot, m \in Slot : jx = [slot |-> [ix.slot EXCEPT ![i] = e], next |-> m]
  BY <1>2
<1>4. jx \in [slot : [Slot -> IndexSlot], next : Slot]
  BY <1>1, <1>3
<1>5. jxs = [ixs EXCEPT ![d] = jx]
  OBVIOUS
<1> HIDE DEF jx
<1>6. jxs \in IndexType
  BY <1>4, <1>5 DEF IndexType
<1>7. ASSUME NEW x \in Disk, NEW f \in LiveIn(jxs[x])
      PROVE  f \in LiveIn(ixs[x]) \/ (x = d /\ f = e)
  <2>1. CASE x # d
    BY <2>1, <1>5, <1>7 DEF IndexType
  <2>2. CASE x = d
    <3>1. jxs[x] = jx
      BY <2>2, <1>5 DEF IndexType
    <3>2. PICK j \in Slot : f = jx.slot[j] /\ Live(f)
      BY <3>1 DEF LiveIn
    <3>3. jx.slot[j] = IF j = i THEN e ELSE ix.slot[j]
      BY <1>1, <1>3
    <3>4. QED
      BY <2>2, <3>2, <3>3 DEF LiveIn
  <2>3. QED
    BY <2>1, <2>2
<1>8. QED
  BY <1>6, <1>7

(***************************************************************************)
(* An invalidated slot is still a slot, and is not live.                   *)
(***************************************************************************)
LEMMA FreedSlot ==
  ASSUME NEW e \in IndexSlot
  PROVE  Freed(e) \in IndexSlot /\ Freed(e).st = "free"
BY DEF Freed, IndexSlot

(***************************************************************************)
(* rsdk_index_invalidate_chunk, where start_seg calls it, leaves only live *)
(* slots that were live, none of them on the chunk about to be reused.     *)
(***************************************************************************)
LEMMA ReclaimRemoves ==
  ASSUME NEW ixs \in IndexType, NEW d \in Disk
  PROVE  LET jxs == Reclaimed(ixs, d) IN
         /\ jxs \in IndexType
         /\ \A x \in Disk : \A f \in LiveIn(jxs[x]) : f \in LiveIn(ixs[x])
         /\ wrapped[d] \/ WrapsNow(d) => \A f \in LiveIn(jxs[d]) : f.chunk # wptr[d]
<1> DEFINE ix == ixs[d]
           jx == InvalidateChunk(ix, wptr[d])
           jxs == Reclaimed(ixs, d)
<1>1. ix \in [slot : [Slot -> IndexSlot], next : Slot]
  BY DEF IndexType
<1>2. CASE ~(wrapped[d] \/ WrapsNow(d))
  BY <1>2 DEF Reclaimed
<1>3. CASE wrapped[d] \/ WrapsNow(d)
  <2>1. jxs = [ixs EXCEPT ![d] = jx]
    BY <1>3 DEF Reclaimed
  <2>2. /\ jx.next = ix.next
        /\ jx.slot = [i \in Slot |-> IF Live(ix.slot[i]) /\ ix.slot[i].chunk = wptr[d]
                                     THEN Freed(ix.slot[i]) ELSE ix.slot[i]]
        /\ jx \in [slot : [Slot -> IndexSlot], next : Slot]
    BY <1>1, FreedSlot DEF InvalidateChunk
  <2> HIDE DEF jx
  <2>3. jxs \in IndexType
    BY <2>1, <2>2 DEF IndexType
  <2>4. ASSUME NEW f \in LiveIn(jx)
        PROVE  f \in LiveIn(ix) /\ f.chunk # wptr[d]
    <3>1. PICK i \in Slot : f = jx.slot[i] /\ Live(f)
      BY DEF LiveIn
    <3>2. ix.slot[i] \in IndexSlot
      BY <1>1
    <3>3. CASE Live(ix.slot[i]) /\ ix.slot[i].chunk = wptr[d]
      BY <2>2, <3>1, <3>2, <3>3, FreedSlot DEF Live
    <3>4. CASE ~(Live(ix.slot[i]) /\ ix.slot[i].chunk = wptr[d])
      BY <2>2, <3>1, <3>4 DEF LiveIn
    <3>5. QED
      BY <3>3, <3>4
  <2>5. \A x \in Disk : jxs[x] = IF x = d THEN jx ELSE ixs[x]
    BY <2>1 DEF IndexType
  <2>6. QED
    BY <2>3, <2>4, <2>5
<1>4. QED
  BY <1>2, <1>3

-----------------------------------------------------------------------------
(* Types of the values the calls build. *)

LEMMA SlotOfTyped ==
  ASSUME NEW w \in Writer, NEW st \in {"open", "valid"}
  PROVE  /\ SlotOf(w, st) \in IndexSlot
         /\ Live(SlotOf(w, st))
         /\ SlotOf(w, st).st = st /\ SlotOf(w, st).seg = w.seg
         /\ SlotOf(w, st).chunk = w.chunk /\ SlotOf(w, st).bytes = w.off
BY DEF SlotOf, Writer, IndexSlot, Live

(***************************************************************************)
(* The chunk that alloc_chunk hands out is a data chunk, and the pointer   *)
(* stays in range: it wraps to 0 or, under stop, parks behind the end.     *)
(***************************************************************************)
LEMMA AllocRange ==
  ASSUME TypeOK, PointerOK, NEW d \in Disk, AllocChunk(d)
  PROVE  /\ wptr[d] \in Chunk
         /\ wptr' \in [Disk -> 0 .. NChunks] /\ wrapped' \in [Disk -> BOOLEAN]
         /\ PointerOK'
         /\ \A x \in Disk : x # d => wptr'[x] = wptr[x] /\ wrapped'[x] = wrapped[x]
         /\ wrapped[d] => wrapped'[d]
         /\ ~wrapped'[d] => ~wrapped[d] /\ ~WrapsNow(d) /\ wptr'[d] = wptr[d] + 1
<1>1. wptr[d] \in 0 .. NChunks /\ NChunks \in Nat \ {0}
  BY FormatAssumption, GroupAssumption DEF TypeOK
<1>2. wptr[d] \in Chunk
  BY <1>1, PolicyAssumption DEF AllocChunk, NoSpace, PointerOK, Chunk
<1>3. wptr' = [wptr EXCEPT ![d] = IF WrapsNow(d) THEN 0 ELSE @ + 1]
  BY DEF AllocChunk
<1>4. wptr'[d] = IF WrapsNow(d) THEN 0 ELSE wptr[d] + 1
  BY <1>3 DEF TypeOK
<1>5. wptr' \in [Disk -> 0 .. NChunks]
  BY <1>1, <1>2, <1>3 DEF TypeOK, Chunk
<1>6. wrapped' = [wrapped EXCEPT ![d] = @ \/ WrapsNow(d)]
  BY DEF AllocChunk
<1>7. wrapped' \in [Disk -> BOOLEAN] /\ wrapped'[d] = (wrapped[d] \/ WrapsNow(d))
  BY <1>6, Zenon DEF TypeOK, WrapsNow
<1>8. \A x \in Disk : x # d => wptr'[x] = wptr[x] /\ wrapped'[x] = wrapped[x]
  BY <1>3, <1>6, Zenon DEF TypeOK
<1>9. HddFull = "overwrite" => wptr'[d] < NChunks
  BY <1>1, <1>2, <1>4 DEF WrapsNow, Chunk
<1>10. PointerOK'
  <2>1. HddFull = "overwrite" => \A x \in Disk : wptr'[x] < NChunks
    BY <1>8, <1>9 DEF PointerOK
  <2>2. HddFull = "stop" => \A x \in Disk : ~wrapped'[x]
    BY <1>7, <1>8 DEF PointerOK, WrapsNow
  <2>3. QED
    BY <2>1, <2>2 DEF PointerOK
<1>11. QED
  BY <1>2, <1>4, <1>5, <1>7, <1>8, <1>10

LEMMA FreshTyped ==
  ASSUME TypeOK, PointerOK, NEW c \in Chn, NEW d \in Disk, NEW t \in RecType,
         TakeChunk(c, d)
  PROVE  /\ Fresh(c, d, t) \in Writer
         /\ segSeq' \in [Disk -> [Chn -> 0 .. MaxSegSeq]]
         /\ rr' \in 0 .. RRMod - 1
         /\ owner' \in [Disk -> [Chunk -> Seg \cup {NoSeg}]]
<1>1. segSeq[d][c] \in 0 .. MaxSegSeq /\ segSeq[d][c] < MaxSegSeq /\ MaxSegSeq \in Nat
  BY FormatAssumption, GroupAssumption DEF TypeOK, TakeChunk
<1>2. NextSeg(c, d) \in Seg
  BY <1>1 DEF NextSeg, Seg
<1>3. wptr[d] \in Chunk
  BY AllocRange DEF TakeChunk
<1>4. Fresh(c, d, t) \in Writer
  BY <1>2, <1>3, FormatAssumption, GroupAssumption DEF Fresh, Writer
<1>5. segSeq' \in [Disk -> [Chn -> 0 .. MaxSegSeq]]
  BY <1>1 DEF TypeOK, TakeChunk
<1>6. rr' \in 0 .. RRMod - 1
  BY FormatAssumption, GroupAssumption DEF TakeChunk, Pick, TypeOK
<1>7. owner' \in [Disk -> [Chunk -> Seg \cup {NoSeg}]]
  BY <1>2, <1>3 DEF TypeOK, TakeChunk
<1>8. QED
  BY <1>4, <1>5, <1>6, <1>7

(***************************************************************************)
(* Appending a frame of n units that fits: the writer stays well typed and *)
(* only units of its own chunk, the new frame's, change.                   *)
(***************************************************************************)
LEMMA StampTyped ==
  ASSUME data \in [Disk -> [Chunk -> [Unit -> Cell]]],
         NEW w \in Writer, NEW n \in FrameUnits, w.off + n <= ChunkUnits
  PROVE  /\ After(w, n) \in Writer
         /\ After(w, n).st = w.st /\ After(w, n).d = w.d /\ After(w, n).chunk = w.chunk
         /\ After(w, n).seg = w.seg /\ After(w, n).off = w.off + n
         /\ Stamped(w, n) \in [Disk -> [Chunk -> [Unit -> Cell]]]
         /\ \A x \in Disk, k \in Chunk :
              <<x, k>> # <<w.d, w.chunk>> => Stamped(w, n)[x][k] = data[x][k]
         /\ \A u \in Unit :
              Stamped(w, n)[w.d][w.chunk][u].seg =
                IF u \in w.off .. w.off + n - 1 THEN w.seg ELSE data[w.d][w.chunk][u].seg
<1> DEFINE cell(u) == [seg |-> w.seg, seq |-> w.count, len |-> n,
                       hdr |-> IF u = w.off THEN "yes" ELSE "no"]
           row == [u \in Unit |-> IF u \in w.off .. w.off + n - 1 THEN cell(u)
                                  ELSE data[w.d][w.chunk][u]]
<1>1. n \in Nat \ {0} /\ ChunkUnits \in Nat
  BY FormatAssumption, GroupAssumption
<1>2. /\ w.d \in Disk /\ w.chunk \in Chunk /\ w.off \in 0 .. ChunkUnits
      /\ w.seg \in Seg \cup {NoSeg} /\ w.count \in Nat
  BY DEF Writer
<1>3. /\ After(w, n) \in Writer
      /\ After(w, n).st = w.st /\ After(w, n).d = w.d /\ After(w, n).chunk = w.chunk
      /\ After(w, n).seg = w.seg /\ After(w, n).off = w.off + n
  <2>1. w.off + n \in 0 .. ChunkUnits /\ w.off \in Nat /\ w.count + 1 \in Nat
    BY <1>1, <1>2
  <2>2. After(w, n) \in Writer
    BY <2>1 DEF After, Writer
  <2>3. QED
    BY <2>2 DEF After, Writer
<1>4. \A u \in Unit : cell(u) \in Cell /\ cell(u).seg = w.seg
  BY <1>1, <1>2 DEF Cell
<1>5. Stamped(w, n) = [data EXCEPT ![w.d][w.chunk] = row]
  BY <1>2 DEF Stamped
<1>6. row \in [Unit -> Cell]
  BY <1>2, <1>4
<1>7. \A u \in Unit : row[u].seg = IF u \in w.off .. w.off + n - 1 THEN w.seg
                                   ELSE data[w.d][w.chunk][u].seg
  BY <1>4
<1> HIDE DEF row
<1>8. /\ Stamped(w, n) \in [Disk -> [Chunk -> [Unit -> Cell]]]
      /\ Stamped(w, n)[w.d][w.chunk] = row
      /\ \A x \in Disk, k \in Chunk :
           <<x, k>> # <<w.d, w.chunk>> => Stamped(w, n)[x][k] = data[x][k]
  BY <1>2, <1>5, <1>6
<1>9. QED
  BY <1>3, <1>7, <1>8

-----------------------------------------------------------------------------
(* The invariant, piece by piece. *)

(***************************************************************************)
(* finalize_seg writes a slot that tells the truth: closing a writer's     *)
(* segment in the index leaves every returned segment intact.              *)
(***************************************************************************)
LEMMA FinalizedGood ==
  ASSUME IInv, NEW c \in Chn, IsOpen(c)
  PROVE  Good(Finalized(index, writer[c]))
<1> DEFINE w == writer[c]
           e == SlotOf(w, "valid")
           jxs == [index EXCEPT ![w.d] = IndexWrite(@, e)]
<1>1. w \in Writer /\ w.d \in Disk /\ w.chunk \in Chunk
  BY DEF IInv, TypeOK, Writer
<1>2. /\ e \in IndexSlot /\ e.seg = w.seg /\ e.chunk = w.chunk /\ e.bytes = w.off
  BY <1>1, SlotOfTyped
<1>3. index \in IndexType /\ Good(index)
  BY DEF IInv, Good
<1> HIDE DEF e
<1>4. /\ jxs \in IndexType
      /\ \A x \in Disk : \A f \in LiveIn(jxs[x]) :
           f \in LiveIn(index[x]) \/ (x = w.d /\ f = e)
  BY <1>1, <1>2, <1>3, IndexWriteAdds
<1> HIDE DEF jxs
<1>5. IntactIn(jxs)
  BY <1>1, <1>2, <1>3, <1>4 DEF IInv, Good, IntactIn, WriterIntact
<1>6. OwnSlotsIn(jxs)
  <2>1. ASSUME NEW b \in Chn, IsOpen(b), NEW f \in LiveIn(jxs[writer[b].d]),
               f.chunk = writer[b].chunk
        PROVE  f.seg = writer[b].seg
    <3>1. writer[b].d \in Disk
      BY DEF IInv, TypeOK, Writer
    <3>2. CASE f \in LiveIn(index[writer[b].d])
      BY <1>3, <2>1, <3>2 DEF Good, OwnSlotsIn
    <3>3. CASE writer[b].d = w.d /\ f = e
      BY <1>2, <2>1, <3>3 DEF IInv, NoSharedChunk
    <3>4. QED
      BY <1>4, <2>1, <3>1, <3>2, <3>3
  <2>2. QED
    BY <2>1 DEF OwnSlotsIn
<1>7. BehindIn(jxs)
  BY <1>1, <1>2, <1>3, <1>4 DEF IInv, Good, BehindIn, WritersBehind
<1>8. QED
  BY <1>3, <1>4, <1>5, <1>6, <1>7 DEF Finalized, Good, jxs, e

(***************************************************************************)
(* When start_seg takes the chunk at the write pointer, no live slot names *)
(* it: it was reclaimed, or the ring is in its first lap and it was never  *)
(* used.                                                                   *)
(***************************************************************************)
LEMMA CleanChunk ==
  ASSUME TypeOK, NEW jxs \in IndexType, Good(jxs), NEW d \in Disk
  PROVE  /\ Reclaimed(jxs, d) \in IndexType
         /\ \A x \in Disk : \A f \in LiveIn(Reclaimed(jxs, d)[x]) : f \in LiveIn(jxs[x])
         /\ \A f \in LiveIn(Reclaimed(jxs, d)[d]) : f.chunk # wptr[d]
<1>1. jxs \in IndexType /\ BehindIn(jxs)
  BY DEF Good
<1>2. /\ Reclaimed(jxs, d) \in IndexType
      /\ \A x \in Disk : \A f \in LiveIn(Reclaimed(jxs, d)[x]) : f \in LiveIn(jxs[x])
      /\ wrapped[d] \/ WrapsNow(d) =>
           \A f \in LiveIn(Reclaimed(jxs, d)[d]) : f.chunk # wptr[d]
  BY <1>1, ReclaimRemoves
<1>3. ASSUME ~wrapped[d], NEW f \in LiveIn(jxs[d])
      PROVE  f.chunk # wptr[d]
  BY <1>1, <1>3 DEF BehindIn, TypeOK
<1>4. QED
  BY <1>2, <1>3

(***************************************************************************)
(* What a call may add to the index and to the data region for a writer w: *)
(* an open slot of its segment, and frames in its chunk.                   *)
(***************************************************************************)
AddsOpenSlot(ixs, jxs, w) ==
  \A x \in Disk : \A f \in LiveIn(jxs[x]) :
    \/ f \in LiveIn(ixs[x])
    \/ x = w.d /\ f.st = "open" /\ f.chunk = w.chunk /\ f.seg = w.seg
WritesOwnChunk(rows, w) ==
  /\ rows \in [Disk -> [Chunk -> [Unit -> Cell]]]
  /\ \A x \in Disk, k \in Chunk : <<x, k>> # <<w.d, w.chunk>> => rows[x][k] = data[x][k]
  /\ \A u \in Unit : u < w.off => rows[w.d][w.chunk][u].seg = w.seg

(***************************************************************************)
(* A successful start_seg keeps the invariant: whatever of the new segment *)
(* is written in the same call is in the chunk it took and in one open     *)
(* slot.                                                                   *)
(***************************************************************************)
LEMMA StartKeeps ==
  ASSUME IInv, NEW c \in Chn, NEW d \in Disk, TakeChunk(c, d),
         NEW jxs \in IndexType, Good(jxs),
         NEW w \in Writer, w.st = "open", w.d = d, w.chunk = wptr[d],
         writer' = [writer EXCEPT ![c] = w],
         index' \in IndexType,
         AddsOpenSlot(Reclaimed(jxs, d), index', w), WritesOwnChunk(data', w),
         w.count = 0 => w.off = 0,
         NoSharedChunk'
  PROVE  IInv'
<1>1. TypeOK /\ PointerOK
  BY DEF IInv
<1>2. /\ wptr[d] \in Chunk
      /\ wptr' \in [Disk -> 0 .. NChunks] /\ wrapped' \in [Disk -> BOOLEAN]
      /\ PointerOK'
      /\ \A x \in Disk : x # d => wptr'[x] = wptr[x] /\ wrapped'[x] = wrapped[x]
      /\ ~wrapped'[d] => ~wrapped[d] /\ wptr'[d] = wptr[d] + 1
  BY <1>1, AllocRange DEF TakeChunk
<1>16. \A x \in Disk : /\ wptr[x] \in Nat /\ wptr'[x] \in Nat
                       /\ ~wrapped'[x] => ~wrapped[x] /\ wptr[x] <= wptr'[x]
  <2>1. ASSUME NEW x \in Disk
        PROVE  /\ wptr[x] \in Nat /\ wptr'[x] \in Nat
               /\ ~wrapped'[x] => ~wrapped[x] /\ wptr[x] <= wptr'[x]
    <3>1. wptr[x] \in Nat /\ wptr'[x] \in Nat
      BY <1>1, <1>2, FormatAssumption, GroupAssumption DEF TypeOK
    <3>2. CASE x = d
      BY <1>2, <3>1, <3>2
    <3>3. CASE x # d
      <4>1. wptr'[x] = wptr[x] /\ wrapped'[x] = wrapped[x]
        BY <1>2, <3>3
      <4>2. wptr[x] <= wptr'[x]
        BY <3>1, <4>1
      <4>3. QED
        BY <3>1, <4>1, <4>2, Zenon
    <3>4. QED
      BY <3>2, <3>3
  <2>2. QED
    BY <2>1
<1>3. TypeOK'
  <2>1. /\ segSeq' \in [Disk -> [Chn -> 0 .. MaxSegSeq]]
        /\ rr' \in 0 .. RRMod - 1
        /\ owner' \in [Disk -> [Chunk -> Seg \cup {NoSeg}]]
    <3>1. w.type \in RecType
      BY DEF Writer
    <3>2. QED
      BY <1>1, <3>1, FreshTyped
  <2>2. writer' \in [Chn -> Writer]
    BY <1>1 DEF TypeOK
  <2>3. QED
    BY <1>2, <2>1, <2>2 DEF TypeOK, IndexType, WritesOwnChunk
<1>4. \A b \in Chn : writer'[b] = IF b = c THEN w ELSE writer[b]
  BY <1>1 DEF TypeOK
<1>5. \A b \in Chn : writer[b] \in Writer /\ writer[b].d \in Disk /\ writer[b].chunk \in Chunk
  BY <1>1 DEF TypeOK, Writer
<1>6. \A b \in Chn : b # c /\ IsOpen(b) => <<writer[b].d, writer[b].chunk>> # <<d, w.chunk>>
  BY <1>4 DEF NoSharedChunk, IsOpen
<1>7. /\ \A x \in Disk : \A f \in LiveIn(Reclaimed(jxs, d)[x]) : f \in LiveIn(jxs[x])
      /\ \A f \in LiveIn(Reclaimed(jxs, d)[d]) : f.chunk # wptr[d]
  <2>1. TypeOK
    BY <1>1
  <2>2. /\ \A x \in Disk : \A f \in LiveIn(Reclaimed(jxs, d)[x]) : f \in LiveIn(jxs[x])
    BY <2>1, CleanChunk
  <2>3. \A f \in LiveIn(Reclaimed(jxs, d)[d]) : f.chunk # wptr[d]
    BY <2>1, CleanChunk
  <2>4. QED
    BY <2>2, <2>3
<1>8. \A x \in Disk : \A f \in LiveIn(index'[x]) :
        \/ f \in LiveIn(jxs[x]) /\ <<x, f.chunk>> # <<d, w.chunk>>
        \/ x = d /\ f.st = "open" /\ f.chunk = w.chunk /\ f.seg = w.seg
  BY <1>7 DEF AddsOpenSlot
<1>18. /\ \A x \in Disk, k \in Chunk :
            <<x, k>> # <<d, w.chunk>> => data'[x][k] = data[x][k]
       /\ \A u \in Unit : u < w.off => data'[d][w.chunk][u].seg = w.seg
  BY DEF WritesOwnChunk
<1>9. \A x \in Disk : \A f \in LiveIn(jxs[x]) : f.chunk \in Chunk
  <2>1. \A x \in Disk : \A i \in Slot : jxs[x].slot[i] \in IndexSlot
    BY DEF Good, IndexType
  <2>2. QED
    BY <2>1 DEF LiveIn, IndexSlot
<1>10. WriterIntact'
  <2>1. ASSUME NEW b \in Chn, IsOpen(b)', NEW u \in Unit, u < writer'[b].off
        PROVE  data'[writer'[b].d][writer'[b].chunk][u].seg = writer'[b].seg
    <3>1. CASE b = c
      BY <1>4, <1>18, <2>1, <3>1
    <3>2. CASE b # c
      <4>1. IsOpen(b) /\ writer'[b] = writer[b]
        BY <1>4, <2>1, <3>2 DEF IsOpen
      <4>2. data[writer[b].d][writer[b].chunk][u].seg = writer[b].seg
        BY <2>1, <4>1 DEF WriterIntact, IInv
      <4>3. data'[writer[b].d][writer[b].chunk] = data[writer[b].d][writer[b].chunk]
        BY <1>5, <1>6, <1>18, <3>2, <4>1
      <4>4. QED
        BY <4>1, <4>2, <4>3
    <3>3. QED
      BY <3>1, <3>2
  <2>2. QED
    BY <2>1 DEF WriterIntact
<1>11. WritersBehind'
  <2>1. ASSUME NEW b \in Chn, IsOpen(b)', ~wrapped'[writer'[b].d]
        PROVE  writer'[b].chunk < wptr'[writer'[b].d]
    <3>1. CASE b = c
      BY <1>2, <1>4, <2>1, <3>1 DEF Chunk
    <3>2. CASE b # c
      <4>1. IsOpen(b) /\ writer'[b] = writer[b]
        BY <1>4, <2>1, <3>2 DEF IsOpen
      <4>2. ~wrapped[writer[b].d] /\ wptr[writer[b].d] <= wptr'[writer[b].d]
        BY <1>5, <1>16, <2>1, <4>1
      <4>3. QED
        BY <1>1, <1>2, <1>5, <4>1, <4>2 DEF WritersBehind, IInv, TypeOK, Chunk
    <3>3. QED
      BY <3>1, <3>2
  <2>2. QED
    BY <2>1 DEF WritersBehind
<1>12. IntactIn(index)'
  <2>1. ASSUME NEW x \in Disk, NEW f \in LiveIn(index'[x]), f.st = "valid",
               NEW u \in Unit, u < f.bytes
        PROVE  data'[x][f.chunk][u].seg = f.seg
    <3>1. f \in LiveIn(jxs[x]) /\ <<x, f.chunk>> # <<d, w.chunk>>
      BY <1>8, <2>1
    <3>2. data[x][f.chunk][u].seg = f.seg
      BY <2>1, <3>1 DEF Good, IntactIn
    <3>3. QED
      BY <1>9, <1>18, <3>1, <3>2
  <2>2. QED
    BY <2>1 DEF IntactIn
<1>13. OwnSlotsIn(index)'
  <2>1. ASSUME NEW b \in Chn, IsOpen(b)', NEW f \in LiveIn(index'[writer'[b].d]),
               f.chunk = writer'[b].chunk
        PROVE  f.seg = writer'[b].seg
    <3>1. CASE b = c
      BY <1>4, <1>8, <2>1, <3>1
    <3>2. CASE b # c
      <4>1. IsOpen(b) /\ writer'[b] = writer[b]
        BY <1>4, <2>1, <3>2 DEF IsOpen
      <4>2. f \in LiveIn(jxs[writer[b].d])
        BY <1>5, <1>6, <1>8, <2>1, <3>2, <4>1
      <4>3. QED
        BY <2>1, <4>1, <4>2 DEF Good, OwnSlotsIn
    <3>3. QED
      BY <3>1, <3>2
  <2>2. QED
    BY <2>1 DEF OwnSlotsIn
<1>14. BehindIn(index)'
  <2>1. ASSUME NEW x \in Disk, ~wrapped'[x], NEW f \in LiveIn(index'[x])
        PROVE  f.chunk < wptr'[x]
    <3>1. CASE f \in LiveIn(jxs[x])
      <4>1. ~wrapped[x] /\ wptr[x] <= wptr'[x]
        BY <1>16, <2>1
      <4>2. f.chunk < wptr[x]
        BY <3>1, <4>1 DEF Good, BehindIn
      <4>3. QED
        BY <1>1, <1>2, <1>9, <3>1, <4>1, <4>2 DEF TypeOK, Chunk
    <3>2. CASE x = d /\ f.chunk = w.chunk
      BY <1>2, <2>1, <3>2 DEF Chunk
    <3>3. QED
      BY <1>8, <3>1, <3>2
  <2>2. QED
    BY <2>1 DEF BehindIn
<1>15. EmptyAtStart'
  BY <1>4 DEF EmptyAtStart, IsOpen, IInv
<1>17. QED
  BY <1>2, <1>3, <1>10, <1>11, <1>12, <1>13, <1>14, <1>15 DEF IInv, Good

(***************************************************************************)
(* A frame that fits in the writer's chunk keeps the invariant.            *)
(***************************************************************************)
LEMMA AppendKeeps ==
  ASSUME IInv, NEW c \in Chn, IsOpen(c), NEW n \in FrameUnits, Fits(c, n),
         data' = Stamped(writer[c], n),
         writer' = [writer EXCEPT ![c] = After(writer[c], n)],
         UNCHANGED <<wptr, wrapped, segSeq, rr, owner>>,
         index' = index \/ index' = Opened(index, writer[c])
  PROVE  IInv'
<1> DEFINE w == writer[c]
           v == After(w, n)
           e == SlotOf(w, "open")
<1>1. TypeOK /\ PointerOK /\ NoSharedChunk /\ Good(index) /\ WritersBehind /\ WriterIntact
  BY DEF IInv
<1>2. w \in Writer /\ w.d \in Disk /\ w.chunk \in Chunk /\ w.off \in Nat
  BY <1>1, FormatAssumption, GroupAssumption DEF TypeOK, Writer
<1>3. /\ v \in Writer
      /\ v.st = w.st /\ v.d = w.d /\ v.chunk = w.chunk /\ v.seg = w.seg /\ v.off = w.off + n
      /\ data' \in [Disk -> [Chunk -> [Unit -> Cell]]]
      /\ \A x \in Disk, k \in Chunk :
           <<x, k>> # <<w.d, w.chunk>> => data'[x][k] = data[x][k]
      /\ \A u \in Unit :
           data'[w.d][w.chunk][u].seg =
             IF u \in w.off .. w.off + n - 1 THEN w.seg ELSE data[w.d][w.chunk][u].seg
  <2>1. data \in [Disk -> [Chunk -> [Unit -> Cell]]] /\ w.off + n <= ChunkUnits
    BY <1>1 DEF TypeOK, Fits
  <2> HIDE DEF w
  <2>2. QED
    BY <1>2, <2>1, StampTyped DEF w
<1> HIDE DEF v
<1>4. \A b \in Chn : writer'[b] = IF b = c THEN v ELSE writer[b]
  BY <1>1 DEF TypeOK, v
<1>5. \A b \in Chn : /\ writer[b] \in Writer /\ writer[b].d \in Disk /\ writer[b].chunk \in Chunk
                     /\ IsOpen(b)' <=> IsOpen(b)
                     /\ writer'[b].d = writer[b].d /\ writer'[b].chunk = writer[b].chunk
                     /\ writer'[b].seg = writer[b].seg
  BY <1>1, <1>3, <1>4 DEF TypeOK, Writer, IsOpen
<1>6. /\ e \in IndexSlot /\ e.st = "open" /\ e.seg = w.seg /\ e.chunk = w.chunk
  BY <1>2, SlotOfTyped
<1> HIDE DEF e
<1>7. /\ index' \in IndexType
      /\ \A x \in Disk : \A f \in LiveIn(index'[x]) :
           f \in LiveIn(index[x]) \/ (x = w.d /\ f = e)
  <2>1. index \in IndexType
    BY <1>1 DEF Good
  <2>2. CASE index' = index
    BY <2>1, <2>2
  <2>3. CASE index' = Opened(index, w)
    <3>1. index' = [index EXCEPT ![w.d] = IndexWrite(@, e)]
      BY <2>3 DEF Opened, e
    <3>2. QED
      BY <1>2, <1>6, <2>1, <3>1, IndexWriteAdds
  <2>4. QED
    BY <2>2, <2>3
<1>8. TypeOK'
  <2>1. writer' \in [Chn -> Writer]
    BY <1>1, <1>3 DEF TypeOK, v
  <2>2. QED
    BY <1>1, <1>3, <1>7, <2>1 DEF TypeOK, IndexType
<1>9. PointerOK' /\ NoSharedChunk' /\ WritersBehind'
  BY <1>1, <1>5 DEF PointerOK, NoSharedChunk, WritersBehind
<1>10. WriterIntact'
  <2>1. ASSUME NEW b \in Chn, IsOpen(b)', NEW u \in Unit, u < writer'[b].off
        PROVE  data'[writer'[b].d][writer'[b].chunk][u].seg = writer'[b].seg
    <3>1. CASE b = c
      <4>1. u \in w.off .. w.off + n - 1 \/ u < w.off
        BY <1>2, <1>3, <1>4, <2>1, <3>1, FormatAssumption, GroupAssumption DEF Unit
      <4>2. u < w.off => data[w.d][w.chunk][u].seg = w.seg
        BY <1>1 DEF WriterIntact
      <4>3. QED
        BY <1>3, <1>4, <3>1, <4>1, <4>2
    <3>2. CASE b # c
      <4>1. writer'[b] = writer[b] /\ <<writer[b].d, writer[b].chunk>> # <<w.d, w.chunk>>
        BY <1>1, <1>4, <1>5, <2>1, <3>2 DEF NoSharedChunk
      <4>2. data[writer[b].d][writer[b].chunk][u].seg = writer[b].seg
        BY <1>1, <1>5, <2>1, <4>1 DEF WriterIntact
      <4>3. data'[writer[b].d][writer[b].chunk] = data[writer[b].d][writer[b].chunk]
        BY <1>3, <1>5, <4>1
      <4>4. QED
        BY <4>1, <4>2, <4>3
    <3>3. QED
      BY <3>1, <3>2
  <2>2. QED
    BY <2>1 DEF WriterIntact
<1>11. \A x \in Disk : \A f \in LiveIn(index[x]) : f.chunk \in Chunk
  <2>1. \A x \in Disk : \A i \in Slot : index[x].slot[i] \in IndexSlot
    BY <1>1 DEF TypeOK
  <2>2. QED
    BY <2>1 DEF LiveIn, IndexSlot
<1>12. IntactIn(index)'
  <2>1. ASSUME NEW x \in Disk, NEW f \in LiveIn(index'[x]), f.st = "valid",
               NEW u \in Unit, u < f.bytes
        PROVE  data'[x][f.chunk][u].seg = f.seg
    <3>1. f \in LiveIn(index[x])
      BY <1>6, <1>7, <2>1
    <3>2. data[x][f.chunk][u].seg = f.seg
      BY <1>1, <2>1, <3>1 DEF Good, IntactIn
    <3>3. CASE x = w.d /\ f.chunk = w.chunk
      <4>1. f.seg = w.seg
        BY <1>1, <3>1, <3>3 DEF Good, OwnSlotsIn
      <4>2. QED
        BY <1>3, <2>1, <3>2, <3>3, <4>1
    <3>4. CASE <<x, f.chunk>> # <<w.d, w.chunk>>
      BY <1>3, <1>11, <3>1, <3>2, <3>4
    <3>5. QED
      BY <3>3, <3>4
  <2>2. QED
    BY <2>1 DEF IntactIn
<1>13. OwnSlotsIn(index)'
  <2>1. ASSUME NEW b \in Chn, IsOpen(b)', NEW f \in LiveIn(index'[writer'[b].d]),
               f.chunk = writer'[b].chunk
        PROVE  f.seg = writer'[b].seg
    <3>1. IsOpen(b) /\ f.chunk = writer[b].chunk /\ f \in LiveIn(index'[writer[b].d])
      BY <1>5, <2>1
    <3>2. CASE f \in LiveIn(index[writer[b].d])
      BY <1>1, <1>5, <3>1, <3>2 DEF Good, OwnSlotsIn
    <3>3. CASE writer[b].d = w.d /\ f = e
      BY <1>1, <1>5, <1>6, <3>1, <3>3 DEF NoSharedChunk
    <3>4. QED
      BY <1>5, <1>7, <3>1, <3>2, <3>3
  <2>2. QED
    BY <2>1 DEF OwnSlotsIn
<1>14. BehindIn(index)'
  <2>1. ASSUME NEW x \in Disk, ~wrapped'[x], NEW f \in LiveIn(index'[x])
        PROVE  f.chunk < wptr'[x]
    BY <1>1, <1>2, <1>6, <1>7, <2>1 DEF Good, BehindIn, WritersBehind
  <2>2. QED
    BY <2>1 DEF BehindIn
<1>15. EmptyAtStart'
  <2>1. v.count # 0
    BY <1>2 DEF v, After, Writer
  <2>2. QED
    BY <1>4, <1>5, <2>1 DEF EmptyAtStart, IInv, IsOpen
<1>16. QED
  BY <1>7, <1>8, <1>9, <1>10, <1>12, <1>13, <1>14, <1>15 DEF IInv, Good

-----------------------------------------------------------------------------
(* The invariant, action by action. *)

(***************************************************************************)
(* Under "stop" a failed start_seg has already moved the writer to another *)
(* disk of the group, while its segment stays where it was, so the         *)
(* invariant is claimed for a group that overwrites or has one disk.       *)
(***************************************************************************)
SingleOrOverwrite == HddFull = "overwrite" \/ NDisk = 1

LEMMA InitGood == Init => IInv
<1> SUFFICES ASSUME Init PROVE IInv
  OBVIOUS
<1>1. AnyType \in RecType /\ 0 \in Disk /\ 0 \in Chunk /\ 0 \in Slot /\ 0 \in 0 .. ChunkUnits
  BY FormatAssumption, GroupAssumption, PolicyAssumption DEF AnyType, Disk, Chunk, Slot
<1>2. Unwritten \in IndexSlot /\ ~Live(Unwritten) /\ Closed \in Writer /\ Closed.st = "closed"
  BY <1>1 DEF Unwritten, IndexSlot, Live, Closed, Writer
<1>3. Blank \in Cell /\ 0 \in 0 .. MaxSegSeq /\ 0 \in 0 .. RRMod - 1 /\ 0 \in 0 .. NChunks
  BY FormatAssumption, GroupAssumption DEF Blank, Cell
<1> DEFINE ring == [slot |-> [i \in Slot |-> Unwritten], next |-> 0]
           blank == [k \in Chunk |-> [u \in Unit |-> Blank]]
<1>4. ring \in [slot : [Slot -> IndexSlot], next : Slot] /\ LiveIn(ring) = {}
  BY <1>1, <1>2 DEF LiveIn
<1>5. blank \in [Chunk -> [Unit -> Cell]]
  BY <1>3
<1>6. index = [d \in Disk |-> ring] /\ data = [d \in Disk |-> blank]
  BY DEF Init
<1> HIDE DEF ring, blank
<1>7. TypeOK
  BY <1>2, <1>3, <1>4, <1>5, <1>6 DEF TypeOK, Init
<1>8. PointerOK
  BY FormatAssumption, GroupAssumption DEF PointerOK, Init
<1>9. \A c \in Chn : ~IsOpen(c)
  BY <1>2 DEF Init, IsOpen
<1>10. \A d \in Disk : LiveIn(index[d]) = {}
  BY <1>4, <1>6
<1>11. Good(index)
  BY <1>7, <1>9, <1>10 DEF Good, IndexType, TypeOK, IntactIn, OwnSlotsIn, BehindIn
<1>12. QED
  BY <1>7, <1>8, <1>9, <1>11 DEF IInv, NoSharedChunk, WriterIntact, WritersBehind, EmptyAtStart

LEMMA OpenWriterKeeps ==
  ASSUME IInv, NEW c \in Chn, NEW t \in RecType, OpenWriter(c, t), NoSharedChunk'
  PROVE  IInv'
<1>1. TypeOK
  BY DEF IInv
<1>2. PointerOK
  BY DEF IInv
<1>3. index \in IndexType /\ Good(index)
  BY DEF IInv, Good
<1>4. PICK d \in Disk : /\ TakeChunk(c, d)
                        /\ index' = Reclaimed(index, d)
                        /\ writer' = [writer EXCEPT ![c] = Fresh(c, d, t)]
  BY DEF OpenWriter
<1> DEFINE w == Fresh(c, d, t)
<1>5. w \in Writer
  BY <1>1, <1>2, <1>4, FreshTyped
<1>6. w.st = "open" /\ w.d = d /\ w.chunk = wptr[d] /\ w.off = 0
  BY DEF Fresh
<1> HIDE DEF w
<1>7. index' \in IndexType
  BY <1>1, <1>3, <1>4, CleanChunk
<1>8. data' = data /\ data \in [Disk -> [Chunk -> [Unit -> Cell]]]
  BY <1>1 DEF OpenWriter, TypeOK
<1>9. AddsOpenSlot(index', index', w) /\ WritesOwnChunk(data', w)
  BY <1>6, <1>8 DEF AddsOpenSlot, WritesOwnChunk, Unit
<1>10. writer' = [writer EXCEPT ![c] = w]
  BY <1>4 DEF w
<1>11. QED
  BY <1>3, <1>4, <1>5, <1>6, <1>7, <1>8, <1>9, <1>10, StartKeeps

LEMMA ChangeTypeKeeps ==
  ASSUME IInv, NEW c \in Chn, NEW t \in RecType, ChangeType(c, t), NoSharedChunk'
  PROVE  IInv'
<1>1. TypeOK
  BY DEF IInv
<1>2. PointerOK
  BY DEF IInv
<1> DEFINE jxs == Finalized(index, writer[c])
<1>3. jxs \in IndexType /\ Good(jxs)
  BY FinalizedGood DEF ChangeType, Good
<1> HIDE DEF jxs
<1>4. PICK d \in Disk : /\ TakeChunk(c, d)
                        /\ index' = Reclaimed(jxs, d)
                        /\ writer' = [writer EXCEPT ![c] = Fresh(c, d, t)]
  BY DEF ChangeType, jxs
<1> DEFINE w == Fresh(c, d, t)
<1>5. w \in Writer
  BY <1>1, <1>2, <1>4, FreshTyped
<1>6. w.st = "open" /\ w.d = d /\ w.chunk = wptr[d] /\ w.off = 0
  BY DEF Fresh
<1> HIDE DEF w
<1>7. index' \in IndexType
  BY <1>1, <1>3, <1>4, CleanChunk
<1>8. data' = data /\ data \in [Disk -> [Chunk -> [Unit -> Cell]]]
  BY <1>1 DEF ChangeType, TypeOK
<1>9. AddsOpenSlot(index', index', w) /\ WritesOwnChunk(data', w)
  BY <1>6, <1>8 DEF AddsOpenSlot, WritesOwnChunk, Unit
<1>10. writer' = [writer EXCEPT ![c] = w]
  BY <1>4 DEF w
<1>11. QED
  BY <1>3, <1>4, <1>5, <1>6, <1>7, <1>8, <1>9, <1>10, StartKeeps

LEMMA RollFrameKeeps ==
  ASSUME IInv, NEW c \in Chn, NEW n \in FrameUnits, RollFrame(c, n), NoSharedChunk'
  PROVE  IInv'
<1>1. TypeOK
  BY DEF IInv
<1>2. PointerOK
  BY DEF IInv
<1>3. IsOpen(c) /\ n <= ChunkUnits /\ writer[c].type \in RecType
  BY <1>1 DEF RollFrame, TypeOK, Writer
<1> DEFINE jxs == Finalized(index, writer[c])
           t == writer[c].type
<1>4. jxs \in IndexType /\ Good(jxs)
  BY <1>3, FinalizedGood DEF Good
<1> HIDE DEF jxs, t
<1>5. PICK d \in Disk : /\ TakeChunk(c, d)
                        /\ index' = Opened(Reclaimed(jxs, d), Fresh(c, d, t))
                        /\ data' = Stamped(Fresh(c, d, t), n)
                        /\ writer' = [writer EXCEPT ![c] = After(Fresh(c, d, t), n)]
  BY DEF RollFrame, jxs, t
<1> DEFINE f == Fresh(c, d, t)
           w == After(f, n)
           rxs == Reclaimed(jxs, d)
           e == SlotOf(f, "open")
<1>6. f \in Writer
  BY <1>1, <1>2, <1>3, <1>5, FreshTyped DEF t
<1>7. f.st = "open" /\ f.d = d /\ f.chunk = wptr[d] /\ f.off = 0
  BY DEF Fresh
<1> HIDE DEF f
<1>8. f.off + n <= ChunkUnits /\ data \in [Disk -> [Chunk -> [Unit -> Cell]]]
  BY <1>1, <1>3, <1>7, FormatAssumption, GroupAssumption DEF TypeOK
<1>9. /\ w \in Writer /\ w.st = "open" /\ w.d = d /\ w.chunk = wptr[d]
      /\ w.seg = f.seg /\ w.off = n /\ w.count # 0
      /\ Stamped(f, n) \in [Disk -> [Chunk -> [Unit -> Cell]]]
      /\ \A x \in Disk, k \in Chunk :
           <<x, k>> # <<d, w.chunk>> => Stamped(f, n)[x][k] = data[x][k]
      /\ \A u \in Unit : u < w.off => Stamped(f, n)[d][w.chunk][u].seg = w.seg
  <2>1. n \in Nat \ {0} /\ f.off + n = n
    BY <1>7, FormatAssumption, GroupAssumption
  <2>2. /\ w \in Writer /\ w.st = f.st /\ w.d = f.d /\ w.chunk = f.chunk
        /\ w.seg = f.seg /\ w.off = f.off + n
    BY <1>6, <1>8, StampTyped
  <2>3. /\ Stamped(f, n) \in [Disk -> [Chunk -> [Unit -> Cell]]]
        /\ \A x \in Disk, k \in Chunk :
             <<x, k>> # <<f.d, f.chunk>> => Stamped(f, n)[x][k] = data[x][k]
    BY <1>6, <1>8, StampTyped
  <2>4. \A u \in Unit : Stamped(f, n)[f.d][f.chunk][u].seg =
          IF u \in f.off .. f.off + n - 1 THEN f.seg ELSE data[f.d][f.chunk][u].seg
    BY <1>6, <1>8, StampTyped
  <2> HIDE DEF w
  <2>5. \A u \in Unit : u < n => Stamped(f, n)[f.d][f.chunk][u].seg = f.seg
    BY <1>7, <2>1, <2>4 DEF Unit
  <2>6. w.count # 0
    BY <1>6 DEF w, After, Writer
  <2>7. QED
    BY <1>7, <2>1, <2>2, <2>3, <2>5, <2>6
<1> HIDE DEF w
<1>10. rxs \in IndexType
  BY <1>1, <1>4, CleanChunk
<1>11. e \in IndexSlot /\ e.st = "open" /\ e.seg = w.seg /\ e.chunk = w.chunk
  BY <1>6, <1>7, <1>9, SlotOfTyped
<1>12. index' = [rxs EXCEPT ![d] = IndexWrite(@, e)]
  BY <1>5, <1>7 DEF Opened, f
<1> HIDE DEF rxs, e
<1>13. /\ index' \in IndexType
       /\ \A x \in Disk : \A g \in LiveIn(index'[x]) :
            g \in LiveIn(rxs[x]) \/ (x = d /\ g = e)
  BY <1>10, <1>11, <1>12, IndexWriteAdds
<1>14. AddsOpenSlot(Reclaimed(jxs, d), index', w)
  BY <1>9, <1>11, <1>13 DEF rxs, AddsOpenSlot
<1>15. data' = Stamped(f, n) /\ writer' = [writer EXCEPT ![c] = w]
  BY <1>5 DEF f, w
<1>16. WritesOwnChunk(data', w)
  BY <1>9, <1>15 DEF WritesOwnChunk
<1>17. QED
  BY <1>4, <1>5, <1>9, <1>13, <1>14, <1>15, <1>16, StartKeeps

LEMMA FrameKeeps ==
  ASSUME IInv, NEW c \in Chn, NEW n \in FrameUnits, FirstFrame(c, n) \/ NextFrame(c, n)
  PROVE  IInv'
<1>1. CASE NextFrame(c, n)
  BY <1>1, AppendKeeps DEF NextFrame
<1>2. CASE FirstFrame(c, n)
  <2>1. writer[c].off = 0
    BY <1>2 DEF IInv, EmptyAtStart, FirstFrame
  <2>2. Fits(c, n)
    BY <1>2, <2>1, FormatAssumption, GroupAssumption DEF FirstFrame, Fits
  <2>3. QED
    BY <1>2, <2>2, AppendKeeps DEF FirstFrame
<1>3. QED
  BY <1>1, <1>2

LEMMA CloseWriterKeeps ==
  ASSUME IInv, NEW c \in Chn, CloseWriter(c)
  PROVE  IInv'
<1>1. TypeOK /\ Closed \in Writer /\ Closed.st = "closed"
  BY FormatAssumption, GroupAssumption, PolicyAssumption DEF IInv, Closed, Writer, AnyType, Disk, Chunk
<1>2. Good(index')
  BY FinalizedGood DEF CloseWriter
<1>3. \A b \in Chn : IsOpen(b)' => IsOpen(b) /\ writer'[b] = writer[b]
  BY <1>1 DEF CloseWriter, TypeOK, IsOpen
<1>4. TypeOK' /\ PointerOK'
  BY <1>1, <1>2 DEF CloseWriter, TypeOK, Good, IndexType, PointerOK, IInv
<1>5. NoSharedChunk' /\ WriterIntact' /\ WritersBehind' /\ EmptyAtStart'
  BY <1>3 DEF CloseWriter, IInv, NoSharedChunk, WriterIntact, WritersBehind, EmptyAtStart
<1>6. Good(index)'
  BY <1>2, <1>3 DEF CloseWriter, Good, IntactIn, OwnSlotsIn, BehindIn
<1>7. QED
  BY <1>4, <1>5, <1>6 DEF IInv

(***************************************************************************)
(* A failed start_seg: under "overwrite" it cannot happen, and in a group  *)
(* of one disk the writer stays where it was.                              *)
(***************************************************************************)
LEMMA FullWriters ==
  ASSUME TypeOK, SingleOrOverwrite, NEW c \in Chn,
         \/ OpenWriterFull(c)
         \/ \E n \in FrameUnits : RollFrameFull(c, n)
         \/ \E t \in RecType : ChangeTypeFull(c, t)
  PROVE  /\ \E d \in Disk : NoChunk(d)
         /\ writer' \in [Chn -> Writer]
         /\ \A b \in Chn : /\ writer'[b].st = writer[b].st /\ writer'[b].d = writer[b].d
                            /\ writer'[b].chunk = writer[b].chunk /\ writer'[b].seg = writer[b].seg
                            /\ writer'[b].off = writer[b].off /\ writer'[b].count = writer[b].count
                            /\ writer'[b].endOff = writer[b].endOff
         /\ index' = index \/ (IsOpen(c) /\ index' = Finalized(index, writer[c]))
<1>1. PICK d \in Disk : NoChunk(d) /\ (~IsOpen(c) => writer' = writer)
                       /\ (IsOpen(c) => \/ writer' = [writer EXCEPT ![c] = [@ EXCEPT !.d = d]]
                                        \/ \E t \in RecType :
                                             writer' = [writer EXCEPT ![c] =
                                                          [@ EXCEPT !.d = d, !.type = t]])
  BY DEF OpenWriterFull, RollFrameFull, ChangeTypeFull
<1>2. NDisk = 1
  BY <1>1, PolicyAssumption DEF SingleOrOverwrite, NoChunk, NoSpace
<1>3. \A x \in Disk : x = d
  BY <1>2 DEF Disk
<1>4. TypeOK
  OBVIOUS
<1>5. writer[c] \in Writer /\ writer[c].d = d
  BY <1>3, <1>4 DEF TypeOK, Writer
<1>6. /\ writer' \in [Chn -> Writer]
      /\ \A b \in Chn : /\ writer'[b].st = writer[b].st /\ writer'[b].d = writer[b].d
                         /\ writer'[b].chunk = writer[b].chunk /\ writer'[b].seg = writer[b].seg
                         /\ writer'[b].off = writer[b].off /\ writer'[b].count = writer[b].count
                         /\ writer'[b].endOff = writer[b].endOff
  <2>1. CASE writer' = writer
    BY <1>4, <2>1 DEF TypeOK
  <2>2. CASE writer' = [writer EXCEPT ![c] = [@ EXCEPT !.d = d]]
    <3>1. writer' = [writer EXCEPT ![c] = [writer[c] EXCEPT !.d = d]]
      BY <2>2
    <3>2. [writer[c] EXCEPT !.d = d] = writer[c]
      BY <1>5 DEF Writer
    <3>3. writer' = writer
      BY <1>4, <3>1, <3>2 DEF TypeOK
    <3>4. QED
      BY <2>1, <3>3
  <2>3. ASSUME NEW t \in RecType, writer' = [writer EXCEPT ![c] = [@ EXCEPT !.d = d, !.type = t]]
        PROVE  /\ writer' \in [Chn -> Writer]
               /\ \A b \in Chn :
                    /\ writer'[b].st = writer[b].st /\ writer'[b].d = writer[b].d
                    /\ writer'[b].chunk = writer[b].chunk /\ writer'[b].seg = writer[b].seg
                    /\ writer'[b].off = writer[b].off /\ writer'[b].count = writer[b].count
                    /\ writer'[b].endOff = writer[b].endOff
    <3> DEFINE v == [[writer[c] EXCEPT !.d = d] EXCEPT !.type = t]
    <3>1. writer' = [writer EXCEPT ![c] = v]
      BY <1>4, <2>3, Zenon DEF TypeOK
    <3>2. v = [writer[c] EXCEPT !.type = t]
      BY <1>5 DEF Writer
    <3>3. /\ v \in Writer
          /\ v.st = writer[c].st /\ v.d = writer[c].d /\ v.chunk = writer[c].chunk
          /\ v.seg = writer[c].seg /\ v.off = writer[c].off /\ v.count = writer[c].count
          /\ v.endOff = writer[c].endOff
      BY <1>5, <3>2 DEF Writer
    <3> HIDE DEF v
    <3>4. QED
      BY <1>4, <3>1, <3>3 DEF TypeOK
  <2>4. QED
    BY <1>1, <2>1, <2>2, <2>3
<1>7. index' = index \/ (IsOpen(c) /\ index' = Finalized(index, writer[c]))
  BY DEF OpenWriterFull, RollFrameFull, ChangeTypeFull
<1>8. QED
  BY <1>1, <1>6, <1>7

LEMMA FullKeeps ==
  ASSUME IInv, SingleOrOverwrite, NEW c \in Chn,
         \/ OpenWriterFull(c)
         \/ \E n \in FrameUnits : RollFrameFull(c, n)
         \/ \E t \in RecType : ChangeTypeFull(c, t)
  PROVE  IInv'
<1>4. TypeOK
  BY DEF IInv
<1>6. /\ writer' \in [Chn -> Writer]
      /\ \A b \in Chn : /\ writer'[b].st = writer[b].st /\ writer'[b].d = writer[b].d
                         /\ writer'[b].chunk = writer[b].chunk /\ writer'[b].seg = writer[b].seg
                         /\ writer'[b].off = writer[b].off /\ writer'[b].count = writer[b].count
      /\ index' = index \/ (IsOpen(c) /\ index' = Finalized(index, writer[c]))
  BY <1>4, FullWriters
<1>1. PICK d \in Disk : NoChunk(d)
  BY <1>4, FullWriters
<1>7. Good(index')
  <2>1. index' = index \/ (IsOpen(c) /\ index' = Finalized(index, writer[c]))
    BY <1>6
  <2>2. Good(index)
    BY DEF IInv
  <2>3. CASE index' = index
    BY <2>2, <2>3
  <2>4. CASE IsOpen(c) /\ index' = Finalized(index, writer[c])
    BY <2>4, FinalizedGood
  <2>5. QED
    BY <2>1, <2>3, <2>4
<1>8. wptr' = wptr /\ wrapped' = wrapped /\ data' = data /\ segSeq' = segSeq /\ owner' = owner
  BY <1>1 DEF NoChunk
<1>9. rr' \in 0 .. RRMod - 1
  <2>1. rr' = (rr + 1) % RRMod
    BY <1>1 DEF NoChunk, Pick
  <2>2. QED
    BY <1>4, <2>1, FormatAssumption, GroupAssumption DEF TypeOK
<1>10. TypeOK' /\ PointerOK'
  BY <1>4, <1>6, <1>7, <1>8, <1>9 DEF TypeOK, Good, IndexType, PointerOK, IInv
<1>11. NoSharedChunk' /\ WriterIntact' /\ WritersBehind' /\ EmptyAtStart'
  BY <1>6, <1>8 DEF IInv, IsOpen, NoSharedChunk, WriterIntact, WritersBehind, EmptyAtStart
<1>12. Good(index)'
  BY <1>6, <1>7, <1>8 DEF Good, IntactIn, OwnSlotsIn, BehindIn, IsOpen
<1>13. QED
  BY <1>10, <1>11, <1>12 DEF IInv

LEMMA NextKeeps ==
  ASSUME IInv, SingleOrOverwrite, Next, NoSharedChunk'
  PROVE  IInv'
<1>1. PICK c \in Chn :
        \/ \E t \in RecType : OpenWriter(c, t) \/ ChangeType(c, t) \/ ChangeTypeFull(c, t)
        \/ \E n \in FrameUnits : \/ FirstFrame(c, n) \/ NextFrame(c, n)
                                 \/ RollFrame(c, n) \/ RollFrameFull(c, n)
        \/ OpenWriterFull(c)
        \/ CloseWriter(c)
  BY DEF Next
<1>2. CASE \E t \in RecType : OpenWriter(c, t)
  BY <1>2, OpenWriterKeeps
<1>3. CASE \E t \in RecType : ChangeType(c, t)
  BY <1>3, ChangeTypeKeeps
<1>4. CASE \E n \in FrameUnits : FirstFrame(c, n) \/ NextFrame(c, n)
  BY <1>4, FrameKeeps
<1>5. CASE \E n \in FrameUnits : RollFrame(c, n)
  BY <1>5, RollFrameKeeps
<1>6. CASE CloseWriter(c)
  BY <1>6, CloseWriterKeeps
<1>7. CASE \/ OpenWriterFull(c)
           \/ \E n \in FrameUnits : RollFrameFull(c, n)
           \/ \E t \in RecType : ChangeTypeFull(c, t)
  BY <1>7, FullKeeps
<1>8. QED
  BY <1>1, <1>2, <1>3, <1>4, <1>5, <1>6, <1>7

LEMMA StutterKeeps == IInv /\ UNCHANGED vars => IInv'
BY DEF IInv, vars, TypeOK, PointerOK, NoSharedChunk, WriterIntact, WritersBehind, EmptyAtStart,
       Good, IndexType, IntactIn, OwnSlotsIn, BehindIn, IsOpen

(***************************************************************************)
(* A group of one disk that stops when full needs no assumption about the  *)
(* pace of the writers: a chunk is handed out once, ahead of all of them.  *)
(***************************************************************************)
LEMMA StopNeverShares ==
  ASSUME IInv, HddFull = "stop", NDisk = 1, Next
  PROVE  NoSharedChunk'
<1>1. TypeOK /\ PointerOK /\ NoSharedChunk /\ WritersBehind
  BY DEF IInv
<1>2. \A x \in Disk : x = 0 /\ wptr[x] \in Nat
  BY <1>1, FormatAssumption, GroupAssumption DEF Disk, TypeOK
<1>3. PICK c \in Chn :
        \/ \E t \in RecType : OpenWriter(c, t) \/ ChangeType(c, t) \/ ChangeTypeFull(c, t)
        \/ \E n \in FrameUnits : \/ FirstFrame(c, n) \/ NextFrame(c, n)
                                 \/ RollFrame(c, n) \/ RollFrameFull(c, n)
        \/ OpenWriterFull(c)
        \/ CloseWriter(c)
  BY DEF Next
<1>4. \A b \in Chn : b # c => writer'[b] = writer[b]
  <2>1. \A w : writer' = [writer EXCEPT ![c] = w] => \A b \in Chn : b # c => writer'[b] = writer[b]
    BY <1>1, Zenon DEF TypeOK
  <2>2. \/ writer' = writer
        \/ \E w : writer' = [writer EXCEPT ![c] = w]
    BY <1>3, Zenon DEF OpenWriter, ChangeType, ChangeTypeFull, FirstFrame, NextFrame,
       RollFrame, RollFrameFull, OpenWriterFull, CloseWriter
  <2>3. QED
    BY <2>1, <2>2, Zenon
<1>5. \A b \in Chn : IsOpen(b) => writer[b].chunk < wptr[writer[b].d] /\ writer[b].chunk \in Nat
  BY <1>1 DEF WritersBehind, PointerOK, TypeOK, Writer, Chunk
<1>6. \/ ~IsOpen(c)'
      \/ IsOpen(c) /\ writer'[c].chunk = writer[c].chunk
      \/ \E d \in Disk : writer'[c].chunk = wptr[d]
  <2>1. ASSUME NEW w, writer' = [writer EXCEPT ![c] = w] PROVE writer'[c] = w
    BY <1>1, <2>1, Zenon DEF TypeOK
  <2>2. CASE \/ \E t \in RecType : OpenWriter(c, t) \/ ChangeType(c, t)
             \/ \E n \in FrameUnits : RollFrame(c, n)
    <3>1. PICK d \in Disk, t \in RecType \cup {writer[c].type}, n \in FrameUnits \cup {0} :
            \/ writer' = [writer EXCEPT ![c] = Fresh(c, d, t)]
            \/ writer' = [writer EXCEPT ![c] = After(Fresh(c, d, t), n)]
      <4>1. CASE \E t \in RecType : OpenWriter(c, t) \/ ChangeType(c, t)
        BY <4>1 DEF OpenWriter, ChangeType
      <4>2. CASE \E n \in FrameUnits : RollFrame(c, n)
        BY <4>2 DEF RollFrame
      <4>3. QED
        BY <2>2, <4>1, <4>2
    <3>2. Fresh(c, d, t).chunk = wptr[d] /\ After(Fresh(c, d, t), n).chunk = wptr[d]
      BY Zenon DEF Fresh, After
    <3>3. QED
      BY <2>1, <3>1, <3>2
  <2>3. CASE \E n \in FrameUnits : FirstFrame(c, n) \/ NextFrame(c, n)
    <3>1. PICK n \in FrameUnits : writer' = [writer EXCEPT ![c] = After(writer[c], n)]
      BY <2>3 DEF FirstFrame, NextFrame
    <3>2. After(writer[c], n).chunk = writer[c].chunk
      BY <1>1, Zenon DEF After, TypeOK, Writer
    <3>3. QED
      BY <2>1, <2>3, <3>1, <3>2 DEF FirstFrame, NextFrame
  <2>4. CASE \/ \E t \in RecType : ChangeTypeFull(c, t)
             \/ \E n \in FrameUnits : RollFrameFull(c, n)
    <3>1. PICK d \in Disk, t \in RecType :
            \/ writer' = [writer EXCEPT ![c] = [@ EXCEPT !.d = d]]
            \/ writer' = [writer EXCEPT ![c] = [@ EXCEPT !.d = d, !.type = t]]
      BY <2>4, FormatAssumption DEF ChangeTypeFull, RollFrameFull
    <3>2. /\ [writer[c] EXCEPT !.d = d].chunk = writer[c].chunk
          /\ [writer[c] EXCEPT !.d = d, !.type = t].chunk = writer[c].chunk
      BY <1>1, Zenon DEF TypeOK, Writer
    <3>3. IsOpen(c)
      BY <2>4 DEF ChangeTypeFull, RollFrameFull
    <3>4. QED
      BY <2>1, <3>1, <3>2, <3>3
  <2>5. CASE OpenWriterFull(c)
    BY <2>5 DEF OpenWriterFull, IsOpen
  <2>6. CASE CloseWriter(c)
    BY <2>1, <2>6 DEF CloseWriter, Closed, IsOpen
  <2>7. QED
    BY <1>3, <2>2, <2>3, <2>4, <2>5, <2>6
<1>7. ASSUME NEW b \in Chn, b # c, IsOpen(b)', IsOpen(c)'
      PROVE  writer'[b].chunk # writer'[c].chunk
  <2>1. IsOpen(b) /\ writer'[b] = writer[b] /\ writer[b].d \in Disk /\ writer[c].d \in Disk
    BY <1>1, <1>4, <1>7 DEF IsOpen, TypeOK, Writer
  <2>2. writer[b].chunk \in Nat /\ \A d \in Disk : writer[b].chunk < wptr[d]
    BY <1>2, <1>5, <2>1
  <2>3. IsOpen(c) => writer[b].chunk # writer[c].chunk
    BY <1>1, <1>2, <1>7, <2>1 DEF NoSharedChunk
  <2>4. QED
    BY <1>2, <1>6, <1>7, <2>1, <2>2, <2>3
<1>8. ASSUME NEW a \in Chn, NEW b \in Chn, a # b, a # c, b # c, IsOpen(a)', IsOpen(b)'
      PROVE  <<writer'[a].d, writer'[a].chunk>> # <<writer'[b].d, writer'[b].chunk>>
  BY <1>1, <1>4, <1>8 DEF NoSharedChunk, IsOpen
<1>9. ASSUME NEW a \in Chn, NEW b \in Chn, a # b, IsOpen(a)', IsOpen(b)'
      PROVE  <<writer'[a].d, writer'[a].chunk>> # <<writer'[b].d, writer'[b].chunk>>
  BY <1>7, <1>8, <1>9
<1>10. QED
  BY <1>9 DEF NoSharedChunk

-----------------------------------------------------------------------------
(* The theorems. *)

(***************************************************************************)
(* In a group that overwrites, or of one disk, the invariant holds as long *)
(* as every writer leaves its chunk before the ring comes round to it.     *)
(***************************************************************************)
THEOREM PacedInvariant ==
  ASSUME SingleOrOverwrite
  PROVE  PacedSpec => []IInv
<1>1. Init => IInv
  BY InitGood
<1>2. IInv /\ [PacedNext]_vars => IInv'
  BY NextKeeps, StutterKeeps DEF PacedNext
<1>3. QED
  BY <1>1, <1>2, PTL DEF PacedSpec

(***************************************************************************)
(* Every value stays in its type: the write pointers stay on the ring, the *)
(* index pointers on the slots and the writers' offsets in their chunk.    *)
(***************************************************************************)
THEOREM TypeCorrect ==
  ASSUME SingleOrOverwrite
  PROVE  PacedSpec => []TypeOK
<1>1. IInv => TypeOK
  BY DEF IInv
<1>2. PacedSpec => []IInv
  BY PacedInvariant
<1>3. QED
  BY <1>1, <1>2, PTL

(***************************************************************************)
(* rsdk_index.h:17: every unit in the extent of a segment that a search    *)
(* returns still holds that segment's own bytes.                           *)
(***************************************************************************)
LEMMA IInvIntact == IInv => SegmentIntact
BY DEF IInv, Good, IntactIn, SegmentIntact, Query, ValidIn

THEOREM PacedIntact ==
  ASSUME SingleOrOverwrite
  PROVE  PacedSpec => []SegmentIntact
<1>1. PacedSpec => []IInv
  BY PacedInvariant
<1>2. QED
  BY <1>1, IInvIntact, PTL

(***************************************************************************)
(* One disk that stops when full keeps its segments intact whatever the    *)
(* pace of the writers.                                                    *)
(***************************************************************************)
THEOREM StopIntact ==
  ASSUME HddFull = "stop", NDisk = 1
  PROVE  Spec => []SegmentIntact
<1>1. Init => IInv
  BY InitGood
<1>2. IInv /\ [Next]_vars => IInv'
  BY NextKeeps, StopNeverShares, StutterKeeps DEF SingleOrOverwrite
<1>3. QED
  BY <1>1, <1>2, IInvIntact, PTL DEF Spec

(***************************************************************************)
(* The balance: picking among the least loaded disks keeps every disk      *)
(* within the tie threshold and one chunk of every other, in every run.    *)
(***************************************************************************)
PointersCount == wptr \in [Disk -> Nat] /\ wrapped \in [Disk -> BOOLEAN]

LEMMA PickedStaysEven ==
  ASSUME PointersCount, EvenFill, NEW d \in Disk, Pick(d), AllocChunk(d)
  PROVE  PointersCount' /\ EvenFill'
<1>1. TieChunks \in Nat
  BY FormatAssumption, GroupAssumption
<1>2. wptr' = [wptr EXCEPT ![d] = IF WrapsNow(d) THEN 0 ELSE @ + 1]
  BY DEF AllocChunk
<1>3. wrapped' = [wrapped EXCEPT ![d] = @ \/ WrapsNow(d)]
  BY DEF AllocChunk
<1>4. wrapped' \in [Disk -> BOOLEAN] /\ wrapped'[d] = (wrapped[d] \/ WrapsNow(d))
  BY <1>3, Zenon DEF PointersCount, WrapsNow
<1>5. \A x \in Disk : x # d => wrapped'[x] = wrapped[x]
  BY <1>3, Zenon DEF PointersCount
<1>6. wptr' \in [Disk -> Nat] /\ wptr'[d] = IF WrapsNow(d) THEN 0 ELSE wptr[d] + 1
  BY <1>2 DEF PointersCount
<1>7. \A x \in Disk : x # d => wptr'[x] = wptr[x]
  BY <1>2 DEF PointersCount
<1>8. ASSUME \A x \in Disk : ~wrapped'[x], NEW a \in Disk, NEW b \in Disk
      PROVE  wptr'[a] <= wptr'[b] + TieChunks + 1
  <2>1. ~WrapsNow(d) /\ \A x \in Disk : ~wrapped[x]
    BY <1>4, <1>5, <1>8
  <2>2. \A x \in Disk : wptr[d] <= wptr[x] + TieChunks
    BY DEF Pick, Tied
  <2>3. wptr[a] <= wptr[b] + TieChunks + 1
    BY <2>1 DEF EvenFill
  <2>4. wptr[a] \in Nat /\ wptr[b] \in Nat /\ wptr[d] \in Nat
    BY DEF PointersCount
  <2>5. QED
    BY <1>1, <1>6, <1>7, <2>1, <2>2, <2>3, <2>4
<1>9. QED
  BY <1>4, <1>6, <1>8 DEF PointersCount, EvenFill

THEOREM BalanceEven == Spec => []EvenFill
<1>1. Init => PointersCount /\ EvenFill
  BY FormatAssumption, GroupAssumption DEF Init, PointersCount, EvenFill
<1>2. PointersCount /\ EvenFill /\ [Next]_vars => PointersCount' /\ EvenFill'
  <2> SUFFICES ASSUME PointersCount, EvenFill, [Next]_vars
               PROVE  PointersCount' /\ EvenFill'
    OBVIOUS
  <2>1. \/ wptr' = wptr /\ wrapped' = wrapped
        \/ \E d \in Disk : Pick(d) /\ AllocChunk(d)
    <3>1. CASE UNCHANGED vars
      BY <3>1, Zenon DEF vars
    <3>2. ASSUME NEW c \in Chn,
                 \/ \E t \in RecType : OpenWriter(c, t)
                 \/ \E t \in RecType : ChangeType(c, t)
                 \/ \E n \in FrameUnits : RollFrame(c, n)
          PROVE  \E d \in Disk : Pick(d) /\ AllocChunk(d)
      <4>1. \E d \in Disk : TakeChunk(c, d)
        BY <3>2, Zenon DEF OpenWriter, ChangeType, RollFrame
      <4>2. QED
        BY <4>1, Zenon DEF TakeChunk
    <3>3. ASSUME NEW c \in Chn,
                 \/ OpenWriterFull(c)
                 \/ \E t \in RecType : ChangeTypeFull(c, t)
                 \/ \E n \in FrameUnits : RollFrameFull(c, n)
          PROVE  wptr' = wptr /\ wrapped' = wrapped
      <4>1. \E d \in Disk : NoChunk(d)
        BY <3>3, Zenon DEF OpenWriterFull, ChangeTypeFull, RollFrameFull
      <4>2. QED
        BY <4>1, Zenon DEF NoChunk
    <3>4. ASSUME NEW c \in Chn,
                 \/ \E n \in FrameUnits : FirstFrame(c, n) \/ NextFrame(c, n)
                 \/ CloseWriter(c)
          PROVE  wptr' = wptr /\ wrapped' = wrapped
      BY <3>4, Zenon DEF FirstFrame, NextFrame, CloseWriter
    <3>5. QED
      BY <3>1, <3>2, <3>3, <3>4, Zenon DEF Next
  <2>2. CASE wptr' = wptr /\ wrapped' = wrapped
    BY <2>2 DEF PointersCount, EvenFill
  <2>3. QED
    BY <2>1, <2>2, PickedStaysEven
<1>3. QED
  BY <1>1, <1>2, PTL DEF Spec

-----------------------------------------------------------------------------
(***************************************************************************)
(* The searches are exact and the recorder implements Archive: the index   *)
(* ring never overruns a live slot, the upsert finds the slot of the first *)
(* frame, and a recording is lost only to the ring.                        *)
(***************************************************************************)

(***************************************************************************)
(* The channels are finitely many (RSDK_MAX_CHN), and a disk has at least  *)
(* as many index slots as chunks and channels: rsdk_storgedev.c:53 gives   *)
(* every chunk slots_per_chunk of them.                                    *)
(***************************************************************************)
RingAssumption == IsFiniteSet(Chn) /\ NSlots >= NChunks + Cardinality(Chn) - 1

(***************************************************************************)
(* The upsert looks back over all the slots that can name an open writer's *)
(* segment: a disk of fewer chunks than RSDK_INDEX_SCAN_MAX.               *)
(***************************************************************************)
LookBack == Scan >= NChunks + Cardinality(Chn) - 1

Ring == [slot : [Slot -> IndexSlot], next : Slot]

-----------------------------------------------------------------------------
(* The index ring: ages of slots, and what rsdk_index_write does to them. *)

LEMMA RingSteps ==
  ASSUME NEW n \in Slot
  PROVE  /\ (n + 1) % NSlots = IF n + 1 = NSlots THEN 0 ELSE n + 1
         /\ \A k \in 1 .. NSlots :
              (n + NSlots - k) % NSlots = IF k <= n THEN n - k ELSE n + NSlots - k
<1>1. NSlots \in Nat \ {0} /\ n \in 0 .. NSlots - 1
  BY FormatAssumption DEF Slot
<1>2. (n + 1) % NSlots = IF n + 1 = NSlots THEN 0 ELSE n + 1
  BY <1>1
<1>3. ASSUME NEW k \in 1 .. NSlots
      PROVE  (n + NSlots - k) % NSlots = IF k <= n THEN n - k ELSE n + NSlots - k
  BY <1>1
<1>4. QED
  BY <1>2, <1>3

(***************************************************************************)
(* The age of a slot tells the slots apart; the next slot is the oldest.   *)
(***************************************************************************)
LEMMA Ages ==
  ASSUME NEW ix \in Ring
  PROVE  /\ \A i \in Slot : SlotAge(ix, i) \in 0 .. NSlots - 1
         /\ \A i, j \in Slot : SlotAge(ix, i) = SlotAge(ix, j) => i = j
         /\ \A i \in Slot : SlotAge(ix, i) = NSlots - 1 <=> i = ix.next
<1>1. NSlots \in Nat \ {0} /\ ix.next \in 0 .. NSlots - 1
  BY FormatAssumption DEF Ring, Slot
<1>2. QED
  BY <1>1 DEF SlotAge, Slot

(***************************************************************************)
(* Looking back k slots is being at the slot of age k - 1.                 *)
(***************************************************************************)
LEMMA BackAges ==
  ASSUME NEW ix \in Ring, NEW k \in 1 .. NSlots
  PROVE  Back(ix, k) \in Slot /\ SlotAge(ix, Back(ix, k)) = k - 1
<1>1. NSlots \in Nat \ {0} /\ ix.next \in Slot
  BY FormatAssumption DEF Ring
<1>2. Back(ix, k) = IF k <= ix.next THEN ix.next - k ELSE ix.next + NSlots - k
  BY <1>1, RingSteps DEF Back
<1>3. QED
  BY <1>1, <1>2 DEF SlotAge, Slot

LEMMA AgeBack ==
  ASSUME NEW ix \in Ring, NEW i \in Slot
  PROVE  SlotAge(ix, i) + 1 \in 1 .. NSlots /\ Back(ix, SlotAge(ix, i) + 1) = i
<1>1. SlotAge(ix, i) \in 0 .. NSlots - 1 /\ NSlots \in Nat \ {0}
  BY Ages, FormatAssumption
<1>2. SlotAge(ix, i) + 1 \in 1 .. NSlots
  BY <1>1
<1>3. Back(ix, SlotAge(ix, i) + 1) \in Slot
      /\ SlotAge(ix, Back(ix, SlotAge(ix, i) + 1)) = SlotAge(ix, i)
  BY <1>1, <1>2, BackAges
<1>4. QED
  BY <1>2, <1>3, Ages

(***************************************************************************)
(* An appended slot is the youngest and makes every other one older.       *)
(***************************************************************************)
LEMMA AppendAges ==
  ASSUME NEW ix \in Ring, NEW jx \in Ring, jx.next = (ix.next + 1) % NSlots
  PROVE  /\ SlotAge(jx, ix.next) = 0
         /\ \A i \in Slot : i # ix.next => SlotAge(jx, i) = SlotAge(ix, i) + 1
<1>1. NSlots \in Nat \ {0} /\ ix.next \in 0 .. NSlots - 1
  BY FormatAssumption DEF Ring, Slot
<1>2. jx.next = IF ix.next + 1 = NSlots THEN 0 ELSE ix.next + 1
  BY <1>1, RingSteps DEF Slot
<1>3. CASE ix.next + 1 = NSlots
  <2>1. jx.next = 0 /\ ix.next = NSlots - 1
    BY <1>1, <1>2, <1>3
  <2>2. QED
    BY <1>1, <2>1 DEF SlotAge, Slot
<1>4. CASE ix.next + 1 # NSlots
  <2>1. jx.next = ix.next + 1
    BY <1>2, <1>4
  <2>2. QED
    BY <1>1, <2>1 DEF SlotAge, Slot
<1>5. QED
  BY <1>3, <1>4

(***************************************************************************)
(* The upsert: when one slot names the segment, near enough, rsdk_index_   *)
(* write replaces that slot.  The slots never written do not hide it.      *)
(***************************************************************************)
LEMMA UpsertHits ==
  ASSUME NEW ix \in Ring, Front(ix), Lone(ix), NEW e \in IndexSlot,
         NEW i \in Slot, Names(ix.slot[i], e.seg), SlotAge(ix, i) < Scan
  PROVE  IndexWrite(ix, e) = [slot |-> [ix.slot EXCEPT ![i] = e], next |-> ix.next]
<1> DEFINE a == SlotAge(ix, i) + 1
<1>1. NSlots \in Nat \ {0} /\ Scan \in Nat /\ Scan <= NSlots /\ SlotAge(ix, i) \in 0 .. NSlots - 1
  BY FormatAssumption, Ages DEF Scan
<1>2. a \in 1 .. Scan /\ Back(ix, a) = i
  BY <1>1, AgeBack
<1> HIDE DEF a
<1>3. \A k \in 1 .. Scan : Names(ix.slot[Back(ix, k)], e.seg) => k = a
  <2>1. ASSUME NEW k \in 1 .. Scan, Names(ix.slot[Back(ix, k)], e.seg) PROVE k = a
    <3>1. k \in 1 .. NSlots /\ a \in 1 .. NSlots
      BY <1>1, <1>2
    <3>2. Back(ix, k) \in Slot /\ SlotAge(ix, Back(ix, k)) = k - 1
      BY <3>1, BackAges
    <3>3. Back(ix, k) = i
      BY <2>1, <3>2 DEF Lone, Names
    <3>4. SlotAge(ix, Back(ix, a)) = a - 1
      BY <3>1, BackAges
    <3>5. QED
      BY <1>2, <3>1, <3>2, <3>3, <3>4
  <2>2. QED
    BY <2>1
<1>4. \A j \in 1 .. a - 1 : ~NeverWritten(ix.slot[Back(ix, j)])
  <2>1. ASSUME NEW j \in 1 .. a - 1, NeverWritten(ix.slot[Back(ix, j)]) PROVE FALSE
    <3>1. j \in 1 .. NSlots /\ a \in 1 .. NSlots /\ j < a
      BY <1>1, <1>2
    <3>2. Back(ix, j) \in Slot /\ SlotAge(ix, Back(ix, j)) = j - 1 /\ SlotAge(ix, i) = a - 1
      BY <1>2, <3>1, BackAges
    <3>3. SlotAge(ix, Back(ix, j)) < SlotAge(ix, i)
      BY <3>1, <3>2
    <3>4. NeverWritten(ix.slot[i])
      BY <2>1, <3>2, <3>3 DEF Front
    <3>5. QED
      BY <3>4 DEF NeverWritten, Names, Live
  <2>2. QED
    BY <2>1
<1>5. a \in Found(ix, e.seg)
  <2>1. \A j \in 1 .. a - 1 : ~Names(ix.slot[Back(ix, j)], e.seg)
    BY <1>1, <1>2, <1>3
  <2>2. QED
    BY <1>2, <1>4, <2>1 DEF Found
<1>6. \A k \in Found(ix, e.seg) : k = a
  BY <1>3 DEF Found
<1>7. Target(ix, e) = i
  <2>1. (CHOOSE k \in Found(ix, e.seg) : TRUE) = a
    BY <1>5, <1>6
  <2>2. QED
    BY <1>2, <1>5, <2>1 DEF Target
<1>8. QED
  BY <1>5, <1>7 DEF IndexWrite

(***************************************************************************)
(* The append: when no slot names the segment, rsdk_index_write takes the  *)
(* slot at index_next.                                                     *)
(***************************************************************************)
LEMMA UpsertMisses ==
  ASSUME NEW ix \in Ring, NEW e \in IndexSlot, \A i \in Slot : ~Names(ix.slot[i], e.seg)
  PROVE  IndexWrite(ix, e) = [slot |-> [ix.slot EXCEPT ![ix.next] = e],
                              next |-> (ix.next + 1) % NSlots]
<1>1. Scan \in Nat /\ Scan <= NSlots /\ NSlots \in Nat
  BY FormatAssumption DEF Scan
<1>2. Found(ix, e.seg) = {}
  <2>1. \A k \in 1 .. Scan : Back(ix, k) \in Slot
    BY <1>1, BackAges
  <2>2. QED
    BY <2>1 DEF Found
<1>3. QED
  BY <1>2 DEF IndexWrite, Target

(***************************************************************************)
(* Replacing a live slot by a live one of the same segment, and appending  *)
(* over a slot that is not live a segment no slot names, keep the order of *)
(* the ring.                                                               *)
(***************************************************************************)
LEMMA ReplaceOrders ==
  ASSUME NEW ix \in Ring, Front(ix), Lone(ix), NEW e \in IndexSlot, Live(e),
         NEW i \in Slot, Names(ix.slot[i], e.seg),
         NEW jx, jx = [slot |-> [ix.slot EXCEPT ![i] = e], next |-> ix.next]
  PROVE  Front(jx) /\ Lone(jx)
<1>1. \A j \in Slot : jx.slot[j] = (IF j = i THEN e ELSE ix.slot[j])
                      /\ SlotAge(jx, j) = SlotAge(ix, j)
  BY DEF Ring, SlotAge
<1>2. ~NeverWritten(e) /\ ~NeverWritten(ix.slot[i])
  BY DEF NeverWritten, Live, Names
<1>3. Front(jx)
  BY <1>1, <1>2 DEF Front
<1>4. Lone(jx)
  BY <1>1 DEF Lone, Names
<1>5. QED
  BY <1>3, <1>4

LEMMA AppendOrders ==
  ASSUME NEW ix \in Ring, Front(ix), Lone(ix), NEW e \in IndexSlot, Live(e),
         \A i \in Slot : ~Names(ix.slot[i], e.seg),
         NEW jx \in Ring, jx = [slot |-> [ix.slot EXCEPT ![ix.next] = e],
                                next |-> (ix.next + 1) % NSlots]
  PROVE  Front(jx) /\ Lone(jx)
<1>1. \A j \in Slot : jx.slot[j] = (IF j = ix.next THEN e ELSE ix.slot[j])
  BY DEF Ring
<1>2. /\ SlotAge(jx, ix.next) = 0
      /\ \A i \in Slot : i # ix.next => SlotAge(jx, i) = SlotAge(ix, i) + 1
      /\ \A i \in Slot : SlotAge(ix, i) \in Nat
  <2>1. jx.next = (ix.next + 1) % NSlots
    OBVIOUS
  <2>2. QED
    BY <2>1, AppendAges, Ages, FormatAssumption
<1>3. ~NeverWritten(e)
  BY DEF NeverWritten, Live
<1>4. Front(jx)
  <2>1. ASSUME NEW i \in Slot, NEW j \in Slot, NeverWritten(jx.slot[i]),
               SlotAge(jx, i) < SlotAge(jx, j)
        PROVE  NeverWritten(jx.slot[j])
    <3>1. i # ix.next /\ NeverWritten(ix.slot[i])
      BY <1>1, <1>3, <2>1
    <3>2. j # ix.next
      BY <1>2, <2>1, <3>1
    <3>3. SlotAge(ix, i) < SlotAge(ix, j)
      BY <1>2, <2>1, <3>1, <3>2
    <3>4. QED
      BY <1>1, <3>1, <3>2, <3>3 DEF Front
  <2>2. QED
    BY <2>1 DEF Front
<1>5. Lone(jx)
  <2>1. ASSUME NEW i \in Slot, NEW j \in Slot, Live(jx.slot[i]), Live(jx.slot[j]),
               jx.slot[i].seg = jx.slot[j].seg
        PROVE  i = j
    BY <1>1, <2>1 DEF Lone, Names
  <2>2. QED
    BY <2>1 DEF Lone
<1>6. QED
  BY <1>4, <1>5

-----------------------------------------------------------------------------
(* The index of a disk after one slot was replaced, or one appended.         *)

Replaced(ixs, d, i, e) ==
  [ixs EXCEPT ![d] = [slot |-> [ixs[d].slot EXCEPT ![i] = e], next |-> ixs[d].next]]
Appended(ixs, d, e) ==
  [ixs EXCEPT ![d] = [slot |-> [ixs[d].slot EXCEPT ![ixs[d].next] = e],
                      next |-> (ixs[d].next + 1) % NSlots]]

LEMMA ReplacedSlots ==
  ASSUME NEW ixs \in IndexType, NEW d \in Disk, NEW i \in Slot, NEW e \in IndexSlot
  PROVE  /\ Replaced(ixs, d, i, e) \in IndexType
         /\ \A x \in Disk : x # d => Replaced(ixs, d, i, e)[x] = ixs[x]
         /\ Replaced(ixs, d, i, e)[d] = [slot |-> [ixs[d].slot EXCEPT ![i] = e], next |-> ixs[d].next]
         /\ \A j \in Slot : /\ Replaced(ixs, d, i, e)[d].slot[j] = IF j = i THEN e ELSE ixs[d].slot[j]
                            /\ SlotAge(Replaced(ixs, d, i, e)[d], j) = SlotAge(ixs[d], j)
<1> DEFINE jx == [slot |-> [ixs[d].slot EXCEPT ![i] = e], next |-> ixs[d].next]
<1>1. ixs[d] \in Ring
  BY DEF IndexType, Ring
<1>2. /\ jx \in Ring /\ jx.next = ixs[d].next
      /\ \A j \in Slot : jx.slot[j] = IF j = i THEN e ELSE ixs[d].slot[j]
  BY <1>1 DEF Ring
<1> HIDE DEF jx
<1>3. Replaced(ixs, d, i, e) = [ixs EXCEPT ![d] = jx]
  BY DEF Replaced, jx
<1>4. /\ Replaced(ixs, d, i, e) \in IndexType
      /\ \A x \in Disk : Replaced(ixs, d, i, e)[x] = IF x = d THEN jx ELSE ixs[x]
  BY <1>2, <1>3 DEF IndexType, Ring
<1>5. QED
  BY <1>2, <1>4 DEF SlotAge, jx

LEMMA AppendedSlots ==
  ASSUME NEW ixs \in IndexType, NEW d \in Disk, NEW e \in IndexSlot
  PROVE  LET jxs == Appended(ixs, d, e) IN
         /\ jxs \in IndexType
         /\ \A x \in Disk : x # d => jxs[x] = ixs[x]
         /\ jxs[d] = [slot |-> [ixs[d].slot EXCEPT ![ixs[d].next] = e],
                      next |-> (ixs[d].next + 1) % NSlots]
         /\ \A j \in Slot : jxs[d].slot[j] = IF j = ixs[d].next THEN e ELSE ixs[d].slot[j]
         /\ ixs[d].next \in Slot /\ SlotAge(jxs[d], ixs[d].next) = 0
         /\ \A j \in Slot : j # ixs[d].next => SlotAge(jxs[d], j) = SlotAge(ixs[d], j) + 1
<1> DEFINE n == ixs[d].next
           jx == [slot |-> [ixs[d].slot EXCEPT ![n] = e], next |-> (n + 1) % NSlots]
           jxs == Appended(ixs, d, e)
<1>1. ixs[d] \in Ring /\ n \in Slot /\ (n + 1) % NSlots \in Slot
  <2>1. ixs[d] \in Ring /\ n \in Slot
    BY DEF IndexType, Ring
  <2>2. 1 \in 1 .. NSlots
    BY FormatAssumption
  <2> HIDE DEF n
  <2>3. QED
    BY <2>1, <2>2, BackOnRing
<1>2. /\ jx \in Ring /\ jx.next = (n + 1) % NSlots
      /\ \A j \in Slot : jx.slot[j] = IF j = n THEN e ELSE ixs[d].slot[j]
  BY <1>1 DEF Ring
<1>3. jxs = [ixs EXCEPT ![d] = jx]
  BY DEF Appended
<1> HIDE DEF jx
<1>4. /\ jxs \in IndexType
      /\ \A x \in Disk : jxs[x] = IF x = d THEN jx ELSE ixs[x]
  BY <1>2, <1>3 DEF IndexType, Ring
<1> HIDE DEF jxs
<1>5. /\ SlotAge(jx, n) = 0
      /\ \A j \in Slot : j # n => SlotAge(jx, j) = SlotAge(ixs[d], j) + 1
  BY <1>1, <1>2, AppendAges
<1>6. jxs[d] = jx
  BY <1>4
<1>7. QED
  BY <1>1, <1>2, <1>4, <1>5, <1>6 DEF jxs, jx

-----------------------------------------------------------------------------
(* finalize_seg: the slot of the first frame becomes the valid slot. *)

LEMMA FinalizeHits ==
  ASSUME KInv, SlotsNear, NEW c \in Chn, IsOpen(c), writer[c].count # 0
  PROVE  \E i \in Slot :
           /\ Names(index[writer[c].d].slot[i], writer[c].seg)
           /\ Finalized(index, writer[c]) = Replaced(index, writer[c].d, i, SlotOf(writer[c], "valid"))
<1> DEFINE w == writer[c]
           e == SlotOf(w, "valid")
           ix == index[w.d]
<1>1. w \in Writer /\ w.d \in Disk /\ index \in IndexType
  BY DEF KInv, IInv, TypeOK, Writer, Good
<1>2. ix \in Ring /\ Front(ix) /\ Lone(ix)
  BY <1>1 DEF KInv, KeptIn, OrderIn, IndexType, Ring
<1>3. e \in IndexSlot /\ e.seg = w.seg
  BY <1>1, SlotOfTyped
<1>4. PICK f \in LiveIn(ix) : f.seg = w.seg
  BY DEF KInv, KeptIn, HeldIn
<1>5. PICK i \in Slot : f = ix.slot[i] /\ Live(f)
  BY DEF LiveIn
<1>6. Names(ix.slot[i], e.seg) /\ SlotAge(ix, i) < Scan
  BY <1>3, <1>4, <1>5 DEF SlotsNear, Names
<1> HIDE DEF e
<1>7. IndexWrite(ix, e) = [slot |-> [ix.slot EXCEPT ![i] = e], next |-> ix.next]
  BY <1>2, <1>3, <1>6, UpsertHits
<1>8. Finalized(index, w) = Replaced(index, w.d, i, e)
  BY <1>1, <1>7 DEF Finalized, Replaced, e, IndexType
<1>9. QED
  BY <1>3, <1>6, <1>8 DEF e

(***************************************************************************)
(* Segments are told apart by their channel; the slot of a writer's        *)
(* segment is on the writer's chunk.                                       *)
(***************************************************************************)
LEMMA WriterSlots ==
  ASSUME KInv, NEW c \in Chn, IsOpen(c)
  PROVE  /\ writer[c] \in Writer /\ writer[c].d \in Disk /\ writer[c].chunk \in Chunk
         /\ writer[c].seg \in Seg /\ writer[c].off \in 0 .. ChunkUnits
         /\ \A b \in Chn : IsOpen(b) /\ b # c => writer[b].seg # writer[c].seg
         /\ \A ixs \in IndexType : OwnedIn(ixs) =>
              \A f \in LiveIn(ixs[writer[c].d]) : f.seg = writer[c].seg => f.chunk = writer[c].chunk
<1>1. /\ writer[c] \in Writer /\ writer[c].d \in Disk /\ writer[c].chunk \in Chunk
      /\ writer[c].off \in 0 .. ChunkUnits
  BY DEF KInv, IInv, TypeOK, Writer
<1>2. /\ writer[c].seg \in Seg /\ writer[c].seg # NoSeg
      /\ owner[writer[c].d][writer[c].chunk] = writer[c].seg
      /\ \A b \in Chn : IsOpen(b) /\ b # c => writer[b].seg # writer[c].seg
  BY FormatAssumption DEF KInv, WritersOwn
<1>3. ASSUME NEW ixs \in IndexType, OwnedIn(ixs), NEW f \in LiveIn(ixs[writer[c].d]),
             f.seg = writer[c].seg
      PROVE  f.chunk = writer[c].chunk
  <2>1. f.chunk \in Chunk
    BY <1>1 DEF LiveIn, IndexType, IndexSlot
  <2>2. owner[writer[c].d][f.chunk] = writer[c].seg
    BY <1>1, <1>3 DEF OwnedIn
  <2>3. QED
    BY <1>1, <1>2, <2>1, <2>2 DEF KInv, OwnersOK
<1>4. QED
  BY <1>1, <1>2, <1>3

LEMMA FinalizedKept ==
  ASSUME KInv, SlotsNear, NEW c \in Chn, IsOpen(c)
  PROVE  KeptIn(Finalized(index, writer[c]))
<1> DEFINE w == writer[c]
           e == SlotOf(w, "valid")
           jxs == Finalized(index, w)
<1>1. CASE w.count = 0
  BY <1>1 DEF Finalized, KInv
<1>2. CASE w.count # 0
  <2>1. PICK i \in Slot : /\ Names(index[w.d].slot[i], w.seg)
                          /\ jxs = Replaced(index, w.d, i, e)
    BY <1>2, FinalizeHits
  <2>2. /\ w \in Writer /\ w.d \in Disk /\ w.chunk \in Chunk /\ w.seg \in Seg
        /\ w.off \in 0 .. ChunkUnits
    BY WriterSlots
  <2>3. index \in IndexType /\ KeptIn(index)
    BY DEF KInv, IInv, Good
  <2>4. /\ e \in IndexSlot /\ e.seg = w.seg /\ e.chunk = w.chunk /\ e.bytes = w.off
        /\ Live(e) /\ e.st = "valid" /\ e.count = w.count
    BY <2>2, SlotOfTyped DEF SlotOf
  <2>5. index[w.d].slot[i] \in LiveIn(index[w.d]) /\ index[w.d].slot[i].chunk = w.chunk
    <3>1. index[w.d].slot[i] \in LiveIn(index[w.d]) /\ index[w.d].slot[i].seg = w.seg
      BY <2>1 DEF LiveIn, Names
    <3>2. QED
      BY <2>3, <3>1, WriterSlots DEF KeptIn
  <2> HIDE DEF e, jxs
  <2>6. /\ jxs \in IndexType
        /\ \A x \in Disk : x # w.d => jxs[x] = index[x]
        /\ jxs[w.d] = [slot |-> [index[w.d].slot EXCEPT ![i] = e], next |-> index[w.d].next]
        /\ \A j \in Slot : /\ jxs[w.d].slot[j] = IF j = i THEN e ELSE index[w.d].slot[j]
                           /\ SlotAge(jxs[w.d], j) = SlotAge(index[w.d], j)
    BY <2>1, <2>2, <2>3, <2>4, ReplacedSlots
  <2>7. OrderIn(jxs)
    <3>1. index[w.d] \in Ring /\ Front(index[w.d]) /\ Lone(index[w.d])
      BY <2>2, <2>3 DEF KeptIn, OrderIn, IndexType, Ring
    <3>2. Names(index[w.d].slot[i], e.seg)
      BY <2>1, <2>4
    <3>3. Front(jxs[w.d]) /\ Lone(jxs[w.d])
      BY <2>4, <2>6, <3>1, <3>2, ReplaceOrders
    <3>4. QED
      BY <2>3, <2>6, <3>3 DEF KeptIn, OrderIn
  <2>8. AgesIn(jxs)
    <3>1. ASSUME NEW x \in Disk, NEW j \in Slot, Live(jxs[x].slot[j])
          PROVE  SlotAge(jxs[x], j) + Cardinality(Waiting(x))
                   < ChunkAge(wptr[x], jxs[x].slot[j].chunk) + Cardinality(Chn)
      <4>1. CASE x = w.d /\ j = i
        <5>1. Live(index[x].slot[j]) /\ index[x].slot[j].chunk = jxs[x].slot[j].chunk
              /\ SlotAge(jxs[x], j) = SlotAge(index[x], j)
          BY <2>4, <2>5, <2>6, <4>1 DEF LiveIn
        <5>2. QED
          BY <2>3, <5>1 DEF KeptIn, AgesIn
      <4>2. CASE ~(x = w.d /\ j = i)
        <5>1. jxs[x].slot[j] = index[x].slot[j] /\ SlotAge(jxs[x], j) = SlotAge(index[x], j)
          BY <2>6, <4>2
        <5>2. QED
          BY <2>3, <3>1, <5>1 DEF KeptIn, AgesIn
      <4>3. QED
        BY <4>1, <4>2
    <3>2. QED
      BY <3>1 DEF AgesIn
  <2>9. \A x \in Disk : \A f \in LiveIn(jxs[x]) :
          \/ f \in LiveIn(index[x]) /\ (x = w.d => f.seg # w.seg)
          \/ x = w.d /\ f = e
    <3>1. ASSUME NEW x \in Disk, NEW j \in Slot, Live(jxs[x].slot[j])
          PROVE  \/ jxs[x].slot[j] \in LiveIn(index[x]) /\ (x = w.d => jxs[x].slot[j].seg # w.seg)
                 \/ x = w.d /\ jxs[x].slot[j] = e
      <4>1. CASE x # w.d
        BY <2>6, <3>1, <4>1 DEF LiveIn
      <4>2. CASE x = w.d /\ j # i
        <5>1. jxs[x].slot[j] = index[x].slot[j]
          BY <2>6, <4>2
        <5>2. index[x].slot[j].seg # w.seg
          BY <2>1, <2>2, <2>3, <3>1, <4>2, <5>1 DEF KeptIn, OrderIn, Lone, Names
        <5>3. QED
          BY <3>1, <5>1, <5>2 DEF LiveIn
      <4>3. CASE x = w.d /\ j = i
        BY <2>6, <4>3
      <4>4. QED
        BY <4>1, <4>2, <4>3
    <3>2. QED
      BY <3>1 DEF LiveIn
  <2>10. \A x \in Disk : \A f \in LiveIn(index[x]) : (x = w.d => f.seg # w.seg) => f \in LiveIn(jxs[x])
    <3>1. ASSUME NEW x \in Disk, NEW j \in Slot, Live(index[x].slot[j]),
                 x = w.d => index[x].slot[j].seg # w.seg
          PROVE  jxs[x].slot[j] = index[x].slot[j]
      BY <2>1, <2>6, <3>1 DEF Names
    <3>2. QED
      BY <3>1 DEF LiveIn
  <2>11. e \in LiveIn(jxs[w.d])
    BY <2>4, <2>6 DEF LiveIn
  <2>12. OwnedIn(jxs)
    BY <2>2, <2>3, <2>4, <2>9 DEF KInv, KeptIn, OwnedIn, WritersOwn
  <2>13. HeldIn(jxs)
    <3>1. ASSUME NEW b \in Chn, IsOpen(b)
          PROVE  LET mine == {f \in LiveIn(jxs[writer[b].d]) : f.seg = writer[b].seg} IN
                 /\ writer[b].count = 0 <=> mine = {}
                 /\ \A f \in mine : f.count <= writer[b].count /\ f.bytes <= writer[b].off
      <4>1. CASE b = c
        <5>1. w.count <= w.count /\ w.off <= w.off
          BY <2>2, FormatAssumption DEF Writer
        <5>2. QED
          BY <1>2, <2>2, <2>4, <2>9, <2>11, <4>1, <5>1
      <4>2. CASE b # c
        <5>1. writer[b].seg # w.seg /\ writer[b].d \in Disk
          BY <3>1, <4>2, WriterSlots
        <5>2. {f \in LiveIn(jxs[writer[b].d]) : f.seg = writer[b].seg}
              = {f \in LiveIn(index[writer[b].d]) : f.seg = writer[b].seg}
          BY <2>4, <2>9, <2>10, <5>1
        <5>3. QED
          BY <2>3, <3>1, <5>2 DEF KeptIn, HeldIn
      <4>3. QED
        BY <4>1, <4>2
    <3>2. QED
      BY <3>1 DEF HeldIn
  <2>14. TiledIn(jxs)
    <3>1. Tiled(data[w.d][w.chunk], e)
      <4>1. w.count > 0
        BY <1>2, <2>2 DEF Writer
      <4>2. QED
        BY <4>1 DEF KInv, WritersTiled, e
    <3>2. QED
      BY <2>3, <2>4, <2>9, <3>1 DEF KeptIn, TiledIn
  <2>15. QED
    BY <2>7, <2>8, <2>12, <2>13, <2>14 DEF KeptIn, jxs
<1>3. QED
  BY <1>1, <1>2

-----------------------------------------------------------------------------
(* start_seg: the chunk is reclaimed, and a new segment owns it. *)

(***************************************************************************)
(* The live slots left by start_seg's reclaim are those of other chunks;   *)
(* what was never written and where the ring stands does not change.       *)
(***************************************************************************)
LEMMA ReclaimedSlots ==
  ASSUME KInv, NEW jxs \in IndexType, Good(jxs), KeptIn(jxs), NEW d \in Disk
  PROVE  LET rxs == Reclaimed(jxs, d) IN
         /\ rxs \in IndexType
         /\ \A x \in Disk : rxs[x].next = jxs[x].next
         /\ \A x \in Disk, j \in Slot :
              /\ NeverWritten(rxs[x].slot[j]) <=> NeverWritten(jxs[x].slot[j])
              /\ Live(rxs[x].slot[j]) <=>
                   Live(jxs[x].slot[j]) /\ (x = d => jxs[x].slot[j].chunk # wptr[d])
              /\ Live(rxs[x].slot[j]) => rxs[x].slot[j] = jxs[x].slot[j]
<1> DEFINE rxs == Reclaimed(jxs, d)
           jx == InvalidateChunk(jxs[d], wptr[d])
<1>1. jxs[d] \in Ring
  BY DEF IndexType, Ring
<1>2. ASSUME NEW x \in Disk, NEW j \in Slot, Live(jxs[x].slot[j])
      PROVE  /\ jxs[x].slot[j] \in IndexSlot /\ jxs[x].slot[j].chunk \in Chunk
             /\ jxs[x].slot[j].seg # NoSeg
  <2>1. jxs[x].slot[j] \in LiveIn(jxs[x]) /\ jxs[x].slot[j] \in IndexSlot
    BY <1>2 DEF LiveIn, IndexType
  <2>2. jxs[x].slot[j].seg \in Seg
    BY <2>1 DEF KeptIn, OwnedIn
  <2>3. QED
    BY <2>1, <2>2, FormatAssumption DEF IndexSlot
<1>3. CASE ~(wrapped[d] \/ WrapsNow(d))
  <2>1. rxs = jxs
    BY <1>3 DEF Reclaimed
  <2>2. ASSUME NEW j \in Slot, Live(jxs[d].slot[j]) PROVE jxs[d].slot[j].chunk # wptr[d]
    <3>1. jxs[d].slot[j].chunk < wptr[d]
      BY <1>3, <2>2 DEF Good, BehindIn, LiveIn
    <3>2. jxs[d].slot[j].chunk \in Nat /\ wptr[d] \in Nat
      BY <1>2, <2>2, FormatAssumption DEF Chunk, KInv, IInv, TypeOK
    <3>3. QED
      BY <3>1, <3>2
  <2>3. QED
    BY <2>1, <2>2
<1>4. CASE wrapped[d] \/ WrapsNow(d)
  <2>1. rxs = [jxs EXCEPT ![d] = jx]
    BY <1>4 DEF Reclaimed
  <2>2. /\ jx \in Ring /\ jx.next = jxs[d].next
        /\ \A j \in Slot : jx.slot[j] = IF Live(jxs[d].slot[j]) /\ jxs[d].slot[j].chunk = wptr[d]
                                        THEN Freed(jxs[d].slot[j]) ELSE jxs[d].slot[j]
    BY <1>1, FreedSlot DEF InvalidateChunk, Ring
  <2> HIDE DEF jx
  <2>3. rxs \in IndexType /\ \A x \in Disk : rxs[x] = IF x = d THEN jx ELSE jxs[x]
    BY <2>1, <2>2 DEF IndexType, Ring
  <2>4. ASSUME NEW j \in Slot, Live(jxs[d].slot[j]), jxs[d].slot[j].chunk = wptr[d]
        PROVE  ~NeverWritten(jxs[d].slot[j]) /\ ~NeverWritten(jx.slot[j]) /\ ~Live(jx.slot[j])
    <3>1. Freed(jxs[d].slot[j]).st = "free" /\ Freed(jxs[d].slot[j]).seg = jxs[d].slot[j].seg
      BY <1>2, <2>4 DEF Freed, IndexSlot
    <3>2. jx.slot[j] = Freed(jxs[d].slot[j])
      BY <2>2, <2>4
    <3>3. QED
      BY <1>2, <2>4, <3>1, <3>2 DEF NeverWritten, Live
  <2>5. QED
    BY <2>2, <2>3, <2>4
<1>5. QED
  BY <1>3, <1>4

LEMMA ReclaimedKept ==
  ASSUME KInv, NEW jxs \in IndexType, Good(jxs), KeptIn(jxs), NEW d \in Disk
  PROVE  LET rxs == Reclaimed(jxs, d) IN
         /\ OrderIn(rxs) /\ AgesIn(rxs) /\ OwnedIn(rxs) /\ TiledIn(rxs)
         /\ \A x \in Disk : LiveIn(rxs[x]) =
              {f \in LiveIn(jxs[x]) : x = d => f.chunk # wptr[d]}
<1> DEFINE rxs == Reclaimed(jxs, d)
<1>1. /\ rxs \in IndexType
      /\ \A x \in Disk : rxs[x].next = jxs[x].next
      /\ \A x \in Disk, j \in Slot :
           /\ NeverWritten(rxs[x].slot[j]) <=> NeverWritten(jxs[x].slot[j])
           /\ Live(rxs[x].slot[j]) <=>
                Live(jxs[x].slot[j]) /\ (x = d => jxs[x].slot[j].chunk # wptr[d])
           /\ Live(rxs[x].slot[j]) => rxs[x].slot[j] = jxs[x].slot[j]
  BY ReclaimedSlots
<1> HIDE DEF rxs
<1>2. \A x \in Disk, j \in Slot : SlotAge(rxs[x], j) = SlotAge(jxs[x], j)
  BY <1>1 DEF SlotAge
<1>3. OrderIn(rxs)
  <2>1. \A x \in Disk : Front(rxs[x])
    BY <1>1, <1>2 DEF KeptIn, OrderIn, Front
  <2>2. \A x \in Disk : Lone(rxs[x])
    BY <1>1 DEF KeptIn, OrderIn, Lone
  <2>3. QED
    BY <2>1, <2>2 DEF OrderIn
<1>4. AgesIn(rxs)
  BY <1>1, <1>2 DEF KeptIn, AgesIn
<1>5. \A x \in Disk : LiveIn(rxs[x]) = {f \in LiveIn(jxs[x]) : x = d => f.chunk # wptr[d]}
  <2>1. ASSUME NEW x \in Disk, NEW f, f \in LiveIn(rxs[x])
        PROVE  f \in LiveIn(jxs[x]) /\ (x = d => f.chunk # wptr[d])
    BY <1>1, <2>1 DEF LiveIn
  <2>2. ASSUME NEW x \in Disk, NEW f, f \in LiveIn(jxs[x]), x = d => f.chunk # wptr[d]
        PROVE  f \in LiveIn(rxs[x])
    BY <1>1, <2>2 DEF LiveIn
  <2>3. QED
    BY <2>1, <2>2
<1>6. OwnedIn(rxs)
  BY <1>5 DEF KeptIn, OwnedIn
<1>7. TiledIn(rxs)
  BY <1>5 DEF KeptIn, TiledIn
<1>8. QED
  BY <1>3, <1>4, <1>5, <1>6, <1>7 DEF rxs

(***************************************************************************)
(* seg_seq only grows, so no slot and no chunk names the segment started.  *)
(***************************************************************************)
LEMMA NewSegment ==
  ASSUME KInv, NEW c \in Chn, NEW d \in Disk, segSeq[d][c] < MaxSegSeq
  PROVE  /\ NextSeg(c, d) \in Seg /\ NextSeg(c, d) # NoSeg
         /\ \A k \in Chunk : owner[d][k] # NextSeg(c, d)
         /\ \A ixs \in IndexType : OwnedIn(ixs) =>
              \A i \in Slot : ~Names(ixs[d].slot[i], NextSeg(c, d))
<1>1. /\ segSeq[d][c] \in 0 .. MaxSegSeq /\ MaxSegSeq \in Nat
      /\ \A k \in Chunk : owner[d][k] \in Seg \cup {NoSeg}
  BY FormatAssumption DEF KInv, IInv, TypeOK
<1>2. NextSeg(c, d) \in Seg
  BY <1>1 DEF NextSeg, Seg
<1>3. NextSeg(c, d) # NoSeg
  BY <1>2, FormatAssumption
<1>4. NextSeg(c, d)[1] = c /\ NextSeg(c, d)[2] = segSeq[d][c] + 1
  BY DEF NextSeg
<1>5. ASSUME NEW k \in Chunk, owner[d][k] = NextSeg(c, d) PROVE FALSE
  <2>1. owner[d][k][2] <= segSeq[d][owner[d][k][1]]
    BY <1>3, <1>5 DEF KInv, OwnersOK
  <2>2. segSeq[d][c] + 1 <= segSeq[d][c]
    BY <1>4, <1>5, <2>1
  <2>3. QED
    BY <1>1, <2>2
<1>6. ASSUME NEW ixs \in IndexType, OwnedIn(ixs), NEW i \in Slot, Names(ixs[d].slot[i], NextSeg(c, d))
      PROVE  FALSE
  <2>1. ixs[d].slot[i] \in LiveIn(ixs[d]) /\ ixs[d].slot[i].seg = NextSeg(c, d)
    BY <1>6 DEF Names, LiveIn
  <2>2. ixs[d].slot[i].chunk \in Chunk
    BY DEF IndexType, IndexSlot
  <2>3. owner[d][ixs[d].slot[i].chunk] = NextSeg(c, d)
    BY <1>6, <2>1 DEF OwnedIn
  <2>4. QED
    BY <1>5, <2>2, <2>3
<1>7. QED
  BY <1>2, <1>3, <1>5, <1>6

-----------------------------------------------------------------------------
(* Counting the writers that wait and the chunks given away since. *)

LEMMA OneMore ==
  ASSUME NEW S, IsFiniteSet(S), NEW x, NEW T, T \subseteq S \cup {x}
  PROVE  Cardinality(T) \in Nat /\ Cardinality(S) \in Nat /\ Cardinality(T) <= Cardinality(S) + 1
<1>1. IsFiniteSet(S \cup {x}) /\ Cardinality(S \cup {x}) \in Nat /\ Cardinality(S) \in Nat
      /\ Cardinality(S \cup {x}) <= Cardinality(S) + 1
  BY FS_AddElement, FS_CardinalityType
<1>2. IsFiniteSet(T) /\ Cardinality(T) <= Cardinality(S \cup {x})
  BY <1>1, FS_Subset
<1>3. QED
  BY <1>1, <1>2, FS_CardinalityType

LEMMA OneLess ==
  ASSUME NEW S, IsFiniteSet(S), NEW x \in S, NEW T, T \subseteq S \ {x}
  PROVE  Cardinality(T) \in Nat /\ Cardinality(S) \in Nat /\ Cardinality(T) + 1 <= Cardinality(S)
<1>1. IsFiniteSet(S \ {x}) /\ Cardinality(S \ {x}) = Cardinality(S) - 1
  BY FS_RemoveElement
<1>2. Cardinality(S \ {x}) \in Nat /\ Cardinality(S) \in Nat
  BY <1>1, FS_CardinalityType
<1>3. IsFiniteSet(T) /\ Cardinality(T) <= Cardinality(S \ {x})
  BY <1>1, FS_Subset
<1>4. QED
  BY <1>1, <1>2, <1>3, FS_CardinalityType

LEMMA WaitingCount ==
  ASSUME RingAssumption, NEW d \in Disk
  PROVE  /\ IsFiniteSet(Waiting(d)) /\ Cardinality(Waiting(d)) \in Nat
         /\ Cardinality(Chn) \in Nat /\ Cardinality(Waiting(d)) <= Cardinality(Chn)
<1>1. IsFiniteSet(Chn) /\ Waiting(d) \subseteq Chn
  BY DEF RingAssumption, Waiting
<1>2. IsFiniteSet(Waiting(d)) /\ Cardinality(Waiting(d)) <= Cardinality(Chn)
  BY <1>1, FS_Subset
<1>3. QED
  BY <1>1, <1>2, FS_CardinalityType

(***************************************************************************)
(* Giving away a chunk makes every other chunk of the disk one older.      *)
(***************************************************************************)
LEMMA ChunkAges ==
  ASSUME TypeOK, PointerOK, NEW d \in Disk, AllocChunk(d), NEW k \in Chunk, k # wptr[d]
  PROVE  /\ ChunkAge(wptr[d], k) \in 0 .. NChunks - 2
         /\ ChunkAge(wptr'[d], k) = ChunkAge(wptr[d], k) + 1
<1>1. NChunks \in Nat \ {0} /\ wptr[d] \in 0 .. NChunks - 1 /\ k \in 0 .. NChunks - 1
  BY FormatAssumption, AllocRange DEF Chunk
<1>2. ChunkAge(wptr[d], k) \in 0 .. NChunks - 2
  BY <1>1 DEF ChunkAge
<1>3. wptr'[d] = IF WrapsNow(d) THEN 0 ELSE wptr[d] + 1
  BY DEF AllocChunk, TypeOK
<1>4. CASE WrapsNow(d)
  <2>1. wptr'[d] = 0 /\ wptr[d] = NChunks - 1
    BY <1>1, <1>3, <1>4 DEF WrapsNow
  <2>2. QED
    BY <1>1, <1>2, <2>1 DEF ChunkAge
<1>5. CASE ~WrapsNow(d)
  <2>1. wptr'[d] = wptr[d] + 1
    BY <1>3, <1>5
  <2>2. QED
    BY <1>1, <1>2, <2>1 DEF ChunkAge
<1>6. QED
  BY <1>4, <1>5

LEMMA NewChunkAge ==
  ASSUME TypeOK, PointerOK, NEW d \in Disk, AllocChunk(d), NEW k \in Chunk, k = wptr[d]
  PROVE  ChunkAge(wptr'[d], k) = 0
<1>1. NChunks \in Nat \ {0} /\ wptr[d] \in 0 .. NChunks - 1
  BY FormatAssumption, AllocRange DEF Chunk
<1>3. wptr'[d] = IF WrapsNow(d) THEN 0 ELSE wptr[d] + 1
  BY DEF AllocChunk, TypeOK
<1>4. WrapsNow(d) => wptr[d] = NChunks - 1
  BY <1>1 DEF WrapsNow
<1>6. QED
  BY <1>1, <1>3, <1>4 DEF ChunkAge

-----------------------------------------------------------------------------
(* A successful start_seg. *)

(***************************************************************************)
(* start_seg takes the chunk at the write pointer of disk d for writer w.  *)
(* Without a frame it leaves the reclaimed index; with one (a roll), also  *)
(* the open slot e and the first frame.                                    *)
(***************************************************************************)
Starts(c, d, w) ==
  /\ TakeChunk(c, d)
  /\ w \in Writer /\ w.st = "open" /\ w.d = d /\ w.chunk = wptr[d] /\ w.seg = NextSeg(c, d)
  /\ writer' = [writer EXCEPT ![c] = w]
StartsEmpty(d, jxs, w) ==
  index' = Reclaimed(jxs, d) /\ data' = data /\ w.count = 0
StartsWith(d, jxs, w, e) ==
  /\ e \in IndexSlot /\ e.st = "open" /\ e.seg = w.seg /\ e.chunk = w.chunk
  /\ e.count = 0 /\ e.bytes = 0
  /\ index' = Appended(Reclaimed(jxs, d), d, e)
  /\ w.count > 0 /\ WritesOwnChunk(data', w)
  /\ Tiled(data'[d][w.chunk], SlotOf(w, "valid"))

LEMMA StartFacts ==
  ASSUME KInv, NEW c \in Chn, NEW d \in Disk, NEW w, Starts(c, d, w), NoSharedChunk'
  PROVE  /\ wptr[d] \in Chunk
         /\ \A b \in Chn : writer'[b] = IF b = c THEN w ELSE writer[b]
         /\ \A b \in Chn : b # c => (IsOpen(b)' <=> IsOpen(b))
         /\ IsOpen(c)'
         /\ \A b \in Chn : b # c /\ IsOpen(b) => <<writer[b].d, writer[b].chunk>> # <<d, wptr[d]>>
         /\ \A x \in Disk : x # d => wptr'[x] = wptr[x] /\ owner'[x] = owner[x]
                                     /\ segSeq'[x] = segSeq[x]
         /\ \A k \in Chunk : owner'[d][k] = IF k = wptr[d] THEN NextSeg(c, d) ELSE owner[d][k]
         /\ \A b \in Chn : segSeq'[d][b] = IF b = c THEN segSeq[d][c] + 1 ELSE segSeq[d][b]
<1>1. TypeOK /\ PointerOK
  BY DEF KInv, IInv
<1>2. wptr[d] \in Chunk /\ \A x \in Disk : x # d => wptr'[x] = wptr[x]
  BY <1>1, AllocRange DEF Starts, TakeChunk
<1>3. \A b \in Chn : writer'[b] = IF b = c THEN w ELSE writer[b]
  BY <1>1 DEF Starts, TypeOK
<1>4. /\ \A b \in Chn : b # c => (IsOpen(b)' <=> IsOpen(b))
      /\ IsOpen(c)'
  BY <1>3 DEF Starts, IsOpen
<1>5. \A b \in Chn : b # c /\ IsOpen(b) => <<writer[b].d, writer[b].chunk>> # <<d, wptr[d]>>
  <2>1. ASSUME NEW b \in Chn, b # c, IsOpen(b)
        PROVE  <<writer[b].d, writer[b].chunk>> # <<d, wptr[d]>>
    <3>1. <<writer'[b].d, writer'[b].chunk>> # <<writer'[c].d, writer'[c].chunk>>
      BY <1>4, <2>1 DEF NoSharedChunk
    <3>2. QED
      BY <1>3, <2>1, <3>1 DEF Starts
  <2>2. QED
    BY <2>1
<1>6. /\ \A x \in Disk : x # d => owner'[x] = owner[x]
      /\ \A k \in Chunk : owner'[d][k] = IF k = wptr[d] THEN NextSeg(c, d) ELSE owner[d][k]
  BY <1>1, <1>2 DEF Starts, TakeChunk, TypeOK
<1>7. /\ \A x \in Disk : x # d => segSeq'[x] = segSeq[x]
      /\ \A b \in Chn : segSeq'[d][b] = IF b = c THEN segSeq[d][c] + 1 ELSE segSeq[d][b]
  BY <1>1 DEF Starts, TakeChunk, TypeOK
<1>8. QED
  BY <1>2, <1>3, <1>4, <1>5, <1>6, <1>7

LEMMA StartOwners ==
  ASSUME KInv, NEW c \in Chn, NEW d \in Disk, NEW w, Starts(c, d, w), NoSharedChunk'
  PROVE  OwnersOK' /\ WritersOwn'
<1>1. /\ \A b \in Chn : writer'[b] = IF b = c THEN w ELSE writer[b]
      /\ \A b \in Chn : b # c => (IsOpen(b)' <=> IsOpen(b))
      /\ \A b \in Chn : b # c /\ IsOpen(b) => <<writer[b].d, writer[b].chunk>> # <<d, wptr[d]>>
      /\ \A x \in Disk : x # d => owner'[x] = owner[x] /\ segSeq'[x] = segSeq[x]
      /\ \A k \in Chunk : owner'[d][k] = IF k = wptr[d] THEN NextSeg(c, d) ELSE owner[d][k]
      /\ \A b \in Chn : segSeq'[d][b] = IF b = c THEN segSeq[d][c] + 1 ELSE segSeq[d][b]
      /\ wptr[d] \in Chunk
  BY StartFacts
<1>2. /\ NextSeg(c, d) \in Seg /\ NextSeg(c, d) # NoSeg
      /\ \A k \in Chunk : owner[d][k] # NextSeg(c, d)
      /\ NextSeg(c, d)[1] = c /\ NextSeg(c, d)[2] = segSeq[d][c] + 1
  <2>1. segSeq[d][c] < MaxSegSeq
    BY DEF Starts, TakeChunk
  <2>2. NextSeg(c, d)[1] = c /\ NextSeg(c, d)[2] = segSeq[d][c] + 1
    BY DEF NextSeg
  <2>3. QED
    BY <2>1, <2>2, NewSegment
<1>3. /\ \A x \in Disk, b \in Chn : segSeq[x][b] \in Nat
      /\ \A x \in Disk, k \in Chunk : owner[x][k] \in Seg \cup {NoSeg}
  BY FormatAssumption DEF KInv, IInv, TypeOK
<1>4. OwnersOK'
  <2>1. ASSUME NEW k \in Chunk, owner'[d][k] # NoSeg
        PROVE  owner'[d][k][2] <= segSeq'[d][owner'[d][k][1]]
    <3>1. CASE k = wptr[d]
      BY <1>1, <1>2, <1>3, <3>1
    <3>2. CASE k # wptr[d]
      <4>1. owner'[d][k] = owner[d][k] /\ owner[d][k] \in Seg
        BY <1>1, <1>3, <2>1, <3>2
      <4>2. owner[d][k][1] \in Chn /\ owner[d][k][2] \in Nat
            /\ owner[d][k][2] <= segSeq[d][owner[d][k][1]]
        <5>1. owner[d][k][1] \in Chn /\ owner[d][k][2] \in Nat
          BY <4>1 DEF Seg
        <5>2. QED
          BY <2>1, <4>1, <5>1 DEF KInv, OwnersOK
      <4>3. segSeq[d][owner[d][k][1]] <= segSeq'[d][owner[d][k][1]]
            /\ segSeq'[d][owner[d][k][1]] \in Nat
        BY <1>1, <1>3, <4>2
      <4>4. QED
        BY <1>3, <4>1, <4>2, <4>3
    <3>3. QED
      BY <3>1, <3>2
  <2>2. ASSUME NEW k \in Chunk, owner'[d][k] # NoSeg, NEW j \in Chunk, owner'[d][j] = owner'[d][k]
        PROVE  j = k
    BY <1>1, <1>2, <2>2 DEF KInv, OwnersOK
  <2>3. QED
    BY <1>1, <2>1, <2>2 DEF KInv, OwnersOK
<1>5. WritersOwn'
  <2>1. ASSUME NEW b \in Chn, IsOpen(b)'
        PROVE  /\ writer'[b].seg \in Seg /\ writer'[b].seg[1] = b
               /\ owner'[writer'[b].d][writer'[b].chunk] = writer'[b].seg
    <3>1. CASE b = c
      BY <1>1, <1>2, <3>1 DEF Starts
    <3>2. CASE b # c
      <4>1. IsOpen(b) /\ writer'[b] = writer[b]
        BY <1>1, <2>1, <3>2
      <4>2. writer[b].d \in Disk /\ writer[b].chunk \in Chunk
        BY DEF KInv, IInv, TypeOK, Writer
      <4>3. owner'[writer[b].d][writer[b].chunk] = owner[writer[b].d][writer[b].chunk]
        BY <1>1, <3>2, <4>1, <4>2
      <4>4. QED
        BY <4>1, <4>3 DEF KInv, WritersOwn
    <3>3. QED
      BY <3>1, <3>2
  <2>2. QED
    BY <2>1 DEF WritersOwn
<1>6. QED
  BY <1>4, <1>5

LEMMA StartKept ==
  ASSUME KInv, RingAssumption, NEW c \in Chn, NEW d \in Disk,
         NEW jxs \in IndexType, Good(jxs), KeptIn(jxs),
         NEW w \in Writer, Starts(c, d, w), NEW e,
         StartsEmpty(d, jxs, w) \/ StartsWith(d, jxs, w, e),
         NoSharedChunk', IInv'
  PROVE  WritersTiled' /\ KeptIn(index)'
<1> DEFINE rxs == Reclaimed(jxs, d)
<1>1. TypeOK /\ PointerOK /\ AllocChunk(d)
  BY DEF KInv, IInv, Starts, TakeChunk
<1>2. /\ wptr[d] \in Chunk
      /\ \A b \in Chn : writer'[b] = IF b = c THEN w ELSE writer[b]
      /\ \A b \in Chn : b # c => (IsOpen(b)' <=> IsOpen(b))
      /\ IsOpen(c)'
      /\ \A b \in Chn : b # c /\ IsOpen(b) => <<writer[b].d, writer[b].chunk>> # <<d, wptr[d]>>
      /\ \A x \in Disk : x # d => wptr'[x] = wptr[x] /\ owner'[x] = owner[x]
      /\ \A k \in Chunk : owner'[d][k] = IF k = wptr[d] THEN NextSeg(c, d) ELSE owner[d][k]
  BY StartFacts
<1>3. /\ w.d = d /\ w.chunk = wptr[d] /\ w.seg = NextSeg(c, d) /\ w.count \in Nat
      /\ w.off \in Nat /\ w.st = "open"
  BY FormatAssumption DEF Starts, Writer
<1>4. /\ rxs \in IndexType
      /\ OrderIn(rxs) /\ AgesIn(rxs) /\ OwnedIn(rxs) /\ TiledIn(rxs)
      /\ \A x \in Disk : LiveIn(rxs[x]) = {f \in LiveIn(jxs[x]) : x = d => f.chunk # wptr[d]}
  <2>1. rxs \in IndexType
    BY ReclaimedSlots
  <2>2. /\ OrderIn(rxs) /\ AgesIn(rxs) /\ OwnedIn(rxs) /\ TiledIn(rxs)
        /\ \A x \in Disk : LiveIn(rxs[x]) = {f \in LiveIn(jxs[x]) : x = d => f.chunk # wptr[d]}
    BY ReclaimedKept
  <2>3. QED
    BY <2>1, <2>2
<1>5. NextSeg(c, d) \in Seg /\ \A i \in Slot : ~Names(rxs[d].slot[i], NextSeg(c, d))
  <2>1. segSeq[d][c] < MaxSegSeq
    BY DEF Starts, TakeChunk
  <2> HIDE DEF rxs
  <2>2. QED
    BY <1>4, <2>1, NewSegment
<1> DEFINE n == rxs[d].next
           rolls == StartsWith(d, jxs, w, e)
<1>6. rolls => Live(e) /\ e \in IndexSlot /\ e.seg = w.seg
  BY DEF StartsWith, Live
<1>7. \A x \in Disk, i \in Slot : Live(rxs[x].slot[i]) =>
        /\ rxs[x].slot[i] \in LiveIn(rxs[x]) /\ rxs[x].slot[i].chunk \in Chunk
        /\ x = d => rxs[x].slot[i].chunk # wptr[d]
  <2>1. \A x \in Disk, i \in Slot : Live(rxs[x].slot[i]) => rxs[x].slot[i] \in LiveIn(rxs[x])
    BY DEF LiveIn
  <2> HIDE DEF rxs
  <2>2. \A x \in Disk, i \in Slot : rxs[x].slot[i].chunk \in Chunk
    BY <1>4 DEF IndexType, IndexSlot
  <2>3. QED
    BY <1>4, <2>1, <2>2
<1>8. ~rolls => index' = rxs /\ data' = data /\ w.count = 0
  BY DEF StartsEmpty
<1>9. rolls => /\ index' = Appended(rxs, d, e) /\ w.count > 0
               /\ e.count = 0 /\ e.bytes = 0 /\ e.chunk = wptr[d] /\ e.st = "open"
  BY <1>3 DEF StartsWith
<1>10. \A x \in Disk, k \in Chunk : <<x, k>> # <<d, wptr[d]>> => data'[x][k] = data[x][k]
  BY <1>3, <1>8 DEF StartsWith, WritesOwnChunk
<1>18. rolls => Tiled(data'[d][wptr[d]], SlotOf(w, "valid"))
  BY <1>3 DEF StartsWith
<1> HIDE DEF rxs, rolls
\* the slots of the new index, in a roll and without one
<1>11. /\ \A x \in Disk : x # d => index'[x] = rxs[x]
       /\ ~rolls => index'[d] = rxs[d]
       /\ rolls => /\ n \in Slot
                   /\ index'[d] = [slot |-> [rxs[d].slot EXCEPT ![n] = e],
                                   next |-> (n + 1) % NSlots]
                   /\ \A j \in Slot : index'[d].slot[j] = IF j = n THEN e ELSE rxs[d].slot[j]
                   /\ SlotAge(index'[d], n) = 0
                   /\ \A j \in Slot : j # n => SlotAge(index'[d], j) = SlotAge(rxs[d], j) + 1
  <2>1. CASE ~rolls
    BY <1>8, <2>1
  <2>2. CASE rolls
    <3>1. index' = Appended(rxs, d, e) /\ e \in IndexSlot
      BY <1>6, <1>9, <2>2
    <3>2. QED
      BY <1>4, <2>2, <3>1, AppendedSlots
  <2>3. QED
    BY <2>1, <2>2
\* the slot a roll writes is not live
<1>12. rolls => ~Live(rxs[d].slot[n])
  <2>1. SUFFICES ASSUME rolls, Live(rxs[d].slot[n]) PROVE FALSE
    OBVIOUS
  <2>2. rxs[d] \in Ring /\ n \in Slot
    BY <1>4, <1>11, <2>1 DEF IndexType, Ring
  <2>3. SlotAge(rxs[d], n) = NSlots - 1
    BY <2>2, Ages
  <2>4. ChunkAge(wptr[d], rxs[d].slot[n].chunk) \in 0 .. NChunks - 2
    BY <1>1, <1>7, <2>1, <2>2, ChunkAges
  <2>5. SlotAge(rxs[d], n) + Cardinality(Waiting(d))
          < ChunkAge(wptr[d], rxs[d].slot[n].chunk) + Cardinality(Chn)
    BY <1>4, <2>1, <2>2 DEF AgesIn
  <2>6. Cardinality(Waiting(d)) \in Nat /\ Cardinality(Chn) \in Nat
    BY WaitingCount
  <2>7. NSlots >= NChunks + Cardinality(Chn) - 1 /\ NSlots \in Nat /\ NChunks \in Nat
    BY FormatAssumption DEF RingAssumption
  <2>8. QED
    BY <2>3, <2>4, <2>5, <2>6, <2>7
\* the live slots of the new index
<1>13. \A x \in Disk : LiveIn(index'[x]) = IF x = d /\ rolls THEN LiveIn(rxs[x]) \cup {e} ELSE LiveIn(rxs[x])
  <2>1. CASE ~rolls
    BY <1>8, <2>1
  <2>2. CASE rolls
    <3>1. ASSUME NEW f, f \in LiveIn(index'[d]) PROVE f \in LiveIn(rxs[d]) \cup {e}
      BY <1>11, <2>2, <3>1 DEF LiveIn
    <3>2. ASSUME NEW f, f \in LiveIn(rxs[d]) PROVE f \in LiveIn(index'[d])
      BY <1>11, <1>12, <2>2, <3>2 DEF LiveIn
    <3>3. e \in LiveIn(index'[d])
      BY <1>6, <1>11, <2>2 DEF LiveIn
    <3>4. LiveIn(index'[d]) = LiveIn(rxs[d]) \cup {e}
      BY <3>1, <3>2, <3>3
    <3>5. QED
      BY <1>11, <2>2, <3>4
  <2>3. QED
    BY <2>1, <2>2
<1>14. OrderIn(index)'
  <2>1. CASE ~rolls
    BY <1>4, <1>8, <2>1 DEF OrderIn, Front, Lone, SlotAge
  <2>2. CASE rolls
    <3>1. rxs[d] \in Ring /\ Front(rxs[d]) /\ Lone(rxs[d]) /\ index'[d] \in Ring
      BY <1>4 DEF OrderIn, IndexType, Ring, IInv, Good
    <3>2. /\ e \in IndexSlot /\ Live(e)
          /\ \A i \in Slot : ~Names(rxs[d].slot[i], e.seg)
      BY <1>3, <1>5, <1>6, <2>2
    <3>3. Front(index'[d]) /\ Lone(index'[d])
      BY <1>11, <2>2, <3>1, <3>2, AppendOrders
    <3>4. \A x \in Disk : Front(index'[x]) /\ Lone(index'[x])
      BY <1>4, <1>11, <3>3 DEF OrderIn
    <3>5. QED
      BY <3>4 DEF OrderIn, Front, Lone, SlotAge
  <2>3. QED
    BY <2>1, <2>2
<1>15. AgesIn(index)'
  <2>1. ASSUME NEW x \in Disk, NEW i \in Slot, Live(index'[x].slot[i])
        PROVE  SlotAge(index'[x], i) + Cardinality(Waiting(x)')
                 < ChunkAge(wptr'[x], index'[x].slot[i].chunk) + Cardinality(Chn)
    <3>1. /\ IsFiniteSet(Waiting(x)) /\ Cardinality(Waiting(x)) \in Nat
          /\ Cardinality(Chn) \in Nat /\ IsFiniteSet(Chn)
      BY WaitingCount DEF RingAssumption
    <3>2. Waiting(x)' \subseteq Waiting(x) \cup {c}
      BY <1>2 DEF Waiting
    <3>3. Cardinality(Waiting(x)') \in Nat /\ Cardinality(Waiting(x)') <= Cardinality(Waiting(x)) + 1
      BY <3>1, <3>2, OneMore
    <3>4. ASSUME x # d \/ rolls PROVE Cardinality(Waiting(x)') <= Cardinality(Waiting(x))
      <4>1. c \notin Waiting(x)'
        BY <1>2, <1>3, <1>9, <3>4 DEF Waiting
      <4>2. Waiting(x)' \subseteq Waiting(x)
        BY <3>2, <4>1
      <4>3. QED
        BY <3>1, <4>2, FS_Subset
    <3>5. rxs[x] \in Ring /\ SlotAge(rxs[x], i) \in Nat
      <4>1. rxs[x] \in Ring
        BY <1>4 DEF IndexType, Ring
      <4>2. SlotAge(rxs[x], i) \in 0 .. NSlots - 1
        BY <4>1, Ages
      <4>3. QED
        BY <4>1, <4>2, FormatAssumption
    <3>6. CASE x # d
      <4>1. index'[x] = rxs[x] /\ Live(rxs[x].slot[i])
        BY <1>11, <2>1, <3>6
      <4>2. SlotAge(rxs[x], i) + Cardinality(Waiting(x))
              < ChunkAge(wptr[x], rxs[x].slot[i].chunk) + Cardinality(Chn)
        BY <1>4, <4>1 DEF AgesIn
      <4>3. rxs[x].slot[i].chunk \in Chunk /\ wptr'[x] = wptr[x]
        BY <1>2, <1>7, <3>6, <4>1
      <4>4. ChunkAge(wptr[x], rxs[x].slot[i].chunk) \in Int
        <5>1. wptr[x] \in Int /\ NChunks \in Int
          BY <1>1, FormatAssumption DEF TypeOK
        <5>2. rxs[x].slot[i].chunk \in Int
          BY <4>3, FormatAssumption DEF Chunk
        <5>3. QED
          BY <5>1, <5>2 DEF ChunkAge
      <4>5. QED
        BY <3>1, <3>3, <3>4, <3>5, <3>6, <4>1, <4>2, <4>3, <4>4
    <3>7. CASE x = d /\ ~(rolls /\ i = n)
      <4>1. index'[d].slot[i] = rxs[d].slot[i] /\ Live(rxs[d].slot[i])
        BY <1>11, <2>1, <3>7
      <4> DEFINE k == rxs[d].slot[i].chunk
      <4>2. SlotAge(rxs[d], i) + Cardinality(Waiting(d)) < ChunkAge(wptr[d], k) + Cardinality(Chn)
        BY <1>4, <4>1 DEF AgesIn
      <4>3. k \in Chunk /\ k # wptr[d]
        BY <1>7, <4>1
      <4>4. SlotAge(index'[d], i) = IF rolls THEN SlotAge(rxs[d], i) + 1 ELSE SlotAge(rxs[d], i)
        BY <1>11, <3>7
      <4>5. \A m \in Chunk : m # wptr[d] => /\ ChunkAge(wptr[d], m) \in 0 .. NChunks - 2
                                            /\ ChunkAge(wptr'[d], m) = ChunkAge(wptr[d], m) + 1
        BY <1>1, ChunkAges
      <4>6. \A m \in Chunk : m = index'[d].slot[i].chunk =>
               SlotAge(index'[d], i) + Cardinality(Waiting(d)') < ChunkAge(wptr'[d], m) + Cardinality(Chn)
        <5>1. ASSUME NEW m \in Chunk, m = index'[d].slot[i].chunk
              PROVE  SlotAge(index'[d], i) + Cardinality(Waiting(d)') < ChunkAge(wptr'[d], m) + Cardinality(Chn)
          <6>1. m = k
            BY <4>1, <5>1
          <6>2. ChunkAge(wptr[d], m) = ChunkAge(wptr[d], k) /\ ChunkAge(wptr[d], m) \in Int
                /\ ChunkAge(wptr'[d], m) = ChunkAge(wptr[d], m) + 1
            BY <4>3, <4>5, <6>1
          <6>3. CASE rolls
            BY <3>1, <3>3, <3>4, <3>5, <3>7, <4>2, <4>4, <6>2, <6>3
          <6>4. CASE ~rolls
            BY <3>1, <3>3, <3>5, <3>7, <4>2, <4>4, <6>2, <6>4
          <6>5. QED
            BY <6>3, <6>4
        <5>2. QED
          BY <5>1
      <4>7. index'[d].slot[i].chunk \in Chunk
        BY <4>1, <4>3
      <4>8. QED
        BY <3>7, <4>6, <4>7
    <3>8. CASE x = d /\ rolls /\ i = n
      <4>1. index'[d].slot[i] = e /\ SlotAge(index'[d], i) = 0 /\ e.chunk = wptr[d]
        BY <1>9, <1>11, <3>8
      <4>2. Waiting(d)' \subseteq Chn \ {c}
        BY <1>2, <1>9, <3>8 DEF Waiting
      <4>3. Cardinality(Waiting(d)') \in Nat /\ Cardinality(Waiting(d)') + 1 <= Cardinality(Chn)
        BY <3>1, <4>2, OneLess
      <4>4. \A m \in Chunk : m = wptr[d] => ChunkAge(wptr'[d], m) = 0
        BY <1>1, NewChunkAge
      <4>5. \A m \in Chunk : m = index'[d].slot[i].chunk =>
              SlotAge(index'[d], i) + Cardinality(Waiting(d)') < ChunkAge(wptr'[d], m) + Cardinality(Chn)
        BY <3>1, <4>1, <4>3, <4>4
      <4>6. index'[d].slot[i].chunk \in Chunk
        BY <1>2, <4>1
      <4>7. QED
        BY <3>8, <4>5, <4>6
    <3>9. QED
      BY <3>6, <3>7, <3>8
  <2>2. QED
    BY <2>1 DEF AgesIn
<1>16. OwnedIn(index)'
  <2>1. ASSUME NEW x \in Disk, NEW f \in LiveIn(index'[x])
        PROVE  f.seg \in Seg /\ f.seg = owner'[x][f.chunk]
    <3>1. CASE x = d /\ rolls /\ f = e
      BY <1>2, <1>3, <1>5, <1>6, <1>9, <3>1
    <3>2. CASE f \in LiveIn(rxs[x])
      <4>1. f.seg \in Seg /\ f.seg = owner[x][f.chunk] /\ f.chunk \in Chunk
            /\ (x = d => f.chunk # wptr[d])
        BY <1>4, <1>7, <3>2 DEF OwnedIn, LiveIn
      <4>2. QED
        BY <1>2, <4>1
    <3>3. QED
      BY <1>13, <2>1, <3>1, <3>2
  <2>2. QED
    BY <2>1 DEF OwnedIn
<1>17. HeldIn(index)'
  <2>1. ASSUME NEW b \in Chn, IsOpen(b)'
        PROVE  LET mine == {f \in LiveIn(index'[writer'[b].d]) : f.seg = writer'[b].seg} IN
               /\ writer'[b].count = 0 <=> mine = {}
               /\ \A f \in mine : f.count <= writer'[b].count /\ f.bytes <= writer'[b].off
    <3>1. CASE b = c
      <4>1. writer'[b] = w
        BY <1>2, <3>1
      <4>2. \A f \in LiveIn(rxs[d]) : f.seg # w.seg
        BY <1>3, <1>5 DEF LiveIn, Names
      <4>3. CASE rolls
        <5>1. {f \in LiveIn(index'[d]) : f.seg = w.seg} = {e}
          BY <1>6, <1>13, <4>2, <4>3
        <5>2. QED
          BY <1>3, <1>9, <4>1, <4>3, <5>1
      <4>4. CASE ~rolls
        BY <1>3, <1>8, <1>13, <4>1, <4>2, <4>4
      <4>5. QED
        BY <4>3, <4>4
    <3>2. CASE b # c
      <4>1. IsOpen(b) /\ writer'[b] = writer[b]
        BY <1>2, <2>1, <3>2
      <4>2. writer[b].d \in Disk /\ writer[b].seg # NextSeg(c, d)
        <5>1. writer[b].d \in Disk /\ writer[b].seg[1] = b
          BY <4>1 DEF KInv, IInv, TypeOK, Writer, WritersOwn
        <5>2. QED
          BY <3>2, <5>1 DEF NextSeg
      <4>3. \A f \in LiveIn(jxs[writer[b].d]) : f.seg = writer[b].seg =>
              (writer[b].d = d => f.chunk # wptr[d])
        <5>1. \A f \in LiveIn(jxs[writer[b].d]) : f.seg = writer[b].seg => f.chunk = writer[b].chunk
          BY <4>1, WriterSlots DEF KeptIn
        <5>2. writer[b].d = d => writer[b].chunk # wptr[d]
          BY <1>2, <3>2, <4>1
        <5>3. QED
          BY <5>1, <5>2
      <4>4. {f \in LiveIn(index'[writer[b].d]) : f.seg = writer[b].seg}
            = {f \in LiveIn(jxs[writer[b].d]) : f.seg = writer[b].seg}
        BY <1>3, <1>4, <1>6, <1>13, <4>2, <4>3
      <4>5. QED
        BY <4>1, <4>4 DEF KeptIn, HeldIn
    <3>3. QED
      BY <3>1, <3>2
  <2>2. QED
    BY <2>1 DEF HeldIn
<1>19. TiledIn(index)'
  <2>1. ASSUME NEW x \in Disk, NEW f \in LiveIn(index'[x]), f.st = "valid"
        PROVE  Tiled(data'[x][f.chunk], f)
    <3>1. f \in LiveIn(rxs[x])
      BY <1>9, <1>13, <2>1
    <3>2. f.chunk \in Chunk /\ (x = d => f.chunk # wptr[d])
      BY <1>4, <1>7, <3>1 DEF LiveIn
    <3>3. data'[x][f.chunk] = data[x][f.chunk]
      BY <1>10, <3>2
    <3>4. QED
      BY <1>4, <2>1, <3>1, <3>3 DEF TiledIn
  <2>2. QED
    BY <2>1 DEF TiledIn
<1>20. WritersTiled'
  <2>1. ASSUME NEW b \in Chn, IsOpen(b)', writer'[b].count > 0
        PROVE  Tiled(data'[writer'[b].d][writer'[b].chunk], SlotOf(writer'[b], "valid"))
    <3>1. CASE b = c
      <4>1. writer'[b] = w
        BY <1>2, <3>1
      <4>2. rolls
        BY <1>3, <1>8, <2>1, <4>1
      <4>3. QED
        BY <1>3, <1>18, <4>1, <4>2
    <3>2. CASE b # c
      <4>1. IsOpen(b) /\ writer'[b] = writer[b]
        BY <1>2, <2>1, <3>2
      <4>2. data'[writer[b].d][writer[b].chunk] = data[writer[b].d][writer[b].chunk]
        <5>1. writer[b].d \in Disk /\ writer[b].chunk \in Chunk
          BY DEF KInv, IInv, TypeOK, Writer
        <5>2. <<writer[b].d, writer[b].chunk>> # <<d, wptr[d]>>
          BY <1>2, <3>2, <4>1
        <5>3. QED
          BY <1>10, <5>1, <5>2
      <4>3. QED
        BY <2>1, <4>1, <4>2 DEF KInv, WritersTiled
    <3>3. QED
      BY <3>1, <3>2
  <2>2. QED
    BY <2>1 DEF WritersTiled, SlotOf
<1>21. QED
  BY <1>14, <1>15, <1>16, <1>17, <1>19, <1>20 DEF KeptIn

-----------------------------------------------------------------------------
(* A frame that fits. *)

LEMMA TiledAppend ==
  ASSUME NEW w \in Writer, NEW n \in FrameUnits, w.off + n <= ChunkUnits,
         NEW p \in [Unit -> Cell], NEW q \in [Unit -> Cell],
         \A u \in Unit : q[u] = IF u \in w.off .. w.off + n - 1
                                THEN [seg |-> w.seg, seq |-> w.count, len |-> n,
                                      hdr |-> IF u = w.off THEN "yes" ELSE "no"]
                                ELSE p[u],
         \/ w.count = 0 /\ w.off = 0
         \/ w.count > 0 /\ Tiled(p, SlotOf(w, "valid"))
  PROVE  Tiled(q, SlotOf(After(w, n), "valid"))
<1> DEFINE e == SlotOf(w, "valid")
           f == SlotOf(After(w, n), "valid")
<1>1. n \in Nat \ {0} /\ w.off \in Nat /\ w.count \in Nat /\ w.endOff \in Nat
  BY FormatAssumption DEF Writer
<1>2. f.seg = w.seg /\ f.bytes = w.off + n /\ f.endOff = w.off /\ f.count = w.count + 1
  BY DEF SlotOf, After, Writer
<1>3. e.seg = w.seg /\ e.bytes = w.off /\ e.endOff = w.endOff /\ e.count = w.count
  BY DEF SlotOf
<1> HIDE DEF f
<1>4. (e.count = 0 /\ e.bytes = 0) \/ Tiled(p, e)
  BY <1>3
<1> HIDE DEF e
<1>5. Prolongs(e, f, n)
  BY <1>2, <1>3 DEF Prolongs
<1>6. Lengthened(e, n, p, q)
  BY <1>3, Zenon DEF Lengthened, Record
<1>7. e.bytes \in Nat /\ e.endOff \in Nat /\ e.count \in Nat /\ e.bytes + n <= ChunkUnits
  BY <1>1, <1>3
<1>8. Tiled(q, f)
  BY <1>1, <1>4, <1>5, <1>6, <1>7, TilesOn
<1>9. QED
  BY <1>8 DEF f

LEMMA StampedCells ==
  ASSUME data \in [Disk -> [Chunk -> [Unit -> Cell]]], NEW w \in Writer, NEW n \in FrameUnits
  PROVE  \A u \in Unit :
           Stamped(w, n)[w.d][w.chunk][u] =
             IF u \in w.off .. w.off + n - 1
             THEN [seg |-> w.seg, seq |-> w.count, len |-> n,
                   hdr |-> IF u = w.off THEN "yes" ELSE "no"]
             ELSE data[w.d][w.chunk][u]
<1> DEFINE row == [u \in Unit |->
                    IF u \in w.off .. w.off + n - 1
                    THEN [seg |-> w.seg, seq |-> w.count, len |-> n,
                          hdr |-> IF u = w.off THEN "yes" ELSE "no"]
                    ELSE data[w.d][w.chunk][u]]
<1>1. w.d \in Disk /\ w.chunk \in Chunk
  BY DEF Writer
<1>2. Stamped(w, n) = [data EXCEPT ![w.d][w.chunk] = row]
  BY <1>1 DEF Stamped
<1>3. \A u \in Unit : row[u] = IF u \in w.off .. w.off + n - 1
                                THEN [seg |-> w.seg, seq |-> w.count, len |-> n,
                                      hdr |-> IF u = w.off THEN "yes" ELSE "no"]
                                ELSE data[w.d][w.chunk][u]
  OBVIOUS
<1> HIDE DEF row
<1>4. Stamped(w, n)[w.d][w.chunk] = row
  BY <1>1, <1>2
<1>5. QED
  BY <1>3, <1>4

LEMMA AppendKept ==
  ASSUME KInv, RingAssumption, NEW c \in Chn, IsOpen(c), NEW n \in FrameUnits, Fits(c, n),
         data' = Stamped(writer[c], n),
         writer' = [writer EXCEPT ![c] = After(writer[c], n)],
         UNCHANGED <<wptr, wrapped, segSeq, rr, owner>>,
         \/ writer[c].count = 0 /\ index' = Opened(index, writer[c])
         \/ writer[c].count > 0 /\ index' = index,
         IInv'
  PROVE  OwnersOK' /\ WritersOwn' /\ WritersTiled' /\ KeptIn(index)'
<1> DEFINE w == writer[c]
           v == After(w, n)
           e == SlotOf(w, "open")
           first == w.count = 0
           m == index[w.d].next
<1>1. /\ w \in Writer /\ w.d \in Disk /\ w.chunk \in Chunk /\ w.seg \in Seg
      /\ w.off \in 0 .. ChunkUnits /\ w.count \in Nat
      /\ \A b \in Chn : IsOpen(b) /\ b # c => writer[b].seg # w.seg
  <2>1. w.count \in Nat
    BY DEF KInv, IInv, TypeOK, Writer
  <2>2. QED
    BY <2>1, WriterSlots
<1>2. TypeOK /\ index \in IndexType /\ KeptIn(index) /\ NoSharedChunk
  BY DEF KInv, IInv, Good
<1>3. /\ v.st = w.st /\ v.d = w.d /\ v.chunk = w.chunk /\ v.seg = w.seg
      /\ v.off = w.off + n /\ v.count = w.count + 1 /\ n \in Nat \ {0}
  BY <1>1, FormatAssumption DEF After, Writer
<1>4. /\ e \in IndexSlot /\ e.seg = w.seg /\ e.chunk = w.chunk /\ Live(e) /\ e.st = "open"
      /\ e.count = w.count /\ e.bytes = w.off
  BY <1>1, SlotOfTyped DEF SlotOf
<1>5. /\ data' \in [Disk -> [Chunk -> [Unit -> Cell]]]
      /\ \A x \in Disk, k \in Chunk : <<x, k>> # <<w.d, w.chunk>> => data'[x][k] = data[x][k]
  <2>1. data \in [Disk -> [Chunk -> [Unit -> Cell]]] /\ w.off + n <= ChunkUnits
    BY <1>2 DEF TypeOK, Fits
  <2> HIDE DEF w
  <2>2. QED
    BY <1>1, <2>1, StampTyped DEF w
<1>6. \A u \in Unit : data'[w.d][w.chunk][u] =
        IF u \in w.off .. w.off + n - 1
        THEN [seg |-> w.seg, seq |-> w.count, len |-> n, hdr |-> IF u = w.off THEN "yes" ELSE "no"]
        ELSE data[w.d][w.chunk][u]
  BY <1>1, <1>2, StampedCells DEF TypeOK
<1>7. /\ data[w.d][w.chunk] \in [Unit -> Cell] /\ data'[w.d][w.chunk] \in [Unit -> Cell]
  BY <1>1, <1>2, <1>5 DEF TypeOK
<1>8. \A b \in Chn : writer'[b] = IF b = c THEN v ELSE writer[b]
  BY <1>2 DEF TypeOK
<1>9. \A b \in Chn : /\ IsOpen(b)' <=> IsOpen(b)
                     /\ writer'[b].d = writer[b].d /\ writer'[b].chunk = writer[b].chunk
                     /\ writer'[b].seg = writer[b].seg
                     /\ b # c => writer'[b] = writer[b]
  <2> HIDE DEF v
  <2>1. QED
    BY <1>3, <1>8 DEF IsOpen
<1>10. writer'[c] = v
  BY <1>8
<1>11. first => /\ index' = Appended(index, w.d, e)
                /\ w.off = 0
                /\ \A i \in Slot : ~Names(index[w.d].slot[i], w.seg)
  <2>1. SUFFICES ASSUME first
                 PROVE  /\ index' = Appended(index, w.d, e)
                        /\ w.off = 0
                        /\ \A i \in Slot : ~Names(index[w.d].slot[i], w.seg)
    OBVIOUS
  <2>2. \A i \in Slot : ~Names(index[w.d].slot[i], w.seg)
    <3>1. {f \in LiveIn(index[w.d]) : f.seg = w.seg} = {}
      BY <1>2, <2>1 DEF KeptIn, HeldIn
    <3>2. QED
      BY <3>1 DEF LiveIn, Names
  <2>3. index' = Opened(index, w)
    BY <2>1
  <2>4. index[w.d] \in Ring
    BY <1>1, <1>2 DEF IndexType, Ring
  <2> HIDE DEF e
  <2>5. IndexWrite(index[w.d], e) = [slot |-> [index[w.d].slot EXCEPT ![index[w.d].next] = e],
                                     next |-> (index[w.d].next + 1) % NSlots]
    BY <1>4, <2>2, <2>4, UpsertMisses
  <2>6. index' = Appended(index, w.d, e)
    BY <2>3, <2>5 DEF Opened, Appended, e
  <2>7. w.off = 0
    BY <2>1 DEF KInv, IInv, EmptyAtStart
  <2>8. QED
    BY <2>2, <2>6, <2>7 DEF e
<1>12. ~first => index' = index /\ w.count > 0
  BY <1>1
<1>13. OwnersOK' /\ WritersOwn'
  BY <1>9 DEF KInv, OwnersOK, WritersOwn
<1> HIDE DEF v, e, first
<1>14. WritersTiled'
  <2>1. ASSUME NEW b \in Chn, IsOpen(b)', writer'[b].count > 0
        PROVE  Tiled(data'[writer'[b].d][writer'[b].chunk], SlotOf(writer'[b], "valid"))
    <3>1. CASE b = c
      <4>1. \/ w.count = 0 /\ w.off = 0
            \/ w.count > 0 /\ Tiled(data[w.d][w.chunk], SlotOf(w, "valid"))
        BY <1>11, <1>12 DEF KInv, WritersTiled, first
      <4>2. w.off + n <= ChunkUnits
        BY DEF Fits
      <4> HIDE DEF w
      <4>3. Tiled(data'[w.d][w.chunk], SlotOf(After(w, n), "valid"))
        BY <1>1, <1>6, <1>7, <4>1, <4>2, TiledAppend
      <4>4. QED
        BY <1>3, <1>10, <3>1, <4>3 DEF v
    <3>2. CASE b # c
      <4>1. IsOpen(b) /\ writer'[b] = writer[b]
        BY <1>9, <2>1, <3>2
      <4>2. writer[b].d \in Disk /\ writer[b].chunk \in Chunk
        BY <1>2 DEF TypeOK, Writer
      <4>3. <<writer[b].d, writer[b].chunk>> # <<w.d, w.chunk>>
        BY <1>2, <3>2, <4>1 DEF NoSharedChunk
      <4>4. data'[writer[b].d][writer[b].chunk] = data[writer[b].d][writer[b].chunk]
        BY <1>5, <4>2, <4>3
      <4>5. QED
        BY <2>1, <4>1, <4>4 DEF KInv, WritersTiled
    <3>3. QED
      BY <3>1, <3>2
  <2>2. QED
    BY <2>1 DEF WritersTiled, SlotOf
\* the slots of the new index, after a first frame and after a further one
<1>15. /\ \A x \in Disk : x # w.d \/ ~first => index'[x] = index[x]
       /\ first => /\ m \in Slot
                   /\ index'[w.d] = [slot |-> [index[w.d].slot EXCEPT ![m] = e],
                                     next |-> (m + 1) % NSlots]
                   /\ \A j \in Slot : index'[w.d].slot[j] = IF j = m THEN e ELSE index[w.d].slot[j]
                   /\ SlotAge(index'[w.d], m) = 0
                   /\ \A j \in Slot : j # m => SlotAge(index'[w.d], j) = SlotAge(index[w.d], j) + 1
  <2>1. CASE ~first
    BY <1>12, <2>1
  <2>2. CASE first
    <3>1. index' = Appended(index, w.d, e)
      BY <1>11, <2>2
    <3>2. QED
      BY <1>1, <1>2, <1>4, <2>2, <3>1, AppendedSlots
  <2>3. QED
    BY <2>1, <2>2
<1>16. /\ \A x \in Disk : /\ IsFiniteSet(Waiting(x)) /\ Cardinality(Waiting(x)) \in Nat
                          /\ Cardinality(Chn) \in Nat /\ IsFiniteSet(Chn)
                          /\ Waiting(x)' \subseteq Waiting(x)
       /\ \A x \in Disk : x = w.d => c \notin Waiting(x)' /\ (first => c \in Waiting(x))
  <2>1. \A x \in Disk : /\ IsFiniteSet(Waiting(x)) /\ Cardinality(Waiting(x)) \in Nat
                        /\ Cardinality(Chn) \in Nat /\ IsFiniteSet(Chn)
    BY WaitingCount DEF RingAssumption
  <2>2. writer'[c].count # 0
    BY <1>1, <1>3, <1>10
  <2>3. \A x \in Disk : Waiting(x)' \subseteq Waiting(x)
    <3>1. ASSUME NEW x \in Disk, NEW b \in Waiting(x)' PROVE b \in Waiting(x)
      <4>1. b \in Chn /\ IsOpen(b)' /\ writer'[b].d = x /\ writer'[b].count = 0
        BY DEF Waiting
      <4>2. b # c /\ writer'[b] = writer[b] /\ IsOpen(b)
        BY <1>9, <2>2, <4>1
      <4>3. QED
        BY <4>1, <4>2 DEF Waiting
    <3>2. QED
      BY <3>1
  <2>4. \A x \in Disk : x = w.d => (first => c \in Waiting(x))
    BY DEF first, Waiting
  <2>5. \A x \in Disk : c \notin Waiting(x)'
    BY <2>2 DEF Waiting
  <2>6. QED
    BY <2>1, <2>3, <2>4, <2>5
\* the slot a first frame writes is not live
<1>17. first => ~Live(index[w.d].slot[m])
  <2>1. SUFFICES ASSUME first, Live(index[w.d].slot[m]) PROVE FALSE
    OBVIOUS
  <2>2. index[w.d] \in Ring /\ m \in Slot
    BY <1>1, <1>2 DEF IndexType, Ring
  <2>3. SlotAge(index[w.d], m) = NSlots - 1
    BY <2>2, Ages
  <2> DEFINE k == index[w.d].slot[m].chunk
  <2>4. ChunkAge(wptr[w.d], k) \in Int /\ ChunkAge(wptr[w.d], k) <= NChunks - 1
    <3>1. wptr[w.d] \in 0 .. NChunks /\ NChunks \in Nat
      BY <1>1, <1>2, FormatAssumption DEF TypeOK
    <3>2. k \in 0 .. NChunks - 1
      <4>1. index[w.d].slot[m] \in IndexSlot
        BY <2>2 DEF Ring
      <4>2. QED
        BY <4>1 DEF IndexSlot, Chunk
    <3> HIDE DEF k
    <3>3. QED
      BY <3>1, <3>2 DEF ChunkAge
  <2>5. SlotAge(index[w.d], m) + Cardinality(Waiting(w.d)) < ChunkAge(wptr[w.d], k) + Cardinality(Chn)
    BY <1>1, <1>2, <2>1, <2>2 DEF KeptIn, AgesIn
  <2>6. Cardinality(Waiting(w.d)) \in Nat /\ Cardinality(Chn) \in Nat /\ 1 <= Cardinality(Waiting(w.d))
    <3>1. c \in Waiting(w.d) /\ IsFiniteSet(Waiting(w.d)) /\ Cardinality(Waiting(w.d)) \in Nat
          /\ Cardinality(Chn) \in Nat
      BY <1>1, <1>16, <2>1
    <3>2. Cardinality(Waiting(w.d)) # 0
      BY <3>1, FS_EmptySet
    <3>3. QED
      BY <3>1, <3>2
  <2>7. NSlots >= NChunks + Cardinality(Chn) - 1 /\ NSlots \in Nat /\ NChunks \in Nat
    BY FormatAssumption DEF RingAssumption
  <2> HIDE DEF k
  <2>8. QED
    BY <2>3, <2>4, <2>5, <2>6, <2>7
\* the live slots of the new index
<1>18. \A x \in Disk : LiveIn(index'[x]) = IF x = w.d /\ first THEN LiveIn(index[x]) \cup {e}
                                           ELSE LiveIn(index[x])
  <2>1. CASE ~first
    BY <1>12, <2>1
  <2>2. CASE first
    <3>1. ASSUME NEW f, f \in LiveIn(index'[w.d]) PROVE f \in LiveIn(index[w.d]) \cup {e}
      BY <1>15, <2>2, <3>1 DEF LiveIn
    <3>2. ASSUME NEW f, f \in LiveIn(index[w.d]) PROVE f \in LiveIn(index'[w.d])
      BY <1>15, <1>17, <2>2, <3>2 DEF LiveIn
    <3>3. e \in LiveIn(index'[w.d])
      BY <1>4, <1>15, <2>2 DEF LiveIn
    <3>4. LiveIn(index'[w.d]) = LiveIn(index[w.d]) \cup {e}
      BY <3>1, <3>2, <3>3
    <3>5. QED
      BY <1>15, <2>2, <3>4
  <2>3. QED
    BY <2>1, <2>2
<1>19. \A x \in Disk : \A f \in LiveIn(index[x]) : f \in IndexSlot /\ f.chunk \in Chunk
  BY <1>2 DEF LiveIn, IndexType, IndexSlot
<1>20. OrderIn(index)'
  <2>1. CASE ~first
    BY <1>2, <1>12, <2>1 DEF KeptIn, OrderIn, Front, Lone, SlotAge
  <2>2. CASE first
    <3>1. index[w.d] \in Ring /\ Front(index[w.d]) /\ Lone(index[w.d]) /\ index'[w.d] \in Ring
      BY <1>1, <1>2 DEF KeptIn, OrderIn, IndexType, Ring, IInv, Good
    <3>2. \A i \in Slot : ~Names(index[w.d].slot[i], e.seg)
      BY <1>4, <1>11, <2>2
    <3>3. Front(index'[w.d]) /\ Lone(index'[w.d])
      BY <1>4, <1>15, <2>2, <3>1, <3>2, AppendOrders
    <3>4. \A x \in Disk : Front(index'[x]) /\ Lone(index'[x])
      BY <1>2, <1>15, <3>3 DEF KeptIn, OrderIn
    <3>5. QED
      BY <3>4 DEF OrderIn, Front, Lone, SlotAge
  <2>3. QED
    BY <2>1, <2>2
<1>21. AgesIn(index)'
  <2>1. ASSUME NEW x \in Disk, NEW i \in Slot, Live(index'[x].slot[i])
        PROVE  SlotAge(index'[x], i) + Cardinality(Waiting(x)')
                 < ChunkAge(wptr'[x], index'[x].slot[i].chunk) + Cardinality(Chn)
    <3>1. /\ Cardinality(Waiting(x)) \in Nat /\ Cardinality(Chn) \in Nat
          /\ Cardinality(Waiting(x)') \in Nat /\ Cardinality(Waiting(x)') <= Cardinality(Waiting(x))
      BY <1>16, FS_Subset, FS_CardinalityType
    <3>2. index[x] \in Ring /\ SlotAge(index[x], i) \in Nat
      <4>1. index[x] \in Ring
        BY <1>2 DEF IndexType, Ring
      <4>2. SlotAge(index[x], i) \in 0 .. NSlots - 1
        BY <4>1, Ages
      <4>3. QED
        BY <4>1, <4>2, FormatAssumption
    <3>3. /\ wptr'[x] = wptr[x] /\ wptr[x] \in 0 .. NChunks
          /\ \A k \in Chunk : ChunkAge(wptr[x], k) \in Int
                              /\ (k < wptr[x] => ChunkAge(wptr[x], k) >= 0)
                              /\ ChunkAge(wptr[x], k) >= 0
      <4>1. wptr'[x] = wptr[x] /\ wptr[x] \in 0 .. NChunks
        BY <1>2 DEF TypeOK
      <4>2. QED
        BY <4>1, FormatAssumption DEF ChunkAge, Chunk
    <3>4. CASE ~(x = w.d /\ first /\ i = m)
      <4>1. index'[x].slot[i] = index[x].slot[i]
        BY <1>15, <3>4
      <4> DEFINE k == index[x].slot[i].chunk
      <4>2. k \in Chunk /\ index'[x].slot[i].chunk = k
        BY <1>19, <2>1, <4>1 DEF LiveIn
      <4>3. SlotAge(index[x], i) + Cardinality(Waiting(x)) < ChunkAge(wptr[x], k) + Cardinality(Chn)
        BY <1>2, <2>1, <4>1 DEF KeptIn, AgesIn
      <4>4. SlotAge(index'[x], i) + Cardinality(Waiting(x)') <= SlotAge(index[x], i) + Cardinality(Waiting(x))
        <5>1. CASE x = w.d /\ first
          <6>1. SlotAge(index'[x], i) = SlotAge(index[x], i) + 1
            BY <1>15, <3>4, <5>1
          <6>2. Cardinality(Waiting(x)') + 1 <= Cardinality(Waiting(x))
            <7>1. c \in Waiting(x) /\ Waiting(x)' \subseteq Waiting(x) \ {c} /\ IsFiniteSet(Waiting(x))
              BY <1>16, <5>1
            <7>2. QED
              BY <7>1, OneLess
          <6>3. QED
            BY <3>1, <3>2, <6>1, <6>2
        <5>2. CASE ~(x = w.d /\ first)
          BY <1>15, <3>1, <3>2, <5>2
        <5>3. QED
          BY <5>1, <5>2
      <4>5. SlotAge(index'[x], i) \in Int /\ ChunkAge(wptr[x], k) \in Int
        <5>1. index'[x] \in Ring
          BY DEF IInv, Good, IndexType, Ring
        <5>2. SlotAge(index'[x], i) \in 0 .. NSlots - 1
          BY <5>1, Ages
        <5>3. QED
          BY <3>3, <4>2, <5>2
      <4> HIDE DEF k
      <4>6. QED
        BY <3>1, <3>2, <3>3, <4>2, <4>3, <4>4, <4>5
    <3>5. CASE x = w.d /\ first /\ i = m
      <4>1. index'[x].slot[i] = e /\ SlotAge(index'[x], i) = 0 /\ e.chunk \in Chunk
        BY <1>1, <1>4, <1>15, <3>5
      <4>2. Cardinality(Waiting(x)') + 1 <= Cardinality(Waiting(x))
        <5>1. c \in Waiting(x) /\ Waiting(x)' \subseteq Waiting(x) \ {c} /\ IsFiniteSet(Waiting(x))
          BY <1>16, <3>5
        <5>2. QED
          BY <5>1, OneLess
      <4>3. Cardinality(Waiting(x)) <= Cardinality(Chn)
        BY WaitingCount
      <4>4. ChunkAge(wptr[x], e.chunk) \in Int /\ ChunkAge(wptr[x], e.chunk) >= 0
        BY <3>3, <4>1
      <4>5. QED
        BY <3>1, <3>3, <4>1, <4>2, <4>3, <4>4
    <3>6. QED
      BY <3>4, <3>5
  <2>2. QED
    BY <2>1 DEF AgesIn
<1>22. OwnedIn(index)'
  <2>1. owner' = owner /\ owner[w.d][w.chunk] = w.seg
    BY DEF KInv, WritersOwn
  <2>2. QED
    BY <1>1, <1>2, <1>4, <1>18, <2>1 DEF KeptIn, OwnedIn
<1>23. HeldIn(index)'
  <2>1. ASSUME NEW b \in Chn, IsOpen(b)'
        PROVE  LET mine == {f \in LiveIn(index'[writer'[b].d]) : f.seg = writer'[b].seg} IN
               /\ writer'[b].count = 0 <=> mine = {}
               /\ \A f \in mine : f.count <= writer'[b].count /\ f.bytes <= writer'[b].off
    <3>1. CASE b = c
      <4>1. /\ writer'[b].d = w.d /\ writer'[b].seg = w.seg /\ writer'[b].count = w.count + 1
            /\ writer'[b].off = w.off + n
        BY <1>3, <1>10, <3>1
      <4>2. CASE first
        <5>4. \A f \in LiveIn(index[w.d]) : f.seg # w.seg
          BY <1>11, <4>2 DEF LiveIn, Names
        <5>5. LiveIn(index'[w.d]) = LiveIn(index[w.d]) \cup {e}
          BY <1>1, <1>18, <4>2
        <5>1. {f \in LiveIn(index'[w.d]) : f.seg = w.seg} = {e}
          BY <1>4, <5>4, <5>5
        <5>2. e.count <= w.count + 1 /\ e.bytes <= w.off + n /\ w.count + 1 # 0
          BY <1>1, <1>3, <1>4
        <5>3. QED
          BY <4>1, <5>1, <5>2
      <4>3. CASE ~first
        <5> DEFINE mine == {f \in LiveIn(index[w.d]) : f.seg = w.seg}
        <5>1. mine # {} /\ \A f \in mine : f.count <= w.count /\ f.bytes <= w.off
          BY <1>2, <4>3 DEF KeptIn, HeldIn, first
        <5>2. \A f \in mine : f.count \in Nat /\ f.bytes \in Int
          <6>1. \A f \in mine : f \in IndexSlot
            BY <1>1, <1>19
          <6> HIDE DEF mine
          <6>2. QED
            BY <6>1 DEF IndexSlot
        <5>3. {f \in LiveIn(index'[w.d]) : f.seg = w.seg} = mine
          BY <1>12, <4>3
        <5> HIDE DEF mine
        <5>4. \A f \in mine : f.count <= w.count + 1 /\ f.bytes <= w.off + n
          BY <1>1, <1>3, <5>1, <5>2
        <5>5. w.count + 1 # 0
          BY <1>1
        <5>6. QED
          BY <4>1, <5>1, <5>3, <5>4, <5>5
      <4>4. QED
        BY <4>2, <4>3
    <3>2. CASE b # c
      <4>1. IsOpen(b) /\ writer'[b] = writer[b] /\ writer[b].d \in Disk /\ writer[b].seg # w.seg
        BY <1>1, <1>2, <1>9, <2>1, <3>2 DEF TypeOK, Writer
      <4>2. {f \in LiveIn(index'[writer[b].d]) : f.seg = writer[b].seg}
            = {f \in LiveIn(index[writer[b].d]) : f.seg = writer[b].seg}
        BY <1>4, <1>18, <4>1
      <4>3. QED
        BY <1>2, <4>1, <4>2 DEF KeptIn, HeldIn
    <3>3. QED
      BY <3>1, <3>2
  <2>2. QED
    BY <2>1 DEF HeldIn
<1>24. TiledIn(index)'
  <2>1. ASSUME NEW x \in Disk, NEW f \in LiveIn(index'[x]), f.st = "valid"
        PROVE  Tiled(data'[x][f.chunk], f)
    <3>1. f \in LiveIn(index[x]) /\ f \in IndexSlot /\ f.chunk \in Chunk
      BY <1>4, <1>18, <1>19, <2>1
    <3>2. Tiled(data[x][f.chunk], f)
      BY <1>2, <2>1, <3>1 DEF KeptIn, TiledIn
    <3>3. CASE <<x, f.chunk>> # <<w.d, w.chunk>>
      BY <1>5, <3>1, <3>2, <3>3
    <3>4. CASE x = w.d /\ f.chunk = w.chunk
      <4>1. f.seg = w.seg
        BY <3>1, <3>4 DEF KInv, IInv, Good, OwnSlotsIn
      <4>2. f.bytes <= w.off
        BY <1>2, <3>1, <3>4, <4>1 DEF KeptIn, HeldIn
      <4>3. \A u \in Unit : u < w.off => data'[w.d][w.chunk][u] = data[w.d][w.chunk][u]
        <5>1. \A u \in Unit : u < w.off => u \notin w.off .. w.off + n - 1
          BY <1>1 DEF Unit
        <5> HIDE DEF w
        <5>2. QED
          BY <1>6, <5>1
      <4>4. w.off \in Nat /\ f.endOff < f.bytes
        BY <1>1, <3>2, FormatAssumption DEF Tiled
      <4>5. Tiled(data'[w.d][w.chunk], f)
        BY <1>7, <3>1, <3>2, <3>4, <4>2, <4>3, <4>4, TiledSame
      <4>6. QED
        BY <3>4, <4>5
    <3>5. QED
      BY <3>3, <3>4
  <2>2. QED
    BY <2>1 DEF TiledIn
<1>25. QED
  BY <1>13, <1>14, <1>20, <1>21, <1>22, <1>23, <1>24 DEF KeptIn

-----------------------------------------------------------------------------
(* The calls: what each does to the index and to the writers. *)

(***************************************************************************)
(* The index that start_seg finds: finalize_seg ran, or it did not.        *)
(***************************************************************************)
Base(c, jxs) == jxs = index \/ (IsOpen(c) /\ jxs = Finalized(index, writer[c]))

LEMMA BaseKept ==
  ASSUME KInv, SlotsNear, NEW c \in Chn, NEW jxs, Base(c, jxs)
  PROVE  jxs \in IndexType /\ Good(jxs) /\ KeptIn(jxs)
<1>1. CASE jxs = index
  BY <1>1 DEF KInv, IInv, Good
<1>2. CASE IsOpen(c) /\ jxs = Finalized(index, writer[c])
  <2>1. Good(jxs)
    BY <1>2, FinalizedGood DEF KInv
  <2>2. KeptIn(jxs)
    BY <1>2, FinalizedKept
  <2>3. QED
    BY <2>1, <2>2 DEF Good
<1>3. QED
  BY <1>1, <1>2 DEF Base

Starting(c) ==
  \/ \E t \in RecType : OpenWriter(c, t) \/ ChangeType(c, t)
  \/ \E n \in FrameUnits : RollFrame(c, n)

LEMMA StartShape ==
  ASSUME KInv, SlotsNear, NEW c \in Chn, Starting(c)
  PROVE  \E d \in Disk, jxs \in IndexType, w \in Writer, e \in IndexSlot :
           /\ Base(c, jxs) /\ Starts(c, d, w)
           /\ StartsEmpty(d, jxs, w) \/ StartsWith(d, jxs, w, e)
<1>1. TypeOK /\ PointerOK /\ index \in IndexType /\ data \in [Disk -> [Chunk -> [Unit -> Cell]]]
  BY DEF KInv, IInv, Good, TypeOK
<1>2. \E e : e \in IndexSlot
  <2>1. index[0] \in Ring /\ 0 \in Slot
    BY <1>1, FormatAssumption, GroupAssumption DEF IndexType, Ring, Disk, Slot
  <2>2. QED
    BY <2>1 DEF Ring
<1>3. ASSUME NEW t \in RecType, OpenWriter(c, t) \/ ChangeType(c, t)
      PROVE  \E d \in Disk, jxs \in IndexType, w \in Writer :
               Base(c, jxs) /\ Starts(c, d, w) /\ StartsEmpty(d, jxs, w)
  <2>1. PICK d \in Disk, jxs \in {index, Finalized(index, writer[c])} :
          /\ Base(c, jxs) /\ TakeChunk(c, d) /\ index' = Reclaimed(jxs, d)
          /\ writer' = [writer EXCEPT ![c] = Fresh(c, d, t)]
          /\ data' = data
    BY <1>3 DEF OpenWriter, ChangeType, Base
  <2>2. jxs \in IndexType
    BY <2>1, BaseKept
  <2>3. Fresh(c, d, t) \in Writer
    BY <1>1, <2>1, FreshTyped
  <2>4. Starts(c, d, Fresh(c, d, t)) /\ StartsEmpty(d, jxs, Fresh(c, d, t))
    <3>1. /\ Fresh(c, d, t).st = "open" /\ Fresh(c, d, t).d = d
          /\ Fresh(c, d, t).chunk = wptr[d] /\ Fresh(c, d, t).seg = NextSeg(c, d)
          /\ Fresh(c, d, t).count = 0
      BY DEF Fresh
    <3>2. QED
      BY <2>1, <2>3, <3>1 DEF Starts, StartsEmpty
  <2>5. QED
    BY <2>1, <2>2, <2>3, <2>4
<1>4. ASSUME NEW n \in FrameUnits, RollFrame(c, n)
      PROVE  \E d \in Disk, jxs \in IndexType, w \in Writer, e \in IndexSlot :
               Base(c, jxs) /\ Starts(c, d, w) /\ StartsWith(d, jxs, w, e)
  <2> DEFINE jxs == Finalized(index, writer[c])
             t == writer[c].type
  <2>1. IsOpen(c) /\ Base(c, jxs) /\ n \in Nat \ {0} /\ n <= ChunkUnits /\ t \in RecType
    BY <1>1, <1>4, FormatAssumption DEF RollFrame, Base, TypeOK, Writer
  <2>2. jxs \in IndexType /\ Good(jxs) /\ KeptIn(jxs)
    BY <2>1, BaseKept
  <2> HIDE DEF jxs, t
  <2>3. PICK d \in Disk :
          /\ TakeChunk(c, d)
          /\ index' = Opened(Reclaimed(jxs, d), Fresh(c, d, t))
          /\ data' = Stamped(Fresh(c, d, t), n)
          /\ writer' = [writer EXCEPT ![c] = After(Fresh(c, d, t), n)]
    BY <1>4 DEF RollFrame, jxs, t
  <2> DEFINE f == Fresh(c, d, t)
             w == After(f, n)
             e == SlotOf(f, "open")
             rxs == Reclaimed(jxs, d)
  <2>4. f \in Writer
    BY <1>1, <2>1, <2>3, FreshTyped
  <2>5. /\ f.st = "open" /\ f.d = d /\ f.chunk = wptr[d] /\ f.off = 0 /\ f.count = 0
        /\ f.seg = NextSeg(c, d)
    BY DEF Fresh
  <2> HIDE DEF f
  <2>6. f.off + n <= ChunkUnits /\ d \in Disk /\ wptr[d] \in Chunk
    <3>1. f.off + n = n
      BY <2>1, <2>5
    <3>2. wptr[d] \in Chunk
      BY <1>1, <2>3, AllocRange DEF TakeChunk
    <3>3. QED
      BY <2>1, <3>1, <3>2
  <2>7. /\ w \in Writer /\ w.st = "open" /\ w.d = d /\ w.chunk = wptr[d]
        /\ w.seg = NextSeg(c, d) /\ w.off = n
        /\ Stamped(f, n) \in [Disk -> [Chunk -> [Unit -> Cell]]]
        /\ \A x \in Disk, k \in Chunk :
             <<x, k>> # <<d, w.chunk>> => Stamped(f, n)[x][k] = data[x][k]
    <3>1. f.off + n = n
      BY <2>1, <2>5
    <3>2. /\ w \in Writer /\ w.st = f.st /\ w.d = f.d /\ w.chunk = f.chunk
          /\ w.seg = f.seg /\ w.off = f.off + n
      BY <1>1, <2>4, <2>6, StampTyped
    <3>3. /\ Stamped(f, n) \in [Disk -> [Chunk -> [Unit -> Cell]]]
          /\ \A x \in Disk, k \in Chunk :
               <<x, k>> # <<f.d, f.chunk>> => Stamped(f, n)[x][k] = data[x][k]
      BY <1>1, <2>4, <2>6, StampTyped
    <3> HIDE DEF w
    <3>4. QED
      BY <2>5, <3>1, <3>2, <3>3
  <2>8. w.count = 1
    BY <2>4, <2>5 DEF After, Writer
  <2>9. \A u \in Unit : Stamped(f, n)[d][wptr[d]][u] =
          IF u \in f.off .. f.off + n - 1
          THEN [seg |-> f.seg, seq |-> f.count, len |-> n, hdr |-> IF u = f.off THEN "yes" ELSE "no"]
          ELSE data[d][wptr[d]][u]
    BY <1>1, <2>4, <2>5, StampedCells, ZenonT(60)
  <2>10. Tiled(Stamped(f, n)[d][wptr[d]], SlotOf(w, "valid"))
    <3>1. data[d][wptr[d]] \in [Unit -> Cell] /\ Stamped(f, n)[d][wptr[d]] \in [Unit -> Cell]
      BY <1>1, <2>6, <2>7
    <3>2. QED
      BY <2>4, <2>5, <2>6, <2>9, <3>1, TiledAppend
  <2>11. /\ e \in IndexSlot /\ e.st = "open" /\ e.seg = w.seg /\ e.chunk = w.chunk
         /\ e.count = 0 /\ e.bytes = 0
    <3>1. e \in IndexSlot /\ e.st = "open" /\ e.seg = f.seg /\ e.chunk = f.chunk
      BY <2>4, SlotOfTyped
    <3>2. e.count = f.count /\ e.bytes = f.off
      BY DEF SlotOf
    <3>3. QED
      BY <2>5, <2>7, <3>1, <3>2
  <2> HIDE DEF w, e
  <2>12. index' = Appended(rxs, d, e)
    <3>1. rxs \in IndexType
      BY <2>2, ReclaimedSlots
    <3>2. OwnedIn(rxs)
      BY <2>2, ReclaimedKept
    <3>3. segSeq[d][c] < MaxSegSeq /\ index' = [rxs EXCEPT ![d] = IndexWrite(@, e)]
      BY <2>3, <2>5 DEF TakeChunk, Opened, f, e
    <3> HIDE DEF rxs
    <3>4. \A i \in Slot : ~Names(rxs[d].slot[i], e.seg)
      BY <2>7, <2>11, <3>1, <3>2, <3>3, NewSegment
    <3>5. rxs[d] \in Ring
      BY <3>1 DEF IndexType, Ring
    <3>6. IndexWrite(rxs[d], e) = [slot |-> [rxs[d].slot EXCEPT ![rxs[d].next] = e],
                                   next |-> (rxs[d].next + 1) % NSlots]
      BY <2>11, <3>4, <3>5, UpsertMisses
    <3>7. QED
      BY <3>1, <3>3, <3>6 DEF Appended, IndexType
  <2>13. data' = Stamped(f, n) /\ writer' = [writer EXCEPT ![c] = w]
    BY <2>3 DEF f, w
  <2>14. WritesOwnChunk(data', w)
    <3>1. \A u \in Unit : u < w.off => u \in f.off .. f.off + n - 1
      BY <2>1, <2>5, <2>7 DEF Unit
    <3>2. \A u \in Unit : u < w.off => data'[w.d][w.chunk][u].seg = w.seg
      <4>1. \A u \in Unit : u < w.off => Stamped(f, n)[d][wptr[d]][u].seg = f.seg
        <5>1. \A u \in Unit : Stamped(f, n)[f.d][f.chunk][u].seg =
                IF u \in f.off .. f.off + n - 1 THEN f.seg ELSE data[f.d][f.chunk][u].seg
          BY <1>1, <2>4, <2>6, StampTyped
        <5>2. QED
          BY <2>5, <3>1, <5>1
      <4>2. f.seg = w.seg /\ w.d = d /\ w.chunk = wptr[d]
        BY <2>5, <2>7
      <4>3. QED
        BY <2>13, <4>1, <4>2
    <3>3. QED
      BY <2>7, <2>13, <3>2 DEF WritesOwnChunk
  <2>15. Starts(c, d, w)
    BY <2>3, <2>7, <2>13 DEF Starts
  <2>16. StartsWith(d, jxs, w, e)
    BY <2>7, <2>8, <2>10, <2>11, <2>12, <2>13, <2>14 DEF StartsWith
  <2>17. QED
    BY <2>1, <2>2, <2>7, <2>11, <2>15, <2>16
<1>5. QED
  BY <1>2, <1>3, <1>4 DEF Starting

Frame(c, n) ==
  /\ IsOpen(c) /\ Fits(c, n)
  /\ data' = Stamped(writer[c], n)
  /\ writer' = [writer EXCEPT ![c] = After(writer[c], n)]
  /\ UNCHANGED <<wptr, wrapped, segSeq, rr, owner>>
  /\ \/ writer[c].count = 0 /\ index' = Opened(index, writer[c])
     \/ writer[c].count > 0 /\ index' = index

(***************************************************************************)
(* A call that starts no segment and writes no frame: it may close one.    *)
(***************************************************************************)
Ending(c) ==
  /\ UNCHANGED <<wptr, wrapped, segSeq, data, owner>>
  /\ Base(c, index')
  /\ \A b \in Chn : IsOpen(b)' =>
       /\ IsOpen(b)
       /\ writer'[b].d = writer[b].d /\ writer'[b].chunk = writer[b].chunk
       /\ writer'[b].seg = writer[b].seg /\ writer'[b].off = writer[b].off
       /\ writer'[b].count = writer[b].count /\ writer'[b].endOff = writer[b].endOff

LEMMA NextShapes ==
  ASSUME IInv, SingleOrOverwrite, Next
  PROVE  \E c \in Chn : Starting(c) \/ (\E n \in FrameUnits : Frame(c, n)) \/ Ending(c)
<1>1. PICK c \in Chn :
        \/ \E t \in RecType : OpenWriter(c, t) \/ ChangeType(c, t) \/ ChangeTypeFull(c, t)
        \/ \E n \in FrameUnits : \/ FirstFrame(c, n) \/ NextFrame(c, n)
                                 \/ RollFrame(c, n) \/ RollFrameFull(c, n)
        \/ OpenWriterFull(c)
        \/ CloseWriter(c)
  BY DEF Next
<1>2. TypeOK
  BY DEF IInv
<1>3. CASE \/ \E t \in RecType : OpenWriter(c, t) \/ ChangeType(c, t)
           \/ \E n \in FrameUnits : RollFrame(c, n)
  BY <1>3 DEF Starting
<1>4. CASE \E n \in FrameUnits : FirstFrame(c, n) \/ NextFrame(c, n)
  <2>1. PICK n \in FrameUnits : FirstFrame(c, n) \/ NextFrame(c, n)
    BY <1>4
  <2>2. Fits(c, n)
    <3>1. CASE FirstFrame(c, n)
      <4>1. writer[c].off = 0 /\ n <= ChunkUnits
        BY <3>1 DEF IInv, EmptyAtStart, FirstFrame
      <4>2. QED
        BY <4>1, FormatAssumption DEF Fits
    <3>2. CASE NextFrame(c, n)
      BY <3>2 DEF NextFrame
    <3>3. QED
      BY <2>1, <3>1, <3>2
  <2>3. Frame(c, n)
    BY <2>1, <2>2 DEF Frame, FirstFrame, NextFrame
  <2>4. QED
    BY <2>3
<1>5. CASE \/ OpenWriterFull(c)
           \/ \E n \in FrameUnits : RollFrameFull(c, n)
           \/ \E t \in RecType : ChangeTypeFull(c, t)
  <2>1. \E d \in Disk : NoChunk(d)
    BY <1>2, <1>5, FullWriters
  <2>2. /\ \A b \in Chn : /\ writer'[b].st = writer[b].st /\ writer'[b].d = writer[b].d
                          /\ writer'[b].chunk = writer[b].chunk /\ writer'[b].seg = writer[b].seg
                          /\ writer'[b].off = writer[b].off /\ writer'[b].count = writer[b].count
                          /\ writer'[b].endOff = writer[b].endOff
        /\ index' = index \/ (IsOpen(c) /\ index' = Finalized(index, writer[c]))
    BY <1>2, <1>5, FullWriters
  <2>3. Ending(c)
    BY <2>1, <2>2 DEF Ending, Base, NoChunk, IsOpen
  <2>4. QED
    BY <2>3
<1>6. CASE CloseWriter(c)
  <2>1. \A b \in Chn : writer'[b] = IF b = c THEN Closed ELSE writer[b]
    BY <1>2, <1>6 DEF CloseWriter, TypeOK
  <2>2. \A b \in Chn : IsOpen(b)' => IsOpen(b) /\ writer'[b] = writer[b]
    BY <2>1 DEF IsOpen, Closed
  <2>3. Ending(c)
    BY <1>6, <2>2 DEF CloseWriter, Ending, Base
  <2>4. QED
    BY <2>3
<1>7. QED
  BY <1>1, <1>3, <1>4, <1>5, <1>6

(***************************************************************************)
(* The writers that stay open after such a call are as they were.          *)
(***************************************************************************)
LEMMA EndingKept ==
  ASSUME KInv, SlotsNear, RingAssumption, NEW c \in Chn, Ending(c), IInv'
  PROVE  OwnersOK' /\ WritersOwn' /\ WritersTiled' /\ KeptIn(index)'
<1>1. index' \in IndexType /\ KeptIn(index')
  BY BaseKept DEF Ending
<1>2. \A b \in Chn : IsOpen(b)' =>
       /\ IsOpen(b)
       /\ writer'[b].d = writer[b].d /\ writer'[b].chunk = writer[b].chunk
       /\ writer'[b].seg = writer[b].seg /\ writer'[b].off = writer[b].off
       /\ writer'[b].count = writer[b].count /\ writer'[b].endOff = writer[b].endOff
  BY DEF Ending
<1>3. wptr' = wptr /\ owner' = owner /\ segSeq' = segSeq /\ data' = data
  BY DEF Ending
<1>4. OwnersOK' /\ WritersOwn'
  BY <1>2, <1>3 DEF KInv, OwnersOK, WritersOwn
<1>5. WritersTiled'
  <2>1. ASSUME NEW b \in Chn, IsOpen(b)', writer'[b].count > 0
        PROVE  Tiled(data'[writer'[b].d][writer'[b].chunk], SlotOf(writer'[b], "valid"))
    <3>1. Tiled(data[writer[b].d][writer[b].chunk], SlotOf(writer[b], "valid"))
      BY <1>2, <2>1 DEF KInv, WritersTiled
    <3>2. /\ SlotOf(writer'[b], "valid").seg = SlotOf(writer[b], "valid").seg
          /\ SlotOf(writer'[b], "valid").bytes = SlotOf(writer[b], "valid").bytes
          /\ SlotOf(writer'[b], "valid").endOff = SlotOf(writer[b], "valid").endOff
          /\ SlotOf(writer'[b], "valid").count = SlotOf(writer[b], "valid").count
      BY <1>2, <2>1 DEF SlotOf
    <3>3. data'[writer'[b].d][writer'[b].chunk] = data[writer[b].d][writer[b].chunk]
      BY <1>2, <1>3, <2>1
    <3>4. QED
      BY <3>1, <3>2, <3>3, TiledLike
  <2>2. QED
    BY <2>1 DEF WritersTiled, SlotOf
<1>6. OrderIn(index)'
  BY <1>1 DEF KeptIn, OrderIn
<1>7. OwnedIn(index)' /\ TiledIn(index)'
  BY <1>1, <1>3 DEF KeptIn, OwnedIn, TiledIn
<1>8. HeldIn(index)'
  BY <1>1, <1>2 DEF KeptIn, HeldIn
<1>9. AgesIn(index)'
  <2>1. ASSUME NEW x \in Disk, NEW i \in Slot, Live(index'[x].slot[i])
        PROVE  SlotAge(index'[x], i) + Cardinality(Waiting(x)')
                 < ChunkAge(wptr'[x], index'[x].slot[i].chunk) + Cardinality(Chn)
    <3>1. Waiting(x)' \subseteq Waiting(x)
      BY <1>2 DEF Waiting
    <3>2. /\ Cardinality(Waiting(x)) \in Nat /\ Cardinality(Chn) \in Nat
          /\ Cardinality(Waiting(x)') \in Nat /\ Cardinality(Waiting(x)') <= Cardinality(Waiting(x))
      BY <3>1, WaitingCount, FS_Subset, FS_CardinalityType
    <3>3. SlotAge(index'[x], i) + Cardinality(Waiting(x))
            < ChunkAge(wptr[x], index'[x].slot[i].chunk) + Cardinality(Chn)
      BY <1>1, <2>1 DEF KeptIn, AgesIn
    <3>4. SlotAge(index'[x], i) \in Int
      <4>1. index'[x] \in Ring
        BY <1>1 DEF IndexType, Ring
      <4>2. SlotAge(index'[x], i) \in 0 .. NSlots - 1
        BY <4>1, Ages
      <4>3. QED
        BY <4>2
    <3>5. ChunkAge(wptr[x], index'[x].slot[i].chunk) \in Int
      <4>1. wptr[x] \in Int /\ NChunks \in Int
        BY FormatAssumption DEF KInv, IInv, TypeOK
      <4>2. index'[x].slot[i] \in IndexSlot
        BY <1>1 DEF IndexType
      <4>3. index'[x].slot[i].chunk \in Int
        BY <4>2 DEF IndexSlot, Chunk
      <4>4. QED
        BY <4>1, <4>3 DEF ChunkAge
    <3>6. wptr'[x] = wptr[x]
      BY <1>3
    <3>7. QED
      BY <3>2, <3>3, <3>4, <3>5, <3>6
  <2>2. QED
    BY <2>1 DEF AgesIn
<1>10. QED
  BY <1>4, <1>5, <1>6, <1>7, <1>8, <1>9 DEF KeptIn

LEMMA NextKept ==
  ASSUME KInv, SlotsNear, RingAssumption, SingleOrOverwrite, Next, NoSharedChunk'
  PROVE  KInv'
<1>1. IInv /\ IInv'
  BY NextKeeps DEF KInv
<1>2. PICK c \in Chn : Starting(c) \/ (\E n \in FrameUnits : Frame(c, n)) \/ Ending(c)
  BY <1>1, NextShapes
<1>3. CASE Starting(c)
  <2>1. PICK d \in Disk, jxs \in IndexType, w \in Writer, e \in IndexSlot :
          /\ Base(c, jxs) /\ Starts(c, d, w)
          /\ StartsEmpty(d, jxs, w) \/ StartsWith(d, jxs, w, e)
    BY <1>3, StartShape
  <2>2. Good(jxs) /\ KeptIn(jxs)
    BY <2>1, BaseKept
  <2>3. OwnersOK' /\ WritersOwn'
    BY <2>1, StartOwners
  <2>4. WritersTiled' /\ KeptIn(index)'
    BY <1>1, <2>1, <2>2, StartKept
  <2>5. QED
    BY <1>1, <2>3, <2>4 DEF KInv
<1>4. CASE \E n \in FrameUnits : Frame(c, n)
  BY <1>1, <1>4, AppendKept DEF KInv, Frame
<1>5. CASE Ending(c)
  BY <1>1, <1>5, EndingKept DEF KInv
<1>6. QED
  BY <1>2, <1>3, <1>4, <1>5

LEMMA StutterKept == KInv /\ UNCHANGED vars => KInv'
<1> SUFFICES ASSUME KInv, UNCHANGED vars PROVE KInv'
  OBVIOUS
<1>1. IInv'
  BY StutterKeeps DEF KInv
<1>2. /\ wptr' = wptr /\ segSeq' = segSeq /\ index' = index /\ data' = data
      /\ writer' = writer /\ owner' = owner
  BY DEF vars
<1>3. OwnersOK' /\ WritersOwn' /\ WritersTiled'
  BY <1>2 DEF KInv, OwnersOK, WritersOwn, WritersTiled, IsOpen
<1>4. OrderIn(index)' /\ OwnedIn(index)' /\ TiledIn(index)'
  BY <1>2 DEF KInv, KeptIn, OrderIn, OwnedIn, TiledIn
<1>5. HeldIn(index)'
  BY <1>2 DEF KInv, KeptIn, HeldIn, IsOpen
<1>6. AgesIn(index)'
  <2>1. \A x \in Disk : Waiting(x)' = Waiting(x)
    BY <1>2 DEF Waiting, IsOpen
  <2>2. QED
    BY <1>2, <2>1 DEF KInv, KeptIn, AgesIn
<1>7. QED
  BY <1>1, <1>3, <1>4, <1>5, <1>6 DEF KInv, KeptIn

-----------------------------------------------------------------------------
(* The invariant. *)

LEMMA InitKept == Init => KInv /\ SlotsNear
<1> SUFFICES ASSUME Init PROVE KInv /\ SlotsNear
  OBVIOUS
<1>1. IInv
  BY InitGood
<1>2. NeverWritten(Unwritten) /\ ~Live(Unwritten)
  BY DEF NeverWritten, Live, Unwritten
<1>3. \A x \in Disk, i \in Slot : index[x].slot[i] = Unwritten
  BY DEF Init
<1>4. \A c \in Chn : ~IsOpen(c)
  BY DEF Init, IsOpen, Closed
<1>5. \A x \in Disk, k \in Chunk : owner[x][k] = NoSeg
  BY DEF Init
<1>6. OrderIn(index)
  BY <1>2, <1>3 DEF OrderIn, Front, Lone
<1>7. AgesIn(index) /\ \A x \in Disk : LiveIn(index[x]) = {}
  BY <1>2, <1>3, Zenon DEF AgesIn, LiveIn
<1>8. OwnedIn(index) /\ TiledIn(index) /\ HeldIn(index)
  BY <1>4, <1>7, Zenon DEF OwnedIn, TiledIn, HeldIn
<1>9. OwnersOK /\ WritersOwn /\ WritersTiled /\ SlotsNear
  BY <1>4, <1>5, Zenon DEF OwnersOK, WritersOwn, WritersTiled, SlotsNear
<1>10. QED
  BY <1>1, <1>6, <1>7, <1>8, <1>9, Zenon DEF KInv, KeptIn

(***************************************************************************)
(* On a disk of no more chunks than the upsert looks back over, the ages   *)
(* bring the slot of every open writer within its reach.                   *)
(***************************************************************************)
LEMMA AgesNear ==
  ASSUME RingAssumption, LookBack
  PROVE  KInv => SlotsNear
<1> SUFFICES ASSUME KInv, NEW c \in Chn, IsOpen(c), NEW i \in Slot,
                    Names(index[writer[c].d].slot[i], writer[c].seg)
             PROVE  SlotAge(index[writer[c].d], i) < Scan
  BY Zenon DEF SlotsNear
<1> DEFINE d == writer[c].d
           e == index[d].slot[i]
<1>1. TypeOK /\ d \in Disk
  BY WriterSlots DEF KInv, IInv
<1>2. index[d] \in Ring /\ e \in IndexSlot /\ wptr[d] \in 0 .. NChunks
  BY <1>1, Zenon DEF TypeOK, Ring
<1>3. e.chunk \in Chunk
  BY <1>2, Zenon DEF IndexSlot
<1>4. SlotAge(index[d], i) + Cardinality(Waiting(d)) < ChunkAge(wptr[d], e.chunk) + Cardinality(Chn)
  BY <1>1, Zenon DEF KInv, KeptIn, AgesIn, Names
<1>5. Cardinality(Waiting(d)) \in Nat /\ Cardinality(Chn) \in Nat
  BY <1>1, WaitingCount
<1>6. ChunkAge(wptr[d], e.chunk) \in 0 .. NChunks - 1
  <2> DEFINE p == wptr[d]
             k == e.chunk
  <2>1. p \in 0 .. NChunks /\ k \in 0 .. NChunks - 1 /\ NChunks \in Nat
    BY <1>2, <1>3, FormatAssumption DEF Chunk
  <2> HIDE DEF p, k
  <2>2. ChunkAge(p, k) \in 0 .. NChunks - 1
    BY <2>1 DEF ChunkAge
  <2>3. QED
    BY <2>2 DEF p, k
<1>7. SlotAge(index[d], i) \in 0 .. NSlots - 1
  BY <1>2, Ages
<1>8. NChunks \in Nat /\ NSlots \in Nat /\ Scan \in Nat
  BY FormatAssumption DEF Scan
<1> HIDE DEF d, e
<1>9. SlotAge(index[d], i) < Scan
  BY <1>4, <1>5, <1>6, <1>7, <1>8 DEF LookBack
<1>10. QED
  BY <1>9 DEF d

-----------------------------------------------------------------------------
(* The theorems. *)

(***************************************************************************)
(* The index ring never overruns a live slot, every open writer has its    *)
(* slot and its chunk to itself, and the frame records tile the segments:  *)
(* for paced writers, on disks that the upsert looks back over.            *)
(***************************************************************************)
THEOREM KeptInvariant ==
  ASSUME SingleOrOverwrite, RingAssumption, LookBack
  PROVE  PacedSpec => []KInv
<1>1. Init => KInv
  BY InitKept
<1>2. KInv /\ [PacedNext]_vars => KInv'
  BY AgesNear, NextKept, StutterKept DEF PacedNext
<1>3. QED
  BY <1>1, <1>2, PTL DEF PacedSpec

(***************************************************************************)
(* The same for disks of any size, if the environment keeps the slot of    *)
(* every open writer within the reach of the upsert.                       *)
(***************************************************************************)
THEOREM NearInvariant ==
  ASSUME SingleOrOverwrite, RingAssumption
  PROVE  NearSpec => [](KInv /\ SlotsNear)
<1>1. Init => KInv /\ SlotsNear
  BY InitKept
<1>2. KInv /\ SlotsNear /\ [PacedNext /\ SlotsNear']_vars => (KInv /\ SlotsNear)'
  <2>1. UNCHANGED vars /\ SlotsNear => SlotsNear'
    BY DEF vars, SlotsNear, IsOpen
  <2>2. QED
    BY <2>1, NextKept, StutterKept DEF PacedNext
<1>3. QED
  BY <1>1, <1>2, PTL DEF NearSpec

(***************************************************************************)
(* A disk that stops when full needs nothing of the writers' pace.         *)
(***************************************************************************)
THEOREM StopKept ==
  ASSUME HddFull = "stop", NDisk = 1, RingAssumption, LookBack
  PROVE  Spec => []KInv
<1>1. Init => KInv
  BY InitKept
<1>2. KInv /\ [Next]_vars => KInv'
  <2> SUFFICES ASSUME KInv, [Next]_vars PROVE KInv'
    OBVIOUS
  <2>1. IInv /\ SlotsNear /\ SingleOrOverwrite
    BY AgesNear DEF KInv, SingleOrOverwrite
  <2>2. Next => NoSharedChunk'
    BY <2>1, StopNeverShares
  <2>3. QED
    BY <2>1, <2>2, NextKept, StutterKept
<1>3. QED
  BY <1>1, <1>2, PTL DEF Spec

(***************************************************************************)
(* A search returns every segment once, and its replay returns the frames  *)
(* of the segment, each once, in order and none missing.                   *)
(***************************************************************************)
LEMMA KeptExact == KInv => SearchExact
<1> SUFFICES ASSUME KInv PROVE SearchExact
  OBVIOUS
<1>1. TypeOK
  BY DEF KInv, IInv
<1>2. ASSUME NEW d \in Disk, NEW e \in Query(d)
      PROVE  Replay(data[d][e.chunk], e) = Frames(e)
  <2>1. e \in LiveIn(index[d]) /\ e.st = "valid"
    BY DEF Query, ValidIn
  <2>2. e \in IndexSlot /\ e.chunk \in Chunk
    <3>1. PICK i \in Slot : e = index[d].slot[i]
      BY <2>1 DEF LiveIn
    <3>2. index[d].slot[i] \in IndexSlot
      BY <1>1, Zenon DEF TypeOK
    <3>3. QED
      BY <3>1, <3>2 DEF IndexSlot
  <2>3. Tiled(data[d][e.chunk], e)
    BY <2>1, Zenon DEF KInv, KeptIn, TiledIn
  <2>4. data[d][e.chunk] \in [Unit -> Cell]
    BY <1>1, <2>2, SMTT(30) DEF TypeOK
  <2>5. QED
    BY <2>2, <2>3, <2>4, TiledReplays
<1>3. OneSlotPerSegment
  BY Zenon DEF KInv, KeptIn, OrderIn, Lone, OneSlotPerSegment
<1>4. QED
  BY <1>2, <1>3 DEF SearchExact, ReplayExact

(***************************************************************************)
(* What a search returns is exact (rsdk_index.c, rsdk_play.c): each        *)
(* segment once, and its replay gives its frames, each once and in order,  *)
(* for cameras that deliver at the pace of the ring.                       *)
(***************************************************************************)
THEOREM PacedExact ==
  ASSUME SingleOrOverwrite, RingAssumption, LookBack
  PROVE  PacedSpec => []SearchExact
<1>1. PacedSpec => []KInv
  BY KeptInvariant
<1>2. QED
  BY <1>1, KeptExact, PTL

(***************************************************************************)
(* The same on disks of any size, if the slot of every open segment stays  *)
(* within the scan of the upsert (rsdk_index.c:26).                        *)
(***************************************************************************)
THEOREM NearExact ==
  ASSUME SingleOrOverwrite, RingAssumption
  PROVE  NearSpec => []SearchExact
<1>1. NearSpec => [](KInv /\ SlotsNear)
  BY NearInvariant
<1>2. QED
  BY <1>1, KeptExact, PTL

(***************************************************************************)
(* The same on one disk that stops when full, whatever the pace.           *)
(***************************************************************************)
THEOREM StopExact ==
  ASSUME HddFull = "stop", NDisk = 1, RingAssumption, LookBack
  PROVE  Spec => []SearchExact
<1>1. Spec => []KInv
  BY StopKept
<1>2. QED
  BY <1>1, KeptExact, PTL

-----------------------------------------------------------------------------
(* The archive: the log of a disk. *)

(***************************************************************************)
(* The owners of the chunks from the oldest on: in the first lap, where    *)
(* the write pointer is at p, and in a later one.                          *)
(***************************************************************************)
FirstLog(own, p) == [i \in 1 .. p |-> own[i - 1]]
LapLog(own, p) == [i \in 1 .. NChunks |-> own[(p + i - 1) % NChunks]]

LEMMA RingTurns ==
  ASSUME NEW p \in Chunk
  PROVE  \A i \in 1 .. NChunks :
           /\ (p + i - 1) % NChunks = IF p + i - 1 < NChunks THEN p + i - 1 ELSE p + i - 1 - NChunks
           /\ (p + i - 1) % NChunks \in Chunk
<1>1. NChunks \in Nat \ {0} /\ p \in 0 .. NChunks - 1
  BY FormatAssumption DEF Chunk
<1>2. ASSUME NEW i \in 1 .. NChunks
      PROVE  /\ (p + i - 1) % NChunks = IF p + i - 1 < NChunks THEN p + i - 1 ELSE p + i - 1 - NChunks
             /\ (p + i - 1) % NChunks \in Chunk
  <2>1. (p + i - 1) % NChunks = IF p + i - 1 < NChunks THEN p + i - 1 ELSE p + i - 1 - NChunks
    BY <1>1
  <2> DEFINE r == (p + i - 1) % NChunks
  <2> HIDE DEF r
  <2>2. r \in 0 .. NChunks - 1
    <3>1. r = IF p + i - 1 < NChunks THEN p + i - 1 ELSE p + i - 1 - NChunks
      BY <2>1 DEF r
    <3>2. QED
      BY <1>1, <3>1
  <2>3. QED
    BY <2>1, <2>2 DEF r, Chunk
<1>3. QED
  BY <1>2

LEMMA FirstLogSeq ==
  ASSUME NEW T, NEW own \in [Chunk -> T], NEW p \in 0 .. NChunks
  PROVE  /\ FirstLog(own, p) \in Seq(T) /\ Len(FirstLog(own, p)) = p
         /\ \A i \in 1 .. p : FirstLog(own, p)[i] = own[i - 1]
<1> DEFINE L == FirstLog(own, p)
<1>1. NChunks \in Nat \ {0}
  BY FormatAssumption
<1>2. \A i \in 1 .. p : i - 1 \in Chunk
  BY <1>1 DEF Chunk
<1>3. L \in [1 .. p -> T]
  BY <1>2, Zenon DEF FirstLog
<1>4. \A i \in 1 .. p : L[i] = own[i - 1]
  BY Zenon DEF FirstLog
<1> HIDE DEF L
<1>5. L \in Seq(T) /\ Len(L) = p
  BY <1>1, <1>3
<1>6. QED
  BY <1>4, <1>5 DEF L

LEMMA LapLogSeq ==
  ASSUME NEW T, NEW own \in [Chunk -> T], NEW p \in Chunk
  PROVE  /\ LapLog(own, p) \in Seq(T) /\ Len(LapLog(own, p)) = NChunks
         /\ \A i \in 1 .. NChunks : LapLog(own, p)[i] = own[(p + i - 1) % NChunks]
<1> DEFINE L == LapLog(own, p)
<1>1. NChunks \in Nat \ {0}
  BY FormatAssumption
<1>2. \A i \in 1 .. NChunks : (p + i - 1) % NChunks \in Chunk
  BY RingTurns
<1>3. L \in [1 .. NChunks -> T]
  BY <1>2, Zenon DEF LapLog
<1>4. \A i \in 1 .. NChunks : L[i] = own[(p + i - 1) % NChunks]
  BY Zenon DEF LapLog
<1> HIDE DEF L
<1>5. L \in Seq(T) /\ Len(L) = NChunks
  BY <1>1, <1>3
<1>6. QED
  BY <1>4, <1>5 DEF L

\* At the end of the first lap the two agree.
LEMMA LapStarts ==
  ASSUME NEW T, NEW own \in [Chunk -> T]
  PROVE  LapLog(own, 0) = FirstLog(own, NChunks)
<1>1. NChunks \in Nat \ {0} /\ 0 \in Chunk /\ NChunks \in 0 .. NChunks
  BY FormatAssumption DEF Chunk
<1>2. /\ LapLog(own, 0) \in Seq(T) /\ Len(LapLog(own, 0)) = NChunks
      /\ \A i \in 1 .. NChunks : LapLog(own, 0)[i] = own[(0 + i - 1) % NChunks]
  BY <1>1, LapLogSeq
<1>3. /\ FirstLog(own, NChunks) \in Seq(T) /\ Len(FirstLog(own, NChunks)) = NChunks
      /\ \A i \in 1 .. NChunks : FirstLog(own, NChunks)[i] = own[i - 1]
  BY <1>1, FirstLogSeq
<1>4. ASSUME NEW i \in 1 .. NChunks PROVE (0 + i - 1) % NChunks = i - 1
  <2> DEFINE a == (0 + i - 1) % NChunks
  <2>1. a = IF 0 + i - 1 < NChunks THEN 0 + i - 1 ELSE 0 + i - 1 - NChunks
    BY <1>1, RingTurns
  <2> HIDE DEF a
  <2>2. a = i - 1
    BY <1>1, <2>1
  <2>3. QED
    BY <2>2 DEF a
<1>5. \A i \in 1 .. NChunks : LapLog(own, 0)[i] = FirstLog(own, NChunks)[i]
  BY <1>2, <1>3, <1>4
<1>6. QED
  BY <1>2, <1>3, <1>5, SeqEqual

(***************************************************************************)
(* Handing out the chunk at the write pointer appends its new owner and,   *)
(* once the disk wrapped, drops the oldest.                                *)
(***************************************************************************)
HandsOut(T, own, p, s, newOwn) ==
  /\ own \in [Chunk -> T] /\ newOwn \in [Chunk -> T] /\ p \in Chunk /\ s \in T
  /\ \A k \in Chunk : newOwn[k] = IF k = p THEN s ELSE own[k]

LEMMA FirstTurns ==
  ASSUME NEW T, NEW own, NEW p, NEW s, NEW newOwn, HandsOut(T, own, p, s, newOwn)
  PROVE  FirstLog(newOwn, p + 1) = Append(FirstLog(own, p), s)
<1> DEFINE L == FirstLog(own, p)
           M == FirstLog(newOwn, p + 1)
<1> own \in [Chunk -> T] /\ newOwn \in [Chunk -> T] /\ p \in Chunk /\ s \in T
    /\ \A k \in Chunk : newOwn[k] = IF k = p THEN s ELSE own[k]
  BY DEF HandsOut
<1>1. NChunks \in Nat \ {0} /\ p \in 0 .. NChunks - 1
      /\ p \in 0 .. NChunks /\ p + 1 \in 0 .. NChunks
  BY FormatAssumption DEF Chunk
<1>2. L \in Seq(T) /\ Len(L) = p /\ \A i \in 1 .. p : L[i] = own[i - 1]
  BY <1>1, FirstLogSeq
<1>3. M \in Seq(T) /\ Len(M) = p + 1 /\ \A i \in 1 .. p + 1 : M[i] = newOwn[i - 1]
  BY <1>1, FirstLogSeq
<1> HIDE DEF L, M
<1>4. /\ Append(L, s) \in Seq(T) /\ Len(Append(L, s)) = p + 1
      /\ \A i \in 1 .. p : Append(L, s)[i] = L[i]
      /\ Append(L, s)[p + 1] = s
  BY <1>1, <1>2, AppendProperties
<1>5. ASSUME NEW i \in 1 .. p + 1 PROVE M[i] = Append(L, s)[i]
  <2>1. CASE i = p + 1
    <3>1. i - 1 = p /\ M[i] = newOwn[i - 1]
      BY <1>1, <1>3, <2>1
    <3>2. QED
      BY <1>4, <2>1, <3>1
  <2>2. CASE i # p + 1
    <3>1. i \in 1 .. p /\ i - 1 \in Chunk /\ i - 1 # p
      BY <1>1, <2>2 DEF Chunk
    <3>2. M[i] = own[i - 1] /\ L[i] = own[i - 1]
      BY <1>2, <1>3, <3>1
    <3>3. QED
      BY <1>4, <3>1, <3>2
  <2>3. QED
    BY <2>1, <2>2
<1>6. M = Append(L, s)
  BY <1>3, <1>4, <1>5, SeqEqual
<1>7. QED
  BY <1>6 DEF L, M

LEMMA LapTurns ==
  ASSUME NEW T, NEW own, NEW p, NEW s, NEW newOwn, HandsOut(T, own, p, s, newOwn)
  PROVE  \A q \in Chunk : (p + 1 >= NChunks => q = 0) /\ (p + 1 < NChunks => q = p + 1)
           => LapLog(newOwn, q) = Append(Tail(LapLog(own, p)), s)
<1> TAKE q \in Chunk
<1> SUFFICES ASSUME p + 1 >= NChunks => q = 0, p + 1 < NChunks => q = p + 1
             PROVE  LapLog(newOwn, q) = Append(Tail(LapLog(own, p)), s)
  OBVIOUS
<1> DEFINE L == LapLog(own, p)
           M == LapLog(newOwn, q)
           K == Tail(L)
<1> own \in [Chunk -> T] /\ newOwn \in [Chunk -> T] /\ p \in Chunk /\ s \in T
    /\ \A k \in Chunk : newOwn[k] = IF k = p THEN s ELSE own[k]
  BY DEF HandsOut
<1>1. NChunks \in Nat \ {0} /\ p \in 0 .. NChunks - 1 /\ q \in Chunk /\ q \in 0 .. NChunks - 1
  BY FormatAssumption DEF Chunk
<1>2. L \in Seq(T) /\ Len(L) = NChunks /\ \A i \in 1 .. NChunks : L[i] = own[(p + i - 1) % NChunks]
  BY LapLogSeq
<1>3. M \in Seq(T) /\ Len(M) = NChunks /\ \A i \in 1 .. NChunks : M[i] = newOwn[(q + i - 1) % NChunks]
  BY <1>1, LapLogSeq
<1> HIDE DEF L, M
<1>4. K \in Seq(T) /\ Len(K) = NChunks - 1 /\ \A i \in 1 .. NChunks - 1 : K[i] = L[i + 1]
  <2>1. L # <<>>
    BY <1>1, <1>2
  <2>2. K \in Seq(T) /\ Len(K) = Len(L) - 1 /\ \A i \in 1 .. Len(K) : K[i] = L[i + 1]
    BY <1>2, <2>1, HeadTailProperties
  <2>3. QED
    BY <1>2, <2>2
<1> HIDE DEF K
<1>5. /\ Append(K, s) \in Seq(T) /\ Len(Append(K, s)) = NChunks
      /\ \A i \in 1 .. NChunks - 1 : Append(K, s)[i] = L[i + 1]
      /\ Append(K, s)[NChunks] = s
  BY <1>1, <1>4, AppendProperties
<1>6. \A i \in 1 .. NChunks :
        (q + i - 1) % NChunks = IF q + i - 1 < NChunks THEN q + i - 1 ELSE q + i - 1 - NChunks
  BY <1>1, RingTurns
<1>7. \A i \in 1 .. NChunks :
        /\ (p + i - 1) % NChunks = IF p + i - 1 < NChunks THEN p + i - 1 ELSE p + i - 1 - NChunks
        /\ (p + i - 1) % NChunks \in Chunk
  BY RingTurns
<1>8. ASSUME NEW i \in 1 .. NChunks - 1 PROVE M[i] = L[i + 1]
  <2>1. i \in 1 .. NChunks /\ i + 1 \in 1 .. NChunks
    BY <1>1
  <2> DEFINE a == (q + i - 1) % NChunks
             b == (p + (i + 1) - 1) % NChunks
  <2>2. M[i] = newOwn[a] /\ L[i + 1] = own[b]
    BY <1>2, <1>3, <2>1
  <2>3. a = IF q + i - 1 < NChunks THEN q + i - 1 ELSE q + i - 1 - NChunks
    BY <1>6, <2>1
  <2>4. b \in Chunk /\ b = IF p + (i + 1) - 1 < NChunks THEN p + (i + 1) - 1 ELSE p + (i + 1) - 1 - NChunks
    BY <1>7, <2>1
  <2> HIDE DEF a, b
  <2>5. a = b /\ b # p
    BY <1>1, <2>3, <2>4
  <2>6. QED
    BY <2>2, <2>4, <2>5
<1>9. M[NChunks] = s
  <2> DEFINE a == (q + NChunks - 1) % NChunks
  <2>1. NChunks \in 1 .. NChunks
    BY <1>1
  <2>2. M[NChunks] = newOwn[a]
    BY <1>3, <2>1
  <2>3. a = IF q + NChunks - 1 < NChunks THEN q + NChunks - 1 ELSE q + NChunks - 1 - NChunks
    BY <1>6, <2>1
  <2> HIDE DEF a
  <2>4. a = p
    BY <1>1, <2>3
  <2>5. QED
    BY <2>2, <2>4
<1>10. ASSUME NEW i \in 1 .. NChunks PROVE M[i] = Append(K, s)[i]
  <2>1. CASE i = NChunks
    BY <1>5, <1>9, <2>1
  <2>2. CASE i # NChunks
    <3>1. i \in 1 .. NChunks - 1
      BY <1>1, <2>2
    <3>2. QED
      BY <1>5, <1>8, <3>1
  <2>3. QED
    BY <2>1, <2>2
<1>11. M = Append(K, s)
  BY <1>3, <1>5, <1>10, SeqEqual
<1>12. QED
  BY <1>11 DEF K, L, M

-----------------------------------------------------------------------------
(* The archive: the log and the catalog of a disk, and how calls change them. *)

InUse(d) == {k \in Chunk : wrapped[d] \/ k < wptr[d]}
Cat(ixs, d) == {e.seg : e \in ValidIn(ixs[d])}

LEMMA LogIs ==
  ASSUME TypeOK, PointerOK, NEW d \in Disk
  PROVE  /\ wrapped[d] => /\ LogBar[d] = LapLog(owner[d], wptr[d]) /\ wptr[d] \in Chunk
                          /\ HddFull = "overwrite" /\ Len(LogBar[d]) = NChunks
         /\ ~wrapped[d] => LogBar[d] = FirstLog(owner[d], wptr[d]) /\ Len(LogBar[d]) = wptr[d]
         /\ A!Kept(d) = {owner[d][k] : k \in InUse(d)}
<1> DEFINE p == wptr[d]
           own == owner[d]
<1>1. NChunks \in Nat \ {0} /\ p \in 0 .. NChunks /\ own \in [Chunk -> Seg \cup {NoSeg}]
  BY FormatAssumption DEF TypeOK
<1>2. CASE wrapped[d]
  <2>1. HddFull = "overwrite" /\ p \in Chunk
    <3>1. HddFull = "overwrite"
      BY <1>2, PolicyAssumption DEF PointerOK
    <3>2. p < NChunks
      BY <3>1 DEF PointerOK
    <3> HIDE DEF p
    <3>3. QED
      BY <1>1, <3>1, <3>2 DEF Chunk
  <2>2. LogBar[d] = LapLog(own, p)
    BY <1>2 DEF LogBar, LapLog
  <2> HIDE DEF p, own
  <2>3. Len(LapLog(own, p)) = NChunks
        /\ \A i \in 1 .. NChunks : LapLog(own, p)[i] = own[(p + i - 1) % NChunks]
    BY <1>1, <2>1, LapLogSeq
  <2>4. \A i \in 1 .. NChunks :
          /\ (p + i - 1) % NChunks = IF p + i - 1 < NChunks THEN p + i - 1 ELSE p + i - 1 - NChunks
          /\ (p + i - 1) % NChunks \in Chunk
    BY <2>1, RingTurns
  <2>5. \A k \in Chunk : \E i \in 1 .. NChunks : (p + i - 1) % NChunks = k
    <3>1. ASSUME NEW k \in Chunk PROVE \E i \in 1 .. NChunks : (p + i - 1) % NChunks = k
      <4> DEFINE i == IF k >= p THEN k - p + 1 ELSE k - p + 1 + NChunks
                 a == (p + i - 1) % NChunks
      <4>1. i \in 1 .. NChunks
        BY <1>1, <2>1 DEF Chunk
      <4>2. a = IF p + i - 1 < NChunks THEN p + i - 1 ELSE p + i - 1 - NChunks
        <5> HIDE DEF i
        <5>1. QED
          BY <2>4, <4>1
      <4> HIDE DEF a
      <4>3. a = k
        BY <1>1, <2>1, <4>2 DEF Chunk
      <4>4. QED
        BY <4>1, <4>3 DEF a
    <3>2. QED
      BY <3>1
  <2>6. A!Kept(d) = {own[k] : k \in Chunk}
    <3>1. A!Kept(d) = {LapLog(own, p)[i] : i \in 1 .. NChunks}
      BY <2>2, <2>3 DEF A!Kept
    <3>2. ASSUME NEW k \in Chunk PROVE own[k] \in A!Kept(d)
      <4>1. PICK i \in 1 .. NChunks : (p + i - 1) % NChunks = k
        BY <2>5
      <4>2. LapLog(own, p)[i] = own[k]
        BY <2>3, <4>1
      <4>3. QED
        BY <3>1, <4>2
    <3>3. ASSUME NEW s \in A!Kept(d) PROVE s \in {own[k] : k \in Chunk}
      <4>1. PICK i \in 1 .. NChunks : s = LapLog(own, p)[i]
        BY <3>1
      <4>2. QED
        BY <2>3, <2>4, <4>1
    <3>4. QED
      BY <3>2, <3>3
  <2>7. InUse(d) = Chunk
    BY <1>2 DEF InUse
  <2>8. QED
    BY <1>2, <2>1, <2>2, <2>3, <2>6, <2>7 DEF p, own
<1>3. CASE ~wrapped[d]
  <2>1. LogBar[d] = FirstLog(own, p)
    BY <1>3 DEF LogBar, FirstLog
  <2>2. InUse(d) = {k \in Chunk : k < p}
    BY <1>3 DEF InUse
  <2> HIDE DEF p, own
  <2>3. Len(FirstLog(own, p)) = p /\ \A i \in 1 .. p : FirstLog(own, p)[i] = own[i - 1]
    BY <1>1, FirstLogSeq
  <2>4. A!Kept(d) = {FirstLog(own, p)[i] : i \in 1 .. p}
    BY <2>1, <2>3 DEF A!Kept
  <2>5. ASSUME NEW k \in InUse(d) PROVE own[k] \in A!Kept(d)
    <3>1. k + 1 \in 1 .. p /\ (k + 1) - 1 = k
      BY <1>1, <2>2 DEF Chunk
    <3>2. FirstLog(own, p)[k + 1] = own[(k + 1) - 1]
      BY <2>3, <3>1
    <3>3. QED
      BY <2>4, <3>1, <3>2
  <2>6. ASSUME NEW s \in A!Kept(d) PROVE s \in {own[k] : k \in InUse(d)}
    <3>1. PICK i \in 1 .. p : s = FirstLog(own, p)[i]
      BY <2>4
    <3>2. i - 1 \in InUse(d)
      BY <1>1, <2>2 DEF Chunk
    <3>3. s = own[i - 1]
      BY <2>3, <3>1
    <3>4. QED
      BY <3>2, <3>3
  <2>7. QED
    BY <1>3, <2>1, <2>3, <2>5, <2>6 DEF p, own
<1>4. QED
  BY <1>2, <1>3

LEMMA StartLogs ==
  ASSUME KInv, KInv', NEW c \in Chn, NEW d \in Disk, NEW w, Starts(c, d, w)
  PROVE  /\ LogBar' = [x \in Disk |->
              IF x = d
              THEN Append(IF Len(LogBar[x]) < NChunks THEN LogBar[x] ELSE Tail(LogBar[x]), NextSeg(c, d))
              ELSE LogBar[x]]
         /\ NextSeg(c, d) \notin A!Kept(d)
         /\ HddFull = "overwrite" \/ Len(LogBar[d]) < NChunks
         /\ \A x \in Disk : x # d => InUse(x)' = InUse(x) /\ owner'[x] = owner[x]
         /\ InUse(d)' = InUse(d) \cup {wptr[d]}
<1> DEFINE p == wptr[d]
           own == owner[d]
           s == NextSeg(c, d)
<1>1. TypeOK /\ PointerOK /\ TypeOK' /\ PointerOK' /\ AllocChunk(d) /\ NoSharedChunk'
  BY DEF KInv, IInv, Starts, TakeChunk
<1>2. /\ p \in Chunk
      /\ \A x \in Disk : x # d => wptr'[x] = wptr[x] /\ owner'[x] = owner[x]
      /\ \A k \in Chunk : owner'[d][k] = IF k = p THEN s ELSE own[k]
  BY <1>1, StartFacts
<1>3. \A x \in Disk : x # d => wrapped'[x] = wrapped[x]
  BY <1>1, AllocRange
<1>4. s \in Seg /\ \A k \in Chunk : own[k] # s
  BY NewSegment DEF Starts, TakeChunk
<1>5. own \in [Chunk -> Seg \cup {NoSeg}] /\ owner'[d] \in [Chunk -> Seg \cup {NoSeg}]
      /\ s \in Seg \cup {NoSeg}
  BY <1>1, <1>4 DEF TypeOK
<1>6. ~NoSpace(d) /\ wptr'[d] = IF WrapsNow(d) THEN 0 ELSE p + 1
  BY <1>1 DEF AllocChunk, TypeOK
<1>7. wrapped'[d] <=> wrapped[d] \/ WrapsNow(d)
  <2>1. wrapped' = [wrapped EXCEPT ![d] = @ \/ WrapsNow(d)] /\ wrapped \in [Disk -> BOOLEAN]
    BY <1>1 DEF AllocChunk, TypeOK
  <2>2. QED
    BY <2>1, Zenon
<1>8. WrapsNow(d) <=> HddFull = "overwrite" /\ p + 1 >= NChunks
  BY DEF WrapsNow
<1>9. NChunks \in Nat \ {0} /\ p \in 0 .. NChunks - 1
  BY <1>2, FormatAssumption DEF Chunk
<1>10. /\ wrapped[d] => /\ LogBar[d] = LapLog(own, p)
                        /\ HddFull = "overwrite" /\ Len(LogBar[d]) = NChunks
       /\ ~wrapped[d] => LogBar[d] = FirstLog(own, p) /\ Len(LogBar[d]) = p
       /\ A!Kept(d) = {own[k] : k \in InUse(d)}
  BY <1>1, LogIs
<1>11. LogBar'[d] = IF wrapped'[d] THEN LapLog(owner'[d], wptr'[d]) ELSE FirstLog(owner'[d], wptr'[d])
  BY Zenon DEF LogBar, LapLog, FirstLog
<1>12. s \notin A!Kept(d)
  BY <1>4, <1>10 DEF InUse
<1> DEFINE own2 == owner'[d]
           q == wptr'[d]
           T == Seg \cup {NoSeg}
<1>20. HandsOut(T, own, p, s, own2)
  BY <1>2, <1>5 DEF HandsOut
<1> HIDE DEF p, own, s, own2, T
<1>21. FirstLog(own2, p + 1) = Append(FirstLog(own, p), s)
  BY <1>20, FirstTurns
<1>22. \A x \in Chunk : (p + 1 >= NChunks => x = 0) /\ (p + 1 < NChunks => x = p + 1)
         => LapLog(own2, x) = Append(Tail(LapLog(own, p)), s)
  <2>1. HandsOut(T, own, p, s, own2) =>
         \A x \in Chunk : (p + 1 >= NChunks => x = 0) /\ (p + 1 < NChunks => x = p + 1)
           => LapLog(own2, x) = Append(Tail(LapLog(own, p)), s)
    BY LapTurns
  <2>2. QED
    BY <1>20, <2>1
<1>13. LogBar'[d] = Append(IF Len(LogBar[d]) < NChunks THEN LogBar[d] ELSE Tail(LogBar[d]), s)
  <2>1. CASE wrapped[d]
    <3>1. q \in Chunk /\ (p + 1 >= NChunks => q = 0) /\ (p + 1 < NChunks => q = p + 1)
      <4>1. q = IF p + 1 >= NChunks THEN 0 ELSE p + 1
        BY <1>6, <1>8, <1>10, <2>1
      <4> HIDE DEF q
      <4>2. QED
        BY <1>9, <4>1 DEF Chunk
    <3>2. LapLog(owner'[d], wptr'[d]) = Append(Tail(LapLog(own, p)), s)
      BY <1>22, <3>1 DEF own2
    <3>3. wrapped'[d] /\ ~(Len(LogBar[d]) < NChunks)
      BY <1>7, <1>9, <1>10, <2>1
    <3>4. LogBar'[d] = LapLog(owner'[d], wptr'[d]) /\ LogBar[d] = LapLog(own, p)
      BY <1>10, <1>11, <2>1, <3>3
    <3>5. QED
      BY <3>2, <3>3, <3>4
  <2>2. CASE ~wrapped[d] /\ WrapsNow(d)
    <3>1. p + 1 = NChunks /\ wptr'[d] = 0 /\ wrapped'[d]
      BY <1>6, <1>7, <1>8, <1>9, <2>2
    <3>2. LapLog(owner'[d], 0) = FirstLog(owner'[d], p + 1)
      BY <1>5, <3>1, LapStarts
    <3>3. FirstLog(owner'[d], p + 1) = Append(FirstLog(own, p), s)
      BY <1>21 DEF own2
    <3>4. LogBar[d] = FirstLog(own, p) /\ Len(LogBar[d]) < NChunks
      BY <1>9, <1>10, <2>2
    <3>5. LogBar'[d] = LapLog(owner'[d], 0)
      BY <1>11, <3>1
    <3>6. QED
      BY <3>2, <3>3, <3>4, <3>5
  <2>3. CASE ~wrapped[d] /\ ~WrapsNow(d)
    <3>1. wptr'[d] = p + 1 /\ ~wrapped'[d]
      BY <1>6, <1>7, <2>3
    <3>2. FirstLog(owner'[d], p + 1) = Append(FirstLog(own, p), s)
      BY <1>21 DEF own2
    <3>3. LogBar[d] = FirstLog(own, p) /\ Len(LogBar[d]) < NChunks
      BY <1>9, <1>10, <2>3
    <3>4. LogBar'[d] = FirstLog(owner'[d], p + 1)
      BY <1>11, <3>1
    <3>5. QED
      BY <3>2, <3>3, <3>4
  <2>4. QED
    BY <2>1, <2>2, <2>3
<1>14. ASSUME NEW x \in Disk, x # d PROVE LogBar'[x] = LogBar[x]
  <2>1. wptr'[x] = wptr[x] /\ owner'[x] = owner[x] /\ wrapped'[x] = wrapped[x]
    BY <1>2, <1>3, <1>14
  <2>2. QED
    BY <2>1 DEF LogBar
<1>15. LogBar' = [x \in Disk |->
          IF x = d THEN Append(IF Len(LogBar[x]) < NChunks THEN LogBar[x] ELSE Tail(LogBar[x]), s)
          ELSE LogBar[x]]
  <2>1. LogBar' = [x \in Disk |-> LogBar'[x]]
    BY Zenon DEF LogBar
  <2>2. \A x \in Disk : LogBar'[x] =
          IF x = d THEN Append(IF Len(LogBar[x]) < NChunks THEN LogBar[x] ELSE Tail(LogBar[x]), s)
          ELSE LogBar[x]
    BY <1>13, <1>14
  <2>3. QED
    BY <2>1, <2>2, Zenon
<1>16. HddFull = "overwrite" \/ Len(LogBar[d]) < NChunks
  BY <1>9, <1>10
<1>17. \A x \in Disk : x # d => InUse(x)' = InUse(x) /\ owner'[x] = owner[x]
  BY <1>2, <1>3 DEF InUse
<1>18. InUse(d)' = InUse(d) \cup {p}
  <2>1. InUse(d)' = {k \in Chunk : wrapped'[d] \/ k < wptr'[d]}
    BY DEF InUse
  <2>2. InUse(d) = {k \in Chunk : wrapped[d] \/ k < p}
    BY DEF InUse, p
  <2>3. \A k \in Chunk : (wrapped'[d] \/ k < wptr'[d]) <=> (wrapped[d] \/ k < p) \/ k = p
    <3>1. ASSUME NEW k \in Chunk PROVE (wrapped'[d] \/ k < wptr'[d]) <=> (wrapped[d] \/ k < p) \/ k = p
      <4>1. k \in 0 .. NChunks - 1
        BY <1>9 DEF Chunk
      <4>2. CASE WrapsNow(d)
        <5>1. k < p \/ k = p
          BY <1>8, <1>9, <4>1, <4>2
        <5>2. QED
          BY <1>7, <4>2, <5>1
      <4>3. CASE ~WrapsNow(d)
        <5>1. k < wptr'[d] <=> k < p \/ k = p
          BY <1>6, <1>9, <4>1, <4>3
        <5>2. QED
          BY <1>7, <4>3, <5>1
      <4>4. QED
        BY <4>2, <4>3
    <3>2. QED
      BY <3>1
  <2>4. QED
    BY <1>2, <2>1, <2>2, <2>3
<1>19. QED
  BY <1>12, <1>15, <1>16, <1>17, <1>18 DEF p, s

LEMMA BaseCatalog ==
  ASSUME KInv, SlotsNear, NEW c \in Chn, NEW jxs, Base(c, jxs)
  PROVE  /\ \/ \A x \in Disk : Cat(jxs, x) = Cat(index, x)
            \/ /\ IsOpen(c)
               /\ \A x \in Disk : Cat(jxs, x) = IF x = writer[c].d THEN Cat(index, x) \cup {writer[c].seg}
                                                ELSE Cat(index, x)
         /\ \A x \in Disk : \A e \in ValidIn(index[x]) :
              \E f \in ValidIn(jxs[x]) : f.seg = e.seg /\ f.chunk = e.chunk /\ f.count >= e.count
<1> DEFINE w == writer[c]
           v == SlotOf(w, "valid")
<1>1. index \in IndexType /\ TypeOK /\ KeptIn(index)
  BY DEF KInv, IInv, Good
<1>2. \A x \in Disk, i \in Slot : index[x].slot[i] \in IndexSlot /\ index[x].slot[i].count \in Nat
  BY <1>1 DEF IndexType, IndexSlot
<1>3. \A x \in Disk : \A e \in ValidIn(index[x]) : e.count \in Nat
  BY <1>2 DEF ValidIn, LiveIn
<1>4. CASE jxs = index
  BY <1>3, <1>4
<1>5. CASE jxs # index
  <2>1. IsOpen(c) /\ jxs = Finalized(index, w) /\ w.count # 0
    BY <1>5 DEF Base, Finalized
  <2>2. PICK i \in Slot : /\ Names(index[w.d].slot[i], w.seg)
                          /\ jxs = Replaced(index, w.d, i, v)
    BY <2>1, FinalizeHits
  <2>3. /\ w \in Writer /\ w.d \in Disk /\ w.chunk \in Chunk /\ w.seg \in Seg /\ w.off \in 0 .. ChunkUnits
        /\ \A f \in LiveIn(index[w.d]) : f.seg = w.seg => f.chunk = w.chunk
    BY <1>1, <2>1, WriterSlots DEF KeptIn
  <2>4. /\ v \in IndexSlot /\ v.seg = w.seg /\ v.chunk = w.chunk /\ Live(v) /\ v.st = "valid"
        /\ v.count = w.count
    BY <2>3, SlotOfTyped DEF SlotOf
  <2>5. index[w.d].slot[i] \in LiveIn(index[w.d]) /\ index[w.d].slot[i].seg = w.seg
    BY <2>2 DEF LiveIn, Names
  <2>6. index[w.d].slot[i].chunk = w.chunk /\ index[w.d].slot[i].count <= w.count
    <3>1. index[w.d].slot[i].count <= w.count
      BY <1>1, <2>1, <2>5, Zenon DEF KeptIn, HeldIn
    <3>2. QED
      BY <2>3, <2>5, <3>1
  <2> HIDE DEF v
  <2>7. /\ \A x \in Disk : x # w.d => jxs[x] = index[x]
        /\ \A j \in Slot : jxs[w.d].slot[j] = IF j = i THEN v ELSE index[w.d].slot[j]
    <3> DEFINE r == Replaced(index, w.d, i, v)
    <3>1. /\ r \in IndexType
          /\ \A x \in Disk : x # w.d => r[x] = index[x]
          /\ r[w.d] = [slot |-> [index[w.d].slot EXCEPT ![i] = v], next |-> index[w.d].next]
          /\ \A j \in Slot : /\ r[w.d].slot[j] = IF j = i THEN v ELSE index[w.d].slot[j]
                             /\ SlotAge(r[w.d], j) = SlotAge(index[w.d], j)
      BY <1>1, <2>3, <2>4, ReplacedSlots
    <3> HIDE DEF r
    <3>2. QED
      BY <2>2, <3>1, Zenon DEF r
  <2> HIDE DEF w
  <2>8. v \in ValidIn(jxs[w.d])
    <3>1. jxs[w.d].slot[i] = v
      BY <2>7
    <3>2. QED
      BY <2>4, <3>1 DEF ValidIn, LiveIn
  <2>9. ASSUME NEW f \in ValidIn(jxs[w.d]) PROVE f = v \/ f \in ValidIn(index[w.d])
    <3>1. PICK j \in Slot : f = jxs[w.d].slot[j]
      BY <2>9 DEF ValidIn, LiveIn
    <3>2. Live(f) /\ f.st = "valid"
      BY <2>9 DEF ValidIn, LiveIn
    <3>3. f = v \/ f = index[w.d].slot[j]
      BY <2>7, <3>1
    <3>4. QED
      BY <3>2, <3>3 DEF ValidIn, LiveIn
  <2>10. ASSUME NEW e \in ValidIn(index[w.d])
         PROVE  e \in ValidIn(jxs[w.d]) \/ e = index[w.d].slot[i]
    <3>1. PICK j \in Slot : e = index[w.d].slot[j]
      BY <2>10 DEF ValidIn, LiveIn
    <3>2. Live(e) /\ e.st = "valid"
      BY <2>10 DEF ValidIn, LiveIn
    <3>3. j = i \/ jxs[w.d].slot[j] = e
      BY <2>7, <3>1
    <3>4. QED
      BY <3>1, <3>2, <3>3 DEF ValidIn, LiveIn
  <2>11. Cat(jxs, w.d) = Cat(index, w.d) \cup {w.seg}
    <3>1. ASSUME NEW f \in ValidIn(jxs[w.d]) PROVE f.seg \in Cat(index, w.d) \cup {w.seg}
      BY <2>4, <2>9 DEF Cat
    <3>2. ASSUME NEW e \in ValidIn(index[w.d]) PROVE e.seg \in Cat(jxs, w.d)
      <4>1. CASE e \in ValidIn(jxs[w.d])
        BY <4>1 DEF Cat
      <4>2. CASE e = index[w.d].slot[i]
        <5>1. e.seg = v.seg
          BY <2>4, <2>5, <4>2
        <5>2. QED
          BY <2>8, <5>1 DEF Cat
      <4>3. QED
        BY <2>10, <4>1, <4>2
    <3>3. w.seg \in Cat(jxs, w.d)
      BY <2>4, <2>8 DEF Cat
    <3>4. \A q \in Cat(jxs, w.d) : q \in Cat(index, w.d) \cup {w.seg}
      BY <3>1 DEF Cat
    <3>5. \A q \in Cat(index, w.d) : q \in Cat(jxs, w.d)
      BY <3>2 DEF Cat
    <3>6. QED
      BY <3>3, <3>4, <3>5
  <2>12. \A x \in Disk : x # w.d => Cat(jxs, x) = Cat(index, x)
    BY <2>7 DEF Cat
  <2>13. ASSUME NEW x \in Disk, NEW e \in ValidIn(index[x])
         PROVE  \E f \in ValidIn(jxs[x]) : f.seg = e.seg /\ f.chunk = e.chunk /\ f.count >= e.count
    <3>1. e.count \in Nat
      BY <1>3
    <3>2. CASE e \in ValidIn(jxs[x])
      BY <3>1, <3>2
    <3>3. CASE e \notin ValidIn(jxs[x])
      <4>1. x = w.d
        BY <2>7, <3>3
      <4>2. e = index[w.d].slot[i]
        BY <2>10, <3>3, <4>1
      <4>3. v.seg = e.seg /\ v.chunk = e.chunk /\ v.count >= e.count
        BY <2>3, <2>4, <2>5, <2>6, <3>1, <4>2 DEF Writer
      <4>4. QED
        BY <2>8, <4>1, <4>3
    <3>4. QED
      BY <3>2, <3>3
  <2>14. QED
    BY <2>1, <2>11, <2>12, <2>13 DEF w
<1>6. QED
  BY <1>4, <1>5

(***************************************************************************)
(* The slot that is written next is not live, as long as a writer waits    *)
(* for it: every chunk has a slot, and so has every waiting writer.        *)
(***************************************************************************)
LEMMA NextFree ==
  ASSUME RingAssumption, NEW ixs \in IndexType, AgesIn(ixs), NEW d \in Disk,
         \/ \E c \in Chn : c \in Waiting(d) /\ wptr[d] \in 0 .. NChunks
         \/ /\ \A k \in Chunk : k = wptr[d] \/ ChunkAge(wptr[d], k) \in 0 .. NChunks - 2
            /\ \A f \in LiveIn(ixs[d]) : f.chunk # wptr[d]
  PROVE  ~Live(ixs[d].slot[ixs[d].next])
<1> DEFINE n == ixs[d].next
           k == ixs[d].slot[n].chunk
<1>1. SUFFICES ASSUME Live(ixs[d].slot[n]) PROVE FALSE
  OBVIOUS
<1>2. ixs[d] \in Ring /\ n \in Slot
  BY DEF IndexType, Ring
<1>3. SlotAge(ixs[d], n) = NSlots - 1
  BY <1>2, Ages
<1>4. ixs[d].slot[n] \in LiveIn(ixs[d]) /\ k \in Chunk
  BY <1>1, <1>2 DEF LiveIn, IndexType, IndexSlot
<1>5. SlotAge(ixs[d], n) + Cardinality(Waiting(d)) < ChunkAge(wptr[d], k) + Cardinality(Chn)
  BY <1>1, <1>2, Zenon DEF AgesIn
<1>6. Cardinality(Waiting(d)) \in Nat /\ Cardinality(Chn) \in Nat /\ IsFiniteSet(Waiting(d))
  BY WaitingCount
<1>7. NSlots >= NChunks + Cardinality(Chn) - 1 /\ NSlots \in Nat /\ NChunks \in Nat
  BY FormatAssumption DEF RingAssumption
<1> HIDE DEF n, k
<1>8. CASE \E c \in Chn : c \in Waiting(d) /\ wptr[d] \in 0 .. NChunks
  <2>1. Cardinality(Waiting(d)) # 0
    BY <1>6, <1>8, FS_EmptySet
  <2>2. ChunkAge(wptr[d], k) <= NChunks - 1 /\ ChunkAge(wptr[d], k) \in Int
    BY <1>4, <1>7, <1>8 DEF ChunkAge, Chunk
  <2>3. QED
    BY <1>3, <1>5, <1>6, <1>7, <2>1, <2>2
<1>9. CASE /\ \A j \in Chunk : j = wptr[d] \/ ChunkAge(wptr[d], j) \in 0 .. NChunks - 2
           /\ \A f \in LiveIn(ixs[d]) : f.chunk # wptr[d]
  <2>1. k # wptr[d]
    BY <1>4, <1>9 DEF k
  <2>2. ChunkAge(wptr[d], k) \in 0 .. NChunks - 2
    BY <1>4, <1>9, <2>1
  <2>3. QED
    BY <1>3, <1>5, <1>6, <1>7, <2>2
<1>10. QED
  BY <1>8, <1>9

\* A new open slot in the place of one that is not live does not show in a search.
LEMMA AppendedValid ==
  ASSUME NEW ixs \in IndexType, NEW d \in Disk, NEW e \in IndexSlot, e.st = "open",
         ~Live(ixs[d].slot[ixs[d].next]), NEW jxs, jxs = Appended(ixs, d, e)
  PROVE  \A x \in Disk : ValidIn(jxs[x]) = ValidIn(ixs[x])
<1> DEFINE n == ixs[d].next
<1>1. /\ jxs \in IndexType
      /\ \A x \in Disk : x # d => jxs[x] = ixs[x]
      /\ jxs[d] = [slot |-> [ixs[d].slot EXCEPT ![ixs[d].next] = e],
                   next |-> (ixs[d].next + 1) % NSlots]
      /\ \A j \in Slot : jxs[d].slot[j] = IF j = ixs[d].next THEN e ELSE ixs[d].slot[j]
      /\ ixs[d].next \in Slot /\ SlotAge(jxs[d], ixs[d].next) = 0
      /\ \A j \in Slot : j # ixs[d].next => SlotAge(jxs[d], j) = SlotAge(ixs[d], j) + 1
  BY AppendedSlots
<1>2. n \in Slot /\ \A j \in Slot : jxs[d].slot[j] = IF j = n THEN e ELSE ixs[d].slot[j]
  BY <1>1
<1>3. ~Live(ixs[d].slot[n])
  OBVIOUS
<1> HIDE DEF n
<1>4. ASSUME NEW f \in ValidIn(jxs[d]) PROVE f \in ValidIn(ixs[d])
  <2>1. PICK j \in Slot : f = jxs[d].slot[j]
    BY <1>4 DEF ValidIn, LiveIn
  <2>2. Live(f) /\ f.st = "valid"
    BY <1>4 DEF ValidIn, LiveIn
  <2>3. f = ixs[d].slot[j]
    BY <1>2, <2>1, <2>2
  <2>4. QED
    BY <2>2, <2>3 DEF ValidIn, LiveIn
<1>5. ASSUME NEW f \in ValidIn(ixs[d]) PROVE f \in ValidIn(jxs[d])
  <2>1. PICK j \in Slot : f = ixs[d].slot[j]
    BY <1>5 DEF ValidIn, LiveIn
  <2>2. Live(f) /\ f.st = "valid"
    BY <1>5 DEF ValidIn, LiveIn
  <2>3. f = jxs[d].slot[j]
    BY <1>2, <1>3, <2>1, <2>2
  <2>4. QED
    BY <2>2, <2>3 DEF ValidIn, LiveIn
<1>6. ValidIn(jxs[d]) = ValidIn(ixs[d])
  BY <1>4, <1>5
<1>7. ASSUME NEW x \in Disk PROVE ValidIn(jxs[x]) = ValidIn(ixs[x])
  <2>1. x # d => jxs[x] = ixs[x]
    BY <1>1
  <2>2. QED
    BY <1>6, <2>1, Zenon
<1>8. QED
  BY <1>7

LEMMA StartCatalog ==
  ASSUME KInv, RingAssumption, NEW c \in Chn, NEW d \in Disk,
         NEW jxs \in IndexType, Good(jxs), KeptIn(jxs),
         NEW w, Starts(c, d, w), NEW e,
         StartsEmpty(d, jxs, w) \/ StartsWith(d, jxs, w, e)
  PROVE  \A x \in Disk : ValidIn(index'[x]) = {f \in ValidIn(jxs[x]) : x = d => f.chunk # wptr[d]}
<1> DEFINE rxs == Reclaimed(jxs, d)
           n == rxs[d].next
<1>1. TypeOK /\ PointerOK /\ AllocChunk(d)
  BY DEF KInv, IInv, Starts, TakeChunk
<1>2. rxs \in IndexType
  BY ReclaimedSlots
<1>3. /\ AgesIn(rxs)
      /\ \A x \in Disk : LiveIn(rxs[x]) = {f \in LiveIn(jxs[x]) : x = d => f.chunk # wptr[d]}
  BY ReclaimedKept
<1> HIDE DEF rxs
<1>4. \A x \in Disk : ValidIn(rxs[x]) = {f \in ValidIn(jxs[x]) : x = d => f.chunk # wptr[d]}
  BY <1>3 DEF ValidIn
<1>5. CASE StartsEmpty(d, jxs, w)
  BY <1>4, <1>5 DEF StartsEmpty, rxs
<1>6. CASE StartsWith(d, jxs, w, e)
  <2>1. index' = Appended(rxs, d, e) /\ e \in IndexSlot /\ e.st = "open"
    BY <1>6 DEF StartsWith, rxs
  <2>2. ~Live(rxs[d].slot[n])
    <3>1. \A k \in Chunk : k = wptr[d] \/ ChunkAge(wptr[d], k) \in 0 .. NChunks - 2
      BY <1>1, ChunkAges
    <3>2. \A f \in LiveIn(rxs[d]) : f.chunk # wptr[d]
      BY <1>3
    <3>3. QED
      BY <1>2, <1>3, <3>1, <3>2, NextFree
  <2>3. \A x \in Disk : ValidIn(index'[x]) = ValidIn(rxs[x])
    BY <1>2, <2>1, <2>2, AppendedValid
  <2>4. QED
    BY <1>4, <2>3
<1>7. QED
  BY <1>5, <1>6

\* The open slot of a first frame is not searchable yet.
LEMMA FrameCatalog ==
  ASSUME KInv, RingAssumption, NEW c \in Chn, NEW n \in FrameUnits, Frame(c, n)
  PROVE  \A x \in Disk : ValidIn(index'[x]) = ValidIn(index[x])
<1> DEFINE w == writer[c]
           v == SlotOf(w, "open")
           m == index[w.d].next
<1>1. index \in IndexType /\ TypeOK /\ KeptIn(index) /\ IsOpen(c)
  BY DEF KInv, IInv, Good, Frame
<1>2. w \in Writer /\ w.d \in Disk
  BY <1>1, WriterSlots
<1>3. CASE w.count = 0
  <2>1. index' = Opened(index, w)
    BY <1>3 DEF Frame
  <2>2. /\ v \in IndexSlot /\ v.seg = w.seg /\ v.st = "open"
    BY <1>2, SlotOfTyped
  <2>3. \A i \in Slot : ~Names(index[w.d].slot[i], w.seg)
    <3>1. {f \in LiveIn(index[w.d]) : f.seg = w.seg} = {}
      BY <1>1, <1>3 DEF KeptIn, HeldIn
    <3>2. QED
      BY <3>1 DEF LiveIn, Names
  <2>4. index[w.d] \in Ring
    BY <1>1, <1>2 DEF IndexType, Ring
  <2>5. ~Live(index[w.d].slot[m])
    <3>1. c \in Waiting(w.d) /\ wptr[w.d] \in 0 .. NChunks
      BY <1>1, <1>2, <1>3 DEF Waiting, TypeOK
    <3>2. QED
      BY <1>1, <1>2, <3>1, NextFree DEF KeptIn
  <2> HIDE DEF v
  <2>6. IndexWrite(index[w.d], v) = [slot |-> [index[w.d].slot EXCEPT ![m] = v],
                                     next |-> (m + 1) % NSlots]
    BY <2>2, <2>3, <2>4, UpsertMisses
  <2>7. index' = Appended(index, w.d, v)
    BY <2>1, <2>6 DEF Opened, Appended, v
  <2>8. QED
    BY <1>1, <1>2, <2>2, <2>5, <2>7, AppendedValid
<1>4. CASE w.count # 0
  BY <1>4 DEF Frame
<1>5. QED
  BY <1>3, <1>4

-----------------------------------------------------------------------------
(* The recorder implements the archive. *)

LEMMA SameCount == \A S : A!Cardinality(S) = Cardinality(S)
BY Zenon DEF A!Cardinality, Cardinality

LEMMA KeptOwners ==
  TypeOK /\ PointerOK => \A x \in Disk : A!Kept(x) = {owner[x][k] : k \in InUse(x)}
BY LogIs

\* What a search returns is the owner of a chunk in use.
LEMMA Catalogued ==
  ASSUME KInv, NEW jxs \in IndexType, Good(jxs), KeptIn(jxs), NEW x \in Disk, NEW e \in ValidIn(jxs[x])
  PROVE  e.chunk \in InUse(x) /\ e.seg = owner[x][e.chunk] /\ e.seg \in Seg
<1>1. e \in LiveIn(jxs[x])
  BY DEF ValidIn
<1>2. e.chunk \in Chunk
  BY <1>1 DEF LiveIn, IndexType, IndexSlot
<1>3. ~wrapped[x] => e.chunk < wptr[x]
  BY <1>1, Zenon DEF Good, BehindIn
<1>4. e.seg = owner[x][e.chunk] /\ e.seg \in Seg
  BY <1>1, Zenon DEF KeptIn, OwnedIn
<1>5. QED
  BY <1>2, <1>3, <1>4 DEF InUse

Finishes(done, jxs) ==
  /\ done \in A!AtMostOne(UNION {{x} \X A!Kept(x) : x \in Disk})
  /\ Cardinality(done) <= 1 /\ \A p \in done : p[2] \in A!Kept(p[1])
  /\ \A x \in Disk : Cat(jxs, x) = CatalogBar[x] \cup {p[2] : p \in {q \in done : q[1] = x}}

LEMMA BaseFinishes ==
  ASSUME KInv, SlotsNear, NEW c \in Chn, NEW jxs, Base(c, jxs)
  PROVE  \E done : Finishes(done, jxs)
<1> DEFINE w == writer[c]
<1>1. \A x \in Disk : CatalogBar[x] = Cat(index, x)
  BY DEF CatalogBar, Cat, Query
<1>2. \/ \A x \in Disk : Cat(jxs, x) = Cat(index, x)
      \/ /\ IsOpen(c)
         /\ \A x \in Disk : Cat(jxs, x) = IF x = w.d THEN Cat(index, x) \cup {w.seg} ELSE Cat(index, x)
  BY BaseCatalog
<1>3. CASE \A x \in Disk : Cat(jxs, x) = Cat(index, x)
  <2>1. {} \in A!AtMostOne(UNION {{x} \X A!Kept(x) : x \in Disk})
    BY Zenon DEF A!AtMostOne
  <2>2. Cardinality({}) <= 1
    BY FS_EmptySet
  <2>3. \A x \in Disk : {p[2] : p \in {q \in {} : q[1] = x}} = {}
    OBVIOUS
  <2>4. \A x \in Disk : Cat(jxs, x) = CatalogBar[x] \cup {p[2] : p \in {q \in {} : q[1] = x}}
    BY <1>1, <1>3, <2>3
  <2>5. Finishes({}, jxs)
    BY <2>1, <2>2, <2>4 DEF Finishes
  <2>6. QED
    BY <2>5
<1>4. CASE /\ IsOpen(c)
           /\ \A x \in Disk : Cat(jxs, x) = IF x = w.d THEN Cat(index, x) \cup {w.seg} ELSE Cat(index, x)
  <2> DEFINE y == <<w.d, w.seg>>
  <2>1. TypeOK /\ PointerOK /\ WritersBehind /\ WritersOwn
    BY DEF KInv, IInv
  <2>2. w.d \in Disk /\ w.chunk \in Chunk
    BY <1>4, WriterSlots
  <2>3. w.chunk \in InUse(w.d)
    BY <1>4, <2>1, <2>2 DEF WritersBehind, InUse
  <2>4. w.seg \in A!Kept(w.d)
    <3>1. owner[w.d][w.chunk] = w.seg
      BY <1>4, <2>1 DEF WritersOwn
    <3>2. A!Kept(w.d) = {owner[w.d][k] : k \in InUse(w.d)}
      BY <2>1, <2>2, KeptOwners
    <3>3. QED
      BY <2>3, <3>1, <3>2
  <2> HIDE DEF w
  <2>5. y \in UNION {{x} \X A!Kept(x) : x \in Disk}
    <3>1. y \in {w.d} \X A!Kept(w.d)
      BY <2>4
    <3> HIDE DEF y
    <3>2. QED
      BY <2>2, <3>1
  <2>6. {y} \in A!AtMostOne(UNION {{x} \X A!Kept(x) : x \in Disk})
    <3> HIDE DEF y
    <3>1. QED
      BY <2>5 DEF A!AtMostOne
  <2>7. Cardinality({y}) <= 1
    <3> HIDE DEF y
    <3>1. Cardinality({y}) = 1
      BY FS_Singleton
    <3>2. QED
      BY <3>1
  <2>8. y[1] = w.d /\ y[2] = w.seg
    OBVIOUS
  <2> HIDE DEF y
  <2>9. \A p \in {y} : p[2] \in A!Kept(p[1])
    BY <2>4, <2>8
  <2>10. \A x \in Disk : {p[2] : p \in {q \in {y} : q[1] = x}} = IF x = w.d THEN {w.seg} ELSE {}
    BY <2>8
  <2>11. \A x \in Disk : Cat(jxs, x) = CatalogBar[x] \cup {p[2] : p \in {q \in {y} : q[1] = x}}
    BY <1>1, <1>4, <2>10 DEF w
  <2>12. Finishes({y}, jxs)
    BY <2>6, <2>7, <2>9, <2>11 DEF Finishes
  <2>13. QED
    BY <2>12
<1>5. QED
  BY <1>2, <1>3, <1>4

(***************************************************************************)
(* After a segment was started, a search returns what it did, but for the  *)
(* segment that owned the chunk.                                           *)
(***************************************************************************)
LEMMA StartShows ==
  ASSUME KInv, KInv', RingAssumption, NEW c \in Chn, NEW d \in Disk,
         NEW jxs \in IndexType, Good(jxs), KeptIn(jxs),
         NEW w, Starts(c, d, w), NEW e,
         StartsEmpty(d, jxs, w) \/ StartsWith(d, jxs, w, e)
  PROVE  \A x \in Disk : Cat(index', x) = Cat(jxs, x) \cap {owner'[x][k] : k \in InUse(x)'}
<1> DEFINE p == wptr[d]
           s == NextSeg(c, d)
<1>1. TypeOK /\ OwnersOK /\ NoSharedChunk'
  BY DEF KInv, IInv
<1>2. /\ p \in Chunk
      /\ \A k \in Chunk : owner'[d][k] = IF k = p THEN s ELSE owner[d][k]
  BY <1>1, StartFacts
<1>3. /\ \A x \in Disk : x # d => InUse(x)' = InUse(x) /\ owner'[x] = owner[x]
      /\ InUse(d)' = InUse(d) \cup {p}
  BY StartLogs
<1>4. \A k \in Chunk : owner[d][k] # s
  BY NewSegment DEF Starts, TakeChunk
<1>5. \A x \in Disk : ValidIn(index'[x]) = {f \in ValidIn(jxs[x]) : x = d => f.chunk # p}
  BY StartCatalog
<1>6. \A x \in Disk : \A f \in ValidIn(jxs[x]) :
        f.chunk \in InUse(x) /\ f.seg = owner[x][f.chunk] /\ f.seg \in Seg
  BY Catalogued
<1>7. \A x \in Disk : InUse(x) \subseteq Chunk
  BY DEF InUse
<1> HIDE DEF p, s
<1>8. ASSUME NEW x \in Disk, NEW f \in ValidIn(index'[x])
      PROVE  f.seg \in Cat(jxs, x) /\ f.seg \in {owner'[x][k] : k \in InUse(x)'}
  <2>1. f \in ValidIn(jxs[x]) /\ (x = d => f.chunk # p)
    BY <1>5
  <2>2. f.seg \in Cat(jxs, x)
    BY <2>1 DEF Cat
  <2>3. f.chunk \in InUse(x) /\ f.chunk \in Chunk /\ f.seg = owner[x][f.chunk]
    BY <1>6, <1>7, <2>1
  <2>4. f.chunk \in InUse(x)' /\ owner'[x][f.chunk] = f.seg
    <3>1. CASE x = d
      <4>1. f.chunk \in InUse(d)'
        BY <1>3, <2>3, <3>1
      <4>2. QED
        BY <1>2, <2>1, <2>3, <3>1, <4>1
    <3>2. CASE x # d
      BY <1>3, <2>3, <3>2
    <3>3. QED
      BY <3>1, <3>2
  <2>5. QED
    BY <2>2, <2>4
<1>9. ASSUME NEW x \in Disk, NEW f \in ValidIn(jxs[x]), NEW k \in InUse(x)', owner'[x][k] = f.seg
      PROVE  f \in ValidIn(index'[x])
  <2>1. SUFFICES ASSUME x = d, f.chunk = p PROVE FALSE
    BY <1>5
  <2>2. f.seg = owner[d][p] /\ f.seg \in Seg
    BY <1>6, <2>1
  <2>3. k \in Chunk
    BY <1>2, <1>3, <1>7, <2>1
  <2>4. k # p
    BY <1>2, <1>4, <1>9, <2>1, <2>2
  <2>5. owner[d][k] = owner[d][p]
    BY <1>2, <1>9, <2>1, <2>2, <2>3, <2>4
  <2>6. owner[d][p] # NoSeg
    BY <2>2, FormatAssumption
  <2>7. \A j \in Chunk : owner[d][j] = owner[d][p] => j = p
    BY <1>1, <1>2, <2>6 DEF OwnersOK
  <2>8. QED
    BY <2>3, <2>4, <2>5, <2>7
<1>10. ASSUME NEW x \in Disk
       PROVE  Cat(index', x) = Cat(jxs, x) \cap {owner'[x][k] : k \in InUse(x)'}
  <2>1. \A q \in Cat(index', x) : q \in Cat(jxs, x) /\ q \in {owner'[x][k] : k \in InUse(x)'}
    BY <1>8 DEF Cat
  <2>2. ASSUME NEW q \in Cat(jxs, x), q \in {owner'[x][k] : k \in InUse(x)'}
        PROVE  q \in Cat(index', x)
    <3>1. PICK f \in ValidIn(jxs[x]) : q = f.seg
      BY DEF Cat
    <3>2. PICK k \in InUse(x)' : q = owner'[x][k]
      BY <2>2
    <3>3. f \in ValidIn(index'[x])
      BY <1>9, <3>1, <3>2
    <3>4. QED
      BY <3>1, <3>3 DEF Cat
  <2>3. QED
    BY <2>1, <2>2
<1>11. QED
  BY <1>10

LEMMA ArchiveStep ==
  ASSUME KInv, SlotsNear, KInv', RingAssumption, SingleOrOverwrite, Next
  PROVE  A!Next \/ UNCHANGED <<LogBar, CatalogBar>>
<1>1. PICK c \in Chn : Starting(c) \/ (\E n \in FrameUnits : Frame(c, n)) \/ Ending(c)
  BY NextShapes DEF KInv
<1>2. TypeOK /\ PointerOK /\ TypeOK' /\ PointerOK'
  BY DEF KInv, IInv
<1>3. \A x \in Disk : {LogBar'[x][i] : i \in 1 .. Len(LogBar'[x])} = {owner'[x][k] : k \in InUse(x)'}
  <2>1. TypeOK' /\ PointerOK' => (\A x \in Disk : A!Kept(x) = {owner[x][k] : k \in InUse(x)})'
    BY KeptOwners, PTL
  <2>2. QED
    BY <1>2, <2>1 DEF A!Kept
<1>4. CatalogBar' = [x \in Disk |-> Cat(index', x)]
  BY DEF CatalogBar, Cat, Query
<1>5. CASE Starting(c)
  <2>1. PICK d \in Disk, jxs \in IndexType, w \in Writer, e \in IndexSlot :
          /\ Base(c, jxs) /\ Starts(c, d, w)
          /\ StartsEmpty(d, jxs, w) \/ StartsWith(d, jxs, w, e)
    BY <1>5, StartShape
  <2>2. Good(jxs) /\ KeptIn(jxs)
    BY <2>1, BaseKept
  <2>3. PICK done : Finishes(done, jxs)
    BY <2>1, BaseFinishes
  <2> DEFINE s == NextSeg(c, d)
             new == {<<d, s>>}
  <2>4. s \in Seg
    BY <2>1, NewSegment DEF Starts, TakeChunk
  <2>5. /\ LogBar' = [x \in Disk |->
              IF x = d
              THEN Append(IF Len(LogBar[x]) < NChunks THEN LogBar[x] ELSE Tail(LogBar[x]), s)
              ELSE LogBar[x]]
        /\ s \notin A!Kept(d)
        /\ HddFull = "overwrite" \/ Len(LogBar[d]) < NChunks
    BY <2>1, StartLogs
  <2>6. \A x \in Disk : Cat(index', x) = Cat(jxs, x) \cap {owner'[x][k] : k \in InUse(x)'}
    BY <2>1, <2>2, StartShows
  <2>7. CatalogBar' = [x \in Disk |->
          (CatalogBar[x] \cup {p[2] : p \in {q \in done : q[1] = x}})
            \cap {LogBar'[x][i] : i \in 1 .. Len(LogBar'[x])}]
    <3>1. \A x \in Disk : Cat(index', x) = (CatalogBar[x] \cup {p[2] : p \in {q \in done : q[1] = x}})
                                             \cap {LogBar'[x][i] : i \in 1 .. Len(LogBar'[x])}
      BY <1>3, <2>3, <2>6, Zenon DEF Finishes
    <3>2. QED
      BY <1>4, <3>1, Zenon
  <2> HIDE DEF s
  <2>8. /\ new \in A!AtMostOne(Disk \X Seg) /\ Cardinality(new) <= 1
        /\ \A x \in Disk : (\E p \in new : p[1] = x) <=> x = d
        /\ (CHOOSE p \in new : TRUE)[2] = s
        /\ \A p \in new : /\ p[2] \notin A!Kept(p[1])
                          /\ HddFull = "overwrite" \/ Len(LogBar[p[1]]) < NChunks
    <3> DEFINE z == <<d, s>>
    <3>1. z \in Disk \X Seg /\ z[1] = d /\ z[2] = s
      BY <2>4
    <3> HIDE DEF z
    <3>2. {z} \in A!AtMostOne(Disk \X Seg)
      BY <3>1 DEF A!AtMostOne
    <3>3. Cardinality({z}) <= 1
      BY FS_Singleton
    <3>4. \A x \in Disk : (\E p \in {z} : p[1] = x) <=> x = d
      BY <3>1
    <3>5. (CHOOSE p \in {z} : TRUE) = z
      OBVIOUS
    <3>6. \A p \in {z} : p[2] \notin A!Kept(p[1]) /\ (HddFull = "overwrite" \/ Len(LogBar[p[1]]) < NChunks)
      BY <2>5, <3>1
    <3>7. QED
      BY <3>1, <3>2, <3>3, <3>4, <3>5, <3>6 DEF z
  <2> HIDE DEF new
  <2>9. LogBar' = [x \in Disk |->
          IF \E p \in new : p[1] = x
          THEN Append(IF Len(LogBar[x]) < NChunks THEN LogBar[x] ELSE Tail(LogBar[x]),
                      (CHOOSE p \in new : TRUE)[2])
          ELSE LogBar[x]]
    BY <2>5, <2>8, Zenon
  <2>10. A!Step(done, new)
    <3>1. A!Cardinality(done) <= 1 /\ A!Cardinality(new) <= 1
      BY <2>3, <2>8, SameCount DEF Finishes
    <3>2. \A p \in done : p[2] \in A!Kept(p[1])
      BY <2>3 DEF Finishes
    <3>3. \A p \in new : /\ p[2] \notin A!Kept(p[1])
                         /\ HddFull = "overwrite" \/ Len(LogBar[p[1]]) < NChunks
      BY <2>8
    <3>4. QED
      BY <2>7, <2>9, <3>1, <3>2, <3>3, Zenon DEF A!Step
  <2>11. QED
    BY <2>3, <2>8, <2>10, Zenon DEF A!Next, Finishes
<1>6. CASE \E n \in FrameUnits : Frame(c, n)
  <2>1. wptr' = wptr /\ wrapped' = wrapped /\ owner' = owner
    BY <1>6 DEF Frame
  <2>2. LogBar' = LogBar
    BY <2>1 DEF LogBar
  <2>3. \A x \in Disk : ValidIn(index'[x]) = ValidIn(index[x])
    BY <1>6, FrameCatalog
  <2>4. CatalogBar' = CatalogBar
    BY <2>3, Zenon DEF CatalogBar, Query
  <2>5. QED
    BY <2>2, <2>4
<1>7. CASE Ending(c)
  <2>1. wptr' = wptr /\ wrapped' = wrapped /\ owner' = owner /\ Base(c, index')
    BY <1>7 DEF Ending
  <2>2. LogBar' = LogBar
    BY <2>1 DEF LogBar
  <2>3. PICK done : Finishes(done, index')
    BY <2>1, BaseFinishes
  <2>4. index' \in IndexType /\ Good(index') /\ KeptIn(index')
    BY <2>1, BaseKept
  <2>5. \A x \in Disk : InUse(x)' = InUse(x)
    BY <2>1 DEF InUse
  <2>6. \A x \in Disk : \A f \in ValidIn(index'[x]) : f.chunk \in InUse(x) /\ f.seg = owner[x][f.chunk]
    BY <2>4, Catalogued
  <2>7. \A x \in Disk : Cat(index', x) \subseteq {owner'[x][k] : k \in InUse(x)'}
    BY <2>1, <2>5, <2>6 DEF Cat
  <2>8. CatalogBar' = [x \in Disk |->
          (CatalogBar[x] \cup {p[2] : p \in {q \in done : q[1] = x}})
            \cap {LogBar'[x][i] : i \in 1 .. Len(LogBar'[x])}]
    <3>1. \A x \in Disk : Cat(index', x) = (CatalogBar[x] \cup {p[2] : p \in {q \in done : q[1] = x}})
                                             \cap {LogBar'[x][i] : i \in 1 .. Len(LogBar'[x])}
      <4>1. \A x \in Disk : Cat(index', x) = Cat(index', x) \cap {owner'[x][k] : k \in InUse(x)'}
        BY <2>7
      <4>2. QED
        BY <1>3, <2>3, <4>1, Zenon DEF Finishes
    <3>2. QED
      BY <1>4, <3>1, Zenon
  <2>9. /\ {} \in A!AtMostOne(Disk \X Seg) /\ Cardinality({}) <= 1
    <3>1. {} \in A!AtMostOne(Disk \X Seg)
      BY Zenon DEF A!AtMostOne
    <3>2. QED
      BY <3>1, FS_EmptySet
  <2>10. LogBar' = [x \in Disk |->
          IF \E p \in {} : p[1] = x
          THEN Append(IF Len(LogBar[x]) < NChunks THEN LogBar[x] ELSE Tail(LogBar[x]),
                      (CHOOSE p \in {} : TRUE)[2])
          ELSE LogBar[x]]
    <3>1. LogBar = [x \in Disk |-> LogBar[x]]
      BY Zenon DEF LogBar
    <3>2. QED
      BY <2>2, <3>1, Zenon
  <2>11. A!Step(done, {})
    <3>1. A!Cardinality(done) <= 1 /\ A!Cardinality({}) <= 1
      BY <2>3, <2>9, SameCount DEF Finishes
    <3>2. \A p \in done : p[2] \in A!Kept(p[1])
      BY <2>3 DEF Finishes
    <3>3. QED
      BY <2>8, <2>10, <3>1, <3>2, Zenon DEF A!Step
  <2>12. QED
    BY <2>3, <2>9, <2>11, Zenon DEF A!Next, Finishes
<1>8. QED
  BY <1>1, <1>5, <1>6, <1>7

(***************************************************************************)
(* A segment that a search returned is still returned, with no fewer       *)
(* frames, unless its chunk got a new owner.                               *)
(***************************************************************************)
LEMMA NothingLost ==
  ASSUME KInv, SlotsNear, KInv', RingAssumption, SingleOrOverwrite, Next
  PROVE  LosesNothing
<1>1. PICK c \in Chn : Starting(c) \/ (\E n \in FrameUnits : Frame(c, n)) \/ Ending(c)
  BY NextShapes DEF KInv
<1>2. SUFFICES ASSUME NEW x \in Disk, NEW e \in ValidIn(index[x])
               PROVE  \/ \E f \in ValidIn(index'[x]) : f.seg = e.seg /\ f.count >= e.count
                      \/ owner'[x][e.chunk] # owner[x][e.chunk]
  BY Zenon DEF LosesNothing, Query
<1>3. CASE Starting(c)
  <2>1. PICK d \in Disk, jxs \in IndexType, w \in Writer, v \in IndexSlot :
          /\ Base(c, jxs) /\ Starts(c, d, w)
          /\ StartsEmpty(d, jxs, w) \/ StartsWith(d, jxs, w, v)
    BY <1>3, StartShape
  <2>2. Good(jxs) /\ KeptIn(jxs)
    BY <2>1, BaseKept
  <2>3. PICK f \in ValidIn(jxs[x]) : f.seg = e.seg /\ f.chunk = e.chunk /\ f.count >= e.count
    BY <2>1, BaseCatalog
  <2>4. ValidIn(index'[x]) = {g \in ValidIn(jxs[x]) : x = d => g.chunk # wptr[d]}
    BY <2>1, <2>2, StartCatalog
  <2>5. CASE x = d /\ f.chunk = wptr[d]
    <3>1. NoSharedChunk'
      BY DEF KInv, IInv
    <3>2. wptr[d] \in Chunk /\ owner'[d][wptr[d]] = NextSeg(c, d)
      BY <2>1, <3>1, StartFacts
    <3>3. owner[d][wptr[d]] # NextSeg(c, d)
      BY <2>1, <3>2, NewSegment DEF Starts, TakeChunk
    <3>4. QED
      BY <2>3, <2>5, <3>2, <3>3
  <2>6. CASE ~(x = d /\ f.chunk = wptr[d])
    BY <2>3, <2>4, <2>6
  <2>7. QED
    BY <2>5, <2>6
<1>4. CASE \E n \in FrameUnits : Frame(c, n)
  <2>1. ValidIn(index'[x]) = ValidIn(index[x])
    BY <1>4, FrameCatalog
  <2>2. Base(c, index)
    BY DEF Base
  <2>3. \E f \in ValidIn(index[x]) : f.seg = e.seg /\ f.chunk = e.chunk /\ f.count >= e.count
    BY <2>2, BaseCatalog
  <2>4. QED
    BY <2>1, <2>3
<1>5. CASE Ending(c)
  <2>1. Base(c, index')
    BY <1>5 DEF Ending
  <2>2. \E f \in ValidIn(index'[x]) : f.seg = e.seg /\ f.chunk = e.chunk /\ f.count >= e.count
    BY <2>1, BaseCatalog
  <2>3. QED
    BY <2>2
<1>6. QED
  BY <1>1, <1>3, <1>4, <1>5

LEMMA InitArchive == Init => A!Init
<1> SUFFICES ASSUME Init PROVE A!Init
  OBVIOUS
<1>1. \A x \in Disk : LogBar[x] = <<>>
  BY DEF Init, LogBar
<1>2. LogBar = [x \in Disk |-> <<>>]
  BY <1>1, Zenon DEF LogBar
<1>3. \A x \in Disk : Query(x) = {}
  BY DEF Init, Query, ValidIn, LiveIn, Live, Unwritten
<1>4. CatalogBar = [x \in Disk |-> {}]
  BY <1>3 DEF CatalogBar
<1>5. QED
  BY <1>2, <1>4 DEF A!Init

LEMMA StutterArchive ==
  KInv /\ UNCHANGED vars => UNCHANGED <<LogBar, CatalogBar>>
BY DEF vars, LogBar, CatalogBar, Query

(***************************************************************************)
(* The recorder implements Archive: a search finds what was recorded until *)
(* the ring takes its chunk, the oldest first, and no frame is lost        *)
(* meanwhile.                                                              *)
(***************************************************************************)
THEOREM PacedRecordings ==
  ASSUME SingleOrOverwrite, RingAssumption, LookBack
  PROVE  PacedSpec => RecordingsKept
<1>1. PacedSpec => []KInv
  BY KeptInvariant
<1>2. KInv /\ KInv' /\ [PacedNext]_vars => [A!Next]_<<LogBar, CatalogBar>>
  BY AgesNear, ArchiveStep, StutterArchive DEF PacedNext
<1>3. KInv /\ KInv' /\ [PacedNext]_vars => [LosesNothing]_vars
  BY AgesNear, NothingLost DEF PacedNext
<1>4. Init => A!Init
  BY InitArchive
<1>5. QED
  BY <1>1, <1>2, <1>3, <1>4, PTL DEF PacedSpec, RecordingsKept, ArchiveSpec, A!Spec, NoSilentLoss

(***************************************************************************)
(* The recorder implements Archive on disks of any size, as long as the    *)
(* slot of every open segment stays within the scan of the upsert          *)
(* (rsdk_index.c:26).                                                      *)
(***************************************************************************)
THEOREM NearRecordings ==
  ASSUME SingleOrOverwrite, RingAssumption
  PROVE  NearSpec => RecordingsKept
<1>1. NearSpec => [](KInv /\ SlotsNear)
  BY NearInvariant
<1>2. KInv /\ SlotsNear /\ KInv' /\ [PacedNext /\ SlotsNear']_vars
        => [A!Next]_<<LogBar, CatalogBar>>
  BY ArchiveStep, StutterArchive DEF PacedNext
<1>3. KInv /\ SlotsNear /\ KInv' /\ [PacedNext /\ SlotsNear']_vars => [LosesNothing]_vars
  BY NothingLost DEF PacedNext
<1>4. Init => A!Init
  BY InitArchive
<1>5. QED
  BY <1>1, <1>2, <1>3, <1>4, PTL DEF NearSpec, RecordingsKept, ArchiveSpec, A!Spec, NoSilentLoss

(***************************************************************************)
(* The recorder implements Archive on one disk under the stop policy       *)
(* (rsdk_storgedev.c:211), whatever the pace of the channels: a recording  *)
(* that was closed stays found for good.                                   *)
(***************************************************************************)
THEOREM StopRecordings ==
  ASSUME HddFull = "stop", NDisk = 1, RingAssumption, LookBack
  PROVE  Spec => RecordingsKept
<1>1. Spec => []KInv
  BY StopKept
<1>2. KInv /\ KInv' /\ [Next]_vars => [A!Next]_<<LogBar, CatalogBar>>
  BY AgesNear, ArchiveStep, StutterArchive DEF SingleOrOverwrite
<1>3. KInv /\ KInv' /\ [Next]_vars => [LosesNothing]_vars
  BY AgesNear, NothingLost DEF SingleOrOverwrite
<1>4. Init => A!Init
  BY InitArchive
<1>5. QED
  BY <1>1, <1>2, <1>3, <1>4, PTL DEF Spec, RecordingsKept, ArchiveSpec, A!Spec, NoSilentLoss

-----------------------------------------------------------------------------
(* Policy stop. *)

\* No byte was written ahead of the write pointer, nor ahead of an open writer.
BlankFrom(row, o) == \A u \in Unit : u >= o => row[u] = Blank
BlankAhead ==
  /\ \A d \in Disk, k \in Chunk : k >= wptr[d] => BlankFrom(data[d][k], 0)
  /\ \A c \in Chn : IsOpen(c) =>
       BlankFrom(data[writer[c].d][writer[c].chunk], writer[c].off)

LEMMA InitBlank == Init => BlankAhead
<1> SUFFICES ASSUME Init PROVE BlankAhead
  OBVIOUS
<1>1. \A d \in Disk, k \in Chunk, u \in Unit : data[d][k][u] = Blank
  BY DEF Init
<1>2. \A c \in Chn : ~IsOpen(c)
  BY DEF Init, IsOpen, Closed
<1>3. QED
  BY <1>1, <1>2 DEF BlankAhead, BlankFrom

(***************************************************************************)
(* A step of a call that hands out a chunk: nothing is written, or one     *)
(* frame at the start of that chunk.                                       *)
(***************************************************************************)
LEMMA StartWrites ==
  ASSUME TypeOK, PointerOK, NEW c \in Chn, Starting(c)
  PROVE  \E d \in Disk, f \in Writer :
           /\ TakeChunk(c, d)
           /\ f.st = "open" /\ f.d = d /\ f.chunk = wptr[d] /\ f.off = 0
           /\ \/ data' = data /\ writer' = [writer EXCEPT ![c] = f]
              \/ \E n \in FrameUnits : /\ n <= ChunkUnits
                                       /\ data' = Stamped(f, n)
                                       /\ writer' = [writer EXCEPT ![c] = After(f, n)]
<1>1. ASSUME NEW t \in RecType, OpenWriter(c, t) \/ ChangeType(c, t)
      PROVE  \E d \in Disk : /\ TakeChunk(c, d) /\ data' = data
                             /\ writer' = [writer EXCEPT ![c] = Fresh(c, d, t)]
  BY <1>1 DEF OpenWriter, ChangeType
<1>2. ASSUME NEW n \in FrameUnits, RollFrame(c, n)
      PROVE  \E d \in Disk, t \in RecType :
               /\ TakeChunk(c, d) /\ n <= ChunkUnits
               /\ data' = Stamped(Fresh(c, d, t), n)
               /\ writer' = [writer EXCEPT ![c] = After(Fresh(c, d, t), n)]
  <2>1. writer[c].type \in RecType
    BY DEF TypeOK, Writer
  <2>2. QED
    BY <1>2, <2>1 DEF RollFrame
<1>3. PICK d \in Disk, t \in RecType :
        /\ TakeChunk(c, d)
        /\ \/ data' = data /\ writer' = [writer EXCEPT ![c] = Fresh(c, d, t)]
           \/ \E n \in FrameUnits : /\ n <= ChunkUnits
                                    /\ data' = Stamped(Fresh(c, d, t), n)
                                    /\ writer' = [writer EXCEPT ![c] = After(Fresh(c, d, t), n)]
  <2>1. CASE \E t \in RecType : OpenWriter(c, t) \/ ChangeType(c, t)
    BY <1>1, <2>1, Zenon
  <2>2. CASE \E n \in FrameUnits : RollFrame(c, n)
    <3>1. PICK n \in FrameUnits : RollFrame(c, n)
      BY <2>2
    <3>2. PICK d \in Disk, t \in RecType :
            /\ TakeChunk(c, d) /\ n <= ChunkUnits
            /\ data' = Stamped(Fresh(c, d, t), n)
            /\ writer' = [writer EXCEPT ![c] = After(Fresh(c, d, t), n)]
      BY <1>2, <3>1
    <3>3. QED
      BY <3>2, Zenon
  <2>3. QED
    BY <2>1, <2>2, Zenon DEF Starting
<1>4. Fresh(c, d, t) \in Writer
  BY <1>3, FreshTyped
<1>5. /\ Fresh(c, d, t).st = "open" /\ Fresh(c, d, t).d = d
      /\ Fresh(c, d, t).chunk = wptr[d] /\ Fresh(c, d, t).off = 0
  BY DEF Fresh
<1>6. QED
  BY <1>3, <1>4, <1>5, Zenon

(***************************************************************************)
(* A frame goes to units that were blank, and leaves the writer blank      *)
(* units after it.                                                         *)
(***************************************************************************)
LEMMA FrameBlank ==
  ASSUME data \in [Disk -> [Chunk -> [Unit -> Cell]]], NEW w \in Writer,
         NEW n \in FrameUnits, w.off + n <= ChunkUnits,
         BlankFrom(data[w.d][w.chunk], w.off), data' = Stamped(w, n)
  PROVE  /\ \A d \in Disk, k \in Chunk, u \in Unit :
              data[d][k][u] # Blank => data'[d][k][u] = data[d][k][u]
         /\ \A d \in Disk, k \in Chunk :
              <<d, k>> # <<w.d, w.chunk>> => data'[d][k] = data[d][k]
         /\ BlankFrom(data'[w.d][w.chunk], w.off + n)
<1>1. /\ w.d \in Disk /\ w.chunk \in Chunk /\ w.off \in Nat /\ n \in Nat \ {0}
      /\ Unit \subseteq Nat
  BY FormatAssumption DEF Writer, Unit
<1>2. \A d \in Disk, k \in Chunk : <<d, k>> # <<w.d, w.chunk>> => data'[d][k] = data[d][k]
  BY StampTyped
<1>3. \A u \in Unit : ~(u \in w.off .. w.off + n - 1) => data'[w.d][w.chunk][u] = data[w.d][w.chunk][u]
  <2> DEFINE cell(u) == [seg |-> w.seg, seq |-> w.count, len |-> n,
                         hdr |-> IF u = w.off THEN "yes" ELSE "no"]
  <2>1. \A u \in Unit : Stamped(w, n)[w.d][w.chunk][u] =
          IF u \in w.off .. w.off + n - 1 THEN cell(u) ELSE data[w.d][w.chunk][u]
    BY StampedCells, Zenon
  <2> HIDE DEF cell
  <2>2. QED
    BY <2>1, Zenon
<1>4. \A u \in Unit : u < w.off \/ u >= w.off + n => data'[w.d][w.chunk][u] = data[w.d][w.chunk][u]
  BY <1>1, <1>3
<1>5. \A u \in Unit : data[w.d][w.chunk][u] # Blank => u < w.off
  BY <1>1 DEF BlankFrom
<1>6. \A u \in Unit : u >= w.off + n => data'[w.d][w.chunk][u] = Blank
  <2>1. \A u \in Unit : u >= w.off + n => u >= w.off
    BY <1>1
  <2>2. QED
    BY <1>4, <2>1 DEF BlankFrom
<1>7. \A d \in Disk, k \in Chunk, u \in Unit :
        data[d][k][u] # Blank => data'[d][k][u] = data[d][k][u]
  <2> TAKE d \in Disk, k \in Chunk, u \in Unit
  <2>1. CASE <<d, k>> = <<w.d, w.chunk>>
    BY <2>1, <1>4, <1>5
  <2>2. CASE <<d, k>> # <<w.d, w.chunk>>
    BY <2>2, <1>2
  <2>3. QED
    BY <2>1, <2>2
<1>8. QED
  BY <1>2, <1>6, <1>7 DEF BlankFrom

NothingOverwritten ==
  \A d \in Disk, k \in Chunk, u \in Unit :
    data[d][k][u] # Blank => data'[d][k][u] = data[d][k][u]

LEMMA StopStep ==
  ASSUME IInv, HddFull = "stop", NDisk = 1, BlankAhead, Next, NoSharedChunk'
  PROVE  NothingOverwritten /\ BlankAhead'
<1>1. /\ TypeOK /\ PointerOK /\ NoSharedChunk /\ WritersBehind
      /\ data \in [Disk -> [Chunk -> [Unit -> Cell]]]
      /\ writer \in [Chn -> Writer]
  BY DEF IInv, TypeOK
<1>2. \A x \in Disk : x = 0 /\ wptr[x] \in Nat /\ 0 \in Disk
  BY <1>1, FormatAssumption, GroupAssumption DEF Disk, TypeOK
<1>3. PICK c \in Chn : Starting(c) \/ (\E n \in FrameUnits : Frame(c, n)) \/ Ending(c)
  BY NextShapes DEF SingleOrOverwrite
<1>4. CASE Ending(c)
  <2>1. data' = data /\ wptr' = wptr
    BY <1>4 DEF Ending
  <2>2. \A b \in Chn : IsOpen(b)' =>
          /\ IsOpen(b) /\ writer'[b].d = writer[b].d
          /\ writer'[b].chunk = writer[b].chunk /\ writer'[b].off = writer[b].off
    BY <1>4 DEF Ending
  <2>3. QED
    BY <2>1, <2>2, Zenon DEF BlankAhead, NothingOverwritten
<1>5. CASE \E n \in FrameUnits : Frame(c, n)
  <2> DEFINE w == writer[c]
  <2>1. PICK n \in FrameUnits : Frame(c, n)
    BY <1>5
  <2>2. /\ IsOpen(c) /\ w \in Writer /\ w.off + n <= ChunkUnits /\ data' = Stamped(w, n)
        /\ writer' = [writer EXCEPT ![c] = After(w, n)] /\ wptr' = wptr
    BY <1>1, <2>1 DEF Frame, Fits
  <2>3. BlankFrom(data[w.d][w.chunk], w.off)
    BY <2>2 DEF BlankAhead
  <2>4. /\ w.chunk \in Nat /\ w.d = 0 /\ w.chunk < wptr[w.d]
    BY <1>1, <1>2, <2>2 DEF Writer, WritersBehind, PointerOK, Chunk
  <2>5. After(w, n).d = w.d /\ After(w, n).chunk = w.chunk /\ After(w, n).off = w.off + n
    BY <1>1, <2>2, StampTyped
  <2>6. /\ \A b \in Chn : b # c => writer'[b] = writer[b]
        /\ writer'[c] = After(w, n)
    BY <1>1, <2>2
  <2> HIDE DEF w
  <2>7. /\ NothingOverwritten
        /\ \A d \in Disk, k \in Chunk :
              <<d, k>> # <<w.d, w.chunk>> => data'[d][k] = data[d][k]
        /\ BlankFrom(data'[w.d][w.chunk], w.off + n)
    BY <1>1, <2>2, <2>3, FrameBlank DEF NothingOverwritten
  <2>8. \A d \in Disk, k \in Chunk : k >= wptr'[d] => BlankFrom(data'[d][k], 0)
    <3> SUFFICES ASSUME NEW d \in Disk, NEW k \in Chunk, k >= wptr[d]
                 PROVE  BlankFrom(data'[d][k], 0)
      BY <2>2
    <3>1. k # w.chunk
      BY <1>2, <2>4 DEF Chunk
    <3>2. QED
      BY <2>7, <3>1 DEF BlankAhead
  <2>9. \A b \in Chn : IsOpen(b)' => BlankFrom(data'[writer'[b].d][writer'[b].chunk], writer'[b].off)
    <3> SUFFICES ASSUME NEW b \in Chn, IsOpen(b)'
                 PROVE  BlankFrom(data'[writer'[b].d][writer'[b].chunk], writer'[b].off)
      OBVIOUS
    <3>1. CASE b = c
      BY <2>5, <2>6, <2>7, <3>1
    <3>2. CASE b # c
      <4>1. IsOpen(b) /\ writer'[b] = writer[b] /\ writer[b].d \in Disk /\ writer[b].chunk \in Chunk
        BY <1>1, <2>6, <3>2 DEF IsOpen, Writer
      <4>2. <<writer[b].d, writer[b].chunk>> # <<w.d, w.chunk>>
        BY <1>1, <2>2, <3>2, <4>1, Zenon DEF NoSharedChunk, w
      <4>3. data'[writer[b].d][writer[b].chunk] = data[writer[b].d][writer[b].chunk]
        BY <2>7, <4>1, <4>2
      <4>4. QED
        BY <4>1, <4>3 DEF BlankAhead
    <3>3. QED
      BY <3>1, <3>2
  <2>10. QED
    BY <2>7, <2>8, <2>9 DEF BlankAhead
<1>6. CASE Starting(c)
  <2>1. PICK d \in Disk, f \in Writer :
          /\ TakeChunk(c, d)
          /\ f.st = "open" /\ f.d = d /\ f.chunk = wptr[d] /\ f.off = 0
          /\ \/ data' = data /\ writer' = [writer EXCEPT ![c] = f]
             \/ \E n \in FrameUnits : /\ n <= ChunkUnits
                                      /\ data' = Stamped(f, n)
                                      /\ writer' = [writer EXCEPT ![c] = After(f, n)]
    BY <1>1, <1>6, StartWrites
  <2>2. d = 0 /\ wptr[d] \in Chunk /\ wptr'[d] = wptr[d] + 1
    <3>1. AllocChunk(d) /\ ~WrapsNow(d)
      BY <2>1 DEF TakeChunk, WrapsNow
    <3>2. wptr' = [wptr EXCEPT ![d] = wptr[d] + 1] /\ d \in DOMAIN wptr
      BY <1>1, <2>1, <3>1 DEF AllocChunk, TypeOK
    <3>3. wptr[d] \in Chunk
      BY <1>1, <3>1, AllocRange
    <3>4. QED
      BY <1>2, <3>2, <3>3
  <2>3. BlankFrom(data[f.d][f.chunk], f.off)
    <3>1. wptr[d] >= wptr[d] /\ data[f.d][f.chunk] = data[d][wptr[d]] /\ f.off = 0
      BY <1>2, <2>1
    <3>2. QED
      BY <2>2, <3>1 DEF BlankAhead
  \* the writer after the step, and what changed
  <2>4. PICK w \in Writer :
          /\ writer' = [writer EXCEPT ![c] = w] /\ w.d = d /\ w.chunk = wptr[d]
          /\ NothingOverwritten
          /\ \A x \in Disk, k \in Chunk : <<x, k>> # <<d, wptr[d]>> => data'[x][k] = data[x][k]
          /\ BlankFrom(data'[d][wptr[d]], w.off)
    <3>1. CASE data' = data /\ writer' = [writer EXCEPT ![c] = f]
      BY <2>1, <2>3, <3>1 DEF NothingOverwritten
    <3>2. CASE \E n \in FrameUnits : /\ n <= ChunkUnits
                                     /\ data' = Stamped(f, n)
                                     /\ writer' = [writer EXCEPT ![c] = After(f, n)]
      <4>1. PICK n \in FrameUnits : /\ n <= ChunkUnits /\ data' = Stamped(f, n)
                                    /\ writer' = [writer EXCEPT ![c] = After(f, n)]
        BY <3>2
      <4>2. f.off + n <= ChunkUnits
        BY <2>1, <4>1, FormatAssumption
      <4>3. /\ After(f, n) \in Writer /\ After(f, n).d = f.d /\ After(f, n).chunk = f.chunk
            /\ After(f, n).off = f.off + n
        BY <1>1, <4>2, StampTyped
      <4>4. /\ NothingOverwritten
            /\ \A x \in Disk, k \in Chunk : <<x, k>> # <<f.d, f.chunk>> => data'[x][k] = data[x][k]
            /\ BlankFrom(data'[f.d][f.chunk], f.off + n)
        BY <1>1, <2>3, <4>1, <4>2, FrameBlank DEF NothingOverwritten
      <4>5. QED
        BY <2>1, <4>1, <4>3, <4>4, Zenon
    <3>3. QED
      BY <2>1, <3>1, <3>2
  <2>5. /\ \A b \in Chn : b # c => writer'[b] = writer[b]
        /\ writer'[c] = w
    BY <1>1, <2>4
  <2>6. \A x \in Disk, k \in Chunk : k >= wptr'[x] => BlankFrom(data'[x][k], 0)
    <3> SUFFICES ASSUME NEW x \in Disk, NEW k \in Chunk, k >= wptr'[x]
                 PROVE  BlankFrom(data'[x][k], 0)
      OBVIOUS
    <3>1. x = d /\ k >= wptr[d] /\ k # wptr[d]
      BY <1>2, <2>2 DEF Chunk
    <3>2. QED
      BY <2>4, <3>1 DEF BlankAhead
  <2>7. \A b \in Chn : IsOpen(b)' => BlankFrom(data'[writer'[b].d][writer'[b].chunk], writer'[b].off)
    <3> SUFFICES ASSUME NEW b \in Chn, IsOpen(b)'
                 PROVE  BlankFrom(data'[writer'[b].d][writer'[b].chunk], writer'[b].off)
      OBVIOUS
    <3>1. CASE b = c
      BY <2>4, <2>5, <3>1
    <3>2. CASE b # c
      <4>1. IsOpen(b) /\ writer'[b] = writer[b] /\ writer[b].d \in Disk /\ writer[b].chunk \in Chunk
        BY <1>1, <2>5, <3>2 DEF IsOpen, Writer
      <4>2. writer[b].chunk < wptr[d]
        BY <1>1, <1>2, <2>1, <4>1 DEF WritersBehind, PointerOK
      <4>3. <<writer[b].d, writer[b].chunk>> # <<d, wptr[d]>>
        BY <1>2, <2>1, <4>2
      <4>4. data'[writer[b].d][writer[b].chunk] = data[writer[b].d][writer[b].chunk]
        BY <2>4, <4>1, <4>3
      <4>5. QED
        BY <4>1, <4>4 DEF BlankAhead
    <3>3. QED
      BY <3>1, <3>2
  <2>8. QED
    BY <2>4, <2>6, <2>7 DEF BlankAhead
<1>7. QED
  BY <1>3, <1>4, <1>5, <1>6

(***************************************************************************)
(* One disk that stops when full never overwrites recorded bytes           *)
(* (rsdk_storgedev.c:211), whatever the pace of the channels.              *)
(***************************************************************************)
THEOREM StopKeepsData ==
  ASSUME HddFull = "stop", NDisk = 1
  PROVE  Spec => StopNeverOverwrites
<1>1. Init => IInv /\ BlankAhead
  BY InitGood, InitBlank
<1>2. IInv /\ BlankAhead /\ [Next]_vars => (IInv /\ BlankAhead)'
  <2>1. IInv /\ BlankAhead /\ Next => (IInv /\ BlankAhead)'
    BY NextKeeps, StopNeverShares, StopStep DEF SingleOrOverwrite
  <2>2. BlankAhead /\ UNCHANGED vars => BlankAhead'
    BY DEF vars, BlankAhead, IsOpen
  <2>3. QED
    BY <2>1, <2>2, StutterKeeps
<1>3. IInv /\ BlankAhead /\ [Next]_vars
        => [HddFull = "stop" =>
              \A d \in Disk, k \in Chunk, u \in Unit :
                data[d][k][u] # Blank => data'[d][k][u] = data[d][k][u]]_vars
  BY StopNeverShares, StopStep DEF NothingOverwritten
<1>4. QED
  BY <1>1, <1>2, <1>3, PTL DEF Spec, StopNeverOverwrites
=============================================================================
