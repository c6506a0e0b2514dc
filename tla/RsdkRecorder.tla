---------------------------- MODULE RsdkRecorder ----------------------------
(***************************************************************************)
(* The recorder core of components/recorder: the ring of data chunks of    *)
(* every disk, the segment writers that share the disks of one group, the  *)
(* on-disk index of segments and the player that reads a segment back.     *)
(*                                                                         *)
(* One action is one call of the public API (rsdk_rec.h).  Calls do not    *)
(* overlap; RsdkCrash has the order of the disk writes inside a call.      *)
(*                                                                         *)
(* Abstractions, besides those of RsdkFormat.  seq_epoch is only ever      *)
(* compared with 1 and is kept as the flag wrapped.  The disks of a group  *)
(* have the same geometry.  chunk and base_off of a writer are one field;  *)
(* total_bytes counts units and so equals cur_off.                         *)
(***************************************************************************)
EXTENDS RsdkFormat

CONSTANTS
  NDisk,       \* disks of the group, in the order of rsdk_group_open's paths
  TieChunks,   \* loads this close count as equal (EPS times NChunks)
  RRMod,       \* the round-robin counter is kept modulo RRMod
  HddFull      \* "overwrite" or "stop"

Disk  == 0 .. NDisk - 1

\* RRMod is a common multiple of all the numbers of candidates.
ASSUME GroupAssumption ==
  /\ NDisk \in Nat \ {0} /\ TieChunks \in Nat
  /\ RRMod \in Nat \ {0} /\ \A n \in 1 .. NDisk : RRMod % n = 0
ASSUME PolicyAssumption == HddFull \in {"overwrite", "stop"}

VARIABLES
  wptr,     \* SuperBlock.write_ptr_chunk of each disk
  wrapped,  \* SuperBlock.seq_epoch > 1
  segSeq,   \* SysTab.chn[c].seg_seq of each disk
  index,    \* the index ring of each disk and SysTab.index_next
  data,     \* the data region: the frame record each unit belongs to
  writer,   \* the rsdk_writer of each channel
  rr,       \* rsdk_group.rr
  owner     \* history: the segment each chunk was last given to

vars == <<wptr, wrapped, segSeq, index, data, writer, rr, owner>>

Writer == [st : {"open", "closed"}, d : Disk, chunk : Chunk, off : 0 .. ChunkUnits,
           seg : Seg \cup {NoSeg}, count : Nat, endOff : Nat, type : RecType]

Closed == [st |-> "closed", d |-> 0, chunk |-> 0, off |-> 0, seg |-> NoSeg,
           count |-> 0, endOff |-> 0, type |-> AnyType]

IsOpen(c) == writer[c].st = "open"

(***************************************************************************)
(* rsdk_format: an empty ring, an empty index, no segment ever started.    *)
(***************************************************************************)
Init ==
  /\ wptr = [d \in Disk |-> 0]
  /\ wrapped = [d \in Disk |-> FALSE]
  /\ segSeq = [d \in Disk |-> [c \in Chn |-> 0]]
  /\ index = [d \in Disk |-> [slot |-> [i \in Slot |-> Unwritten], next |-> 0]]
  /\ data = [d \in Disk |-> [k \in Chunk |-> [u \in Unit |-> Blank]]]
  /\ writer = [c \in Chn |-> Closed]
  /\ rr = 0
  /\ owner = [d \in Disk |-> [k \in Chunk |-> NoSeg]]

-----------------------------------------------------------------------------
(* The chunk ring. *)

NoSpace(d) == HddFull = "stop" /\ wptr[d] >= NChunks
\* Bugs that the mutation runs put in the place of the definition they precede.
WrapsLate(d) == HddFull = "overwrite" /\ wptr[d] >= NChunks
WrapsAlways(d) == wptr[d] + 1 >= NChunks
WrapsNow(d) == HddFull = "overwrite" /\ wptr[d] + 1 >= NChunks

\* The chunk handed out is wptr[d]; the pointer moves to the next one.
AllocChunk(d) ==
  /\ ~NoSpace(d)
  /\ wptr' = [wptr EXCEPT ![d] = IF WrapsNow(d) THEN 0 ELSE @ + 1]
  /\ wrapped' = [wrapped EXCEPT ![d] = @ \/ WrapsNow(d)]

(* The choice of a disk. *)

\* bug: the fullest disks
Fullest == {d \in Disk : \A e \in Disk : wptr[e] <= wptr[d] + TieChunks}
Tied == {d \in Disk : \A e \in Disk : wptr[d] <= wptr[e] + TieChunks}

\* cand[rr++ % nc]: the candidates are listed in the order of the group.
Pick(d) ==
  /\ d \in Tied
  /\ Cardinality({e \in Tied : e < d}) = rr % Cardinality(Tied)
  /\ rr' = (rr + 1) % RRMod

\* The segments a search on disk d returns.
Query(d) == ValidIn(index[d])
-----------------------------------------------------------------------------
(* The writer. *)

SlotOf(w, st) == [st |-> st, seg |-> w.seg, type |-> w.type, chunk |-> w.chunk,
                  count |-> w.count, bytes |-> w.off, endOff |-> w.endOff]

\* finalize_seg: the index after the writer's segment is closed in it.
Finalized(ixs, w) ==
  IF w.count = 0 THEN ixs
  ELSE [ixs EXCEPT ![w.d] = IndexWrite(@, SlotOf(w, "valid"))]

\* bugs: no reclaim; the reclaim runs after the pointer moved
NotReclaimed(ixs, d) == ixs
ReclaimedNext(ixs, d) == [ixs EXCEPT ![d] = InvalidateChunk(@, (wptr[d] + 1) % NChunks)]
\* The index after start_seg took the chunk at the write pointer of disk d.
Reclaimed(ixs, d) ==
  IF wrapped[d] \/ WrapsNow(d)
  THEN [ixs EXCEPT ![d] = InvalidateChunk(@, wptr[d])]
  ELSE ixs

\* The index after the first frame of the segment wrote its open slot.
Opened(ixs, w) == [ixs EXCEPT ![w.d] = IndexWrite(@, SlotOf(w, "open"))]

NextSeg(c, d) == <<c, segSeq[d][c] + 1>>

Fresh(c, d, t) ==
  [st |-> "open", d |-> d, chunk |-> wptr[d], off |-> 0, seg |-> NextSeg(c, d),
   count |-> 0, endOff |-> 0, type |-> t]

\* The part of start_seg that succeeds, but for the index and the writer.
TakeChunk(c, d) ==
  /\ Pick(d)
  /\ AllocChunk(d)
  /\ segSeq[d][c] < MaxSegSeq
  /\ segSeq' = [segSeq EXCEPT ![d][c] = @ + 1]
  /\ owner' = [owner EXCEPT ![d][wptr[d]] = NextSeg(c, d)]

\* The part of start_seg that fails: the disk was picked, and nothing else.
NoChunk(d) ==
  /\ Pick(d)
  /\ NoSpace(d)
  /\ UNCHANGED <<wptr, wrapped, segSeq, data, owner>>

\* bug: end_off is not updated
AfterNoEnd(w, n) == [w EXCEPT !.off = @ + n, !.count = @ + 1]
\* The writer after a frame of n units, and the data region with that frame.
After(w, n) == [w EXCEPT !.off = @ + n, !.endOff = w.off, !.count = @ + 1]
Stamped(w, n) ==
  [data EXCEPT ![w.d][w.chunk] =
     [u \in Unit |->
        IF u \in w.off .. w.off + n - 1
        THEN [seg |-> w.seg, seq |-> w.count, len |-> n,
              hdr |-> IF u = w.off THEN "yes" ELSE "no"]
        ELSE @[u]]]

Fits(c, n) == writer[c].off + n <= ChunkUnits

\* rsdk_rec_open, rsdk_rec_open_group
OpenWriter(c, t) ==
  /\ ~IsOpen(c)
  /\ \E d \in Disk :
       /\ TakeChunk(c, d)
       /\ index' = Reclaimed(index, d)
       /\ writer' = [writer EXCEPT ![c] = Fresh(c, d, t)]
  /\ UNCHANGED data

OpenWriterFull(c) ==
  /\ ~IsOpen(c)
  /\ \E d \in Disk : NoChunk(d)
  /\ UNCHANGED <<index, writer>>

\* rsdk_rec_write_frame, first frame of a segment.
FirstFrame(c, n) ==
  LET w == writer[c] IN
  /\ IsOpen(c) /\ w.count = 0 /\ n <= ChunkUnits
  /\ index' = Opened(index, w)
  /\ data' = Stamped(w, n)
  /\ writer' = [writer EXCEPT ![c] = After(w, n)]
  /\ UNCHANGED <<wptr, wrapped, segSeq, rr, owner>>

\* rsdk_rec_write_frame, a further frame that fits in the chunk.
NextFrame(c, n) ==
  LET w == writer[c] IN
  /\ IsOpen(c) /\ w.count > 0 /\ Fits(c, n)
  /\ data' = Stamped(w, n)
  /\ writer' = [writer EXCEPT ![c] = After(w, n)]
  /\ UNCHANGED <<wptr, wrapped, segSeq, index, rr, owner>>

\* rsdk_rec_write_frame, the frame does not fit: the segment is closed, a new
\* one is started in another chunk and the frame is its first.
RollFrame(c, n) ==
  /\ IsOpen(c) /\ writer[c].count > 0 /\ ~Fits(c, n) /\ n <= ChunkUnits
  /\ \E d \in Disk :
       LET f == Fresh(c, d, writer[c].type) IN
       /\ TakeChunk(c, d)
       /\ index' = Opened(Reclaimed(Finalized(index, writer[c]), d), f)
       /\ data' = Stamped(f, n)
       /\ writer' = [writer EXCEPT ![c] = After(f, n)]

\* The same when no chunk is left: the segment was closed, the writer already
\* points to the picked disk, and the frame is lost.
RollFrameFull(c, n) ==
  /\ IsOpen(c) /\ writer[c].count > 0 /\ ~Fits(c, n) /\ n <= ChunkUnits
  /\ \E d \in Disk :
       /\ NoChunk(d)
       /\ writer' = [writer EXCEPT ![c] = [@ EXCEPT !.d = d]]
  /\ index' = Finalized(index, writer[c])

\* rsdk_rec_change_type
ChangeType(c, t) ==
  /\ IsOpen(c)
  /\ \E d \in Disk :
       /\ TakeChunk(c, d)
       /\ index' = Reclaimed(Finalized(index, writer[c]), d)
       /\ writer' = [writer EXCEPT ![c] = Fresh(c, d, t)]
  /\ UNCHANGED data

ChangeTypeFull(c, t) ==
  /\ IsOpen(c)
  /\ \E d \in Disk :
       /\ NoChunk(d)
       /\ writer' = [writer EXCEPT ![c] = [@ EXCEPT !.d = d, !.type = t]]
  /\ index' = Finalized(index, writer[c])

\* rsdk_rec_close
CloseWriter(c) ==
  /\ IsOpen(c)
  /\ index' = Finalized(index, writer[c])
  /\ writer' = [writer EXCEPT ![c] = Closed]
  /\ UNCHANGED <<wptr, wrapped, segSeq, data, rr, owner>>

Next ==
  \E c \in Chn :
    \/ \E t \in RecType : OpenWriter(c, t) \/ ChangeType(c, t) \/ ChangeTypeFull(c, t)
    \/ \E n \in FrameUnits : \/ FirstFrame(c, n) \/ NextFrame(c, n)
                             \/ RollFrame(c, n) \/ RollFrameFull(c, n)
    \/ OpenWriterFull(c)
    \/ CloseWriter(c)

Spec == Init /\ [][Next]_vars

(***************************************************************************)
(* Spec in an environment that keeps every camera delivering: a writer     *)
(* leaves its chunk (by rolling or closing) before the ring comes round to *)
(* it, so that no two open writers ever hold one chunk.  Nothing in the    *)
(* code enforces this: a camera that stalls for a whole lap breaks it.     *)
(***************************************************************************)
NoSharedChunk ==
  \A a, b \in Chn :
    IsOpen(a) /\ IsOpen(b) /\ a # b
      => <<writer[a].d, writer[a].chunk>> # <<writer[b].d, writer[b].chunk>>

PacedNext == Next /\ NoSharedChunk'
PacedSpec == Init /\ [][PacedNext]_vars

-----------------------------------------------------------------------------
(* Properties. *)

\* The disks' pointers, index rings and units, and the open writers.
TypeOK ==
  /\ wptr \in [Disk -> 0 .. NChunks]
  /\ wrapped \in [Disk -> BOOLEAN]
  /\ segSeq \in [Disk -> [Chn -> 0 .. MaxSegSeq]]
  /\ index \in [Disk -> [slot : [Slot -> IndexSlot], next : Slot]]
  /\ data \in [Disk -> [Chunk -> [Unit -> Cell]]]
  /\ writer \in [Chn -> Writer]
  /\ rr \in 0 .. RRMod - 1
  /\ owner \in [Disk -> [Chunk -> Seg \cup {NoSeg}]]

(***************************************************************************)
(* rsdk_index.h:17 "a search no longer hits overwritten data": every unit  *)
(* in the extent of a segment that a search returns still holds that       *)
(* segment's own bytes, whatever the other writers and the ring did since. *)
(***************************************************************************)
SegmentIntact ==
  \A d \in Disk : \A e \in Query(d) :
    \A u \in Unit : u < e.bytes => data[d][e.chunk][u].seg = e.seg

(***************************************************************************)
(* rsdk_play_next_frame from start_off to end_off returns the frames of    *)
(* the segment, each once, in order and none missing: frame_count, end_off *)
(* and the frame headers on disk agree.                                    *)
(***************************************************************************)
ReplayExact ==
  \A d \in Disk : \A e \in Query(d) :
    Replay(data[d][e.chunk], e) = Frames(e)

(***************************************************************************)
(* The upsert by seg_id keeps one live slot for a segment: the open slot   *)
(* of the first frame becomes the valid slot of finalize_seg even when     *)
(* other writers appended slots or reclaimed chunks in between.            *)
(***************************************************************************)
OneSlotPerSegment ==
  \A d \in Disk : \A i, j \in Slot :
    LET a == index[d].slot[i]  b == index[d].slot[j] IN
    Live(a) /\ Live(b) /\ a.seg = b.seg => i = j

\* What a search returns is exact: each segment once, and its replay gives its frames.
SearchExact == ReplayExact /\ OneSlotPerSegment

(***************************************************************************)
(* A recording disappears from the search only because the ring reused its *)
(* chunk, never because the index ring overran it or another segment's     *)
(* upsert hit its slot, and while it stays it loses no frames.             *)
(***************************************************************************)
LosesNothing ==
  \A d \in Disk : \A e \in Query(d) :
    \/ \E f \in Query(d)' : f.seg = e.seg /\ f.count >= e.count
    \/ owner'[d][e.chunk] # owner[d][e.chunk]

NoSilentLoss == [][LosesNothing]_vars

(***************************************************************************)
(* Policy stop (rsdk_storgedev.c:211 "stop: full means stop recording, do  *)
(* not overwrite"): a unit that holds recorded bytes never changes.        *)
(***************************************************************************)
StopNeverOverwrites ==
  [][HddFull = "stop" =>
       \A d \in Disk, k \in Chunk, u \in Unit :
         data[d][k][u] # Blank => data'[d][k][u] = data[d][k][u]]_vars

(***************************************************************************)
(* rsdk_balance_pick spreads segments evenly: until a first disk wraps, no *)
(* disk is ahead of another by more than the tie threshold and one chunk.  *)
(***************************************************************************)
EvenFill ==
  (\A d \in Disk : ~wrapped[d])
    => \A d, e \in Disk : wptr[d] <= wptr[e] + TieChunks + 1

-----------------------------------------------------------------------------
(***************************************************************************)
(* The inductive invariant of PacedSpec behind SegmentIntact.  The parts   *)
(* that speak of an index take it as a parameter: start_seg runs on the    *)
(* index that finalize_seg left, within one step.                          *)
(***************************************************************************)
IndexType == [Disk -> [slot : [Slot -> IndexSlot], next : Slot]]

\* The write pointer is on a chunk, or past the last one when the disk is full.
PointerOK ==
  /\ HddFull = "overwrite" => \A d \in Disk : wptr[d] < NChunks
  /\ HddFull = "stop" => \A d \in Disk : ~wrapped[d]

\* What an open writer wrote of its segment is still there.
WriterIntact ==
  \A c \in Chn : IsOpen(c) =>
    \A u \in Unit : u < writer[c].off =>
      data[writer[c].d][writer[c].chunk][u].seg = writer[c].seg

\* A writer without frames is at the start of its chunk.
EmptyAtStart == \A c \in Chn : IsOpen(c) /\ writer[c].count = 0 => writer[c].off = 0

IntactIn(ixs) ==
  \A d \in Disk : \A e \in LiveIn(ixs[d]) : e.st = "valid" =>
    \A u \in Unit : u < e.bytes => data[d][e.chunk][u].seg = e.seg

\* The chunk of an open writer carries no live slot of another segment.
OwnSlotsIn(ixs) ==
  \A c \in Chn : IsOpen(c) =>
    \A e \in LiveIn(ixs[writer[c].d]) : e.chunk = writer[c].chunk => e.seg = writer[c].seg

\* In the first lap, what is in use lies behind the write pointer.
BehindIn(ixs) ==
  \A d \in Disk : ~wrapped[d] => \A e \in LiveIn(ixs[d]) : e.chunk < wptr[d]
WritersBehind ==
  \A c \in Chn : IsOpen(c) /\ ~wrapped[writer[c].d] => writer[c].chunk < wptr[writer[c].d]

Good(ixs) ==
  ixs \in IndexType /\ IntactIn(ixs) /\ OwnSlotsIn(ixs) /\ BehindIn(ixs)

IInv == /\ TypeOK /\ PointerOK /\ NoSharedChunk
        /\ WriterIntact /\ WritersBehind /\ EmptyAtStart /\ Good(index)

-----------------------------------------------------------------------------
(***************************************************************************)
(* What SearchExact and the refinement of Archive need besides IInv: that  *)
(* the index ring never overruns a live slot, and that the upsert of       *)
(* finalize_seg finds the slot of its first frame.                         *)
(***************************************************************************)

\* How many slots were appended after slot i, how many chunks were given
\* away after chunk k when the write pointer is at p.
SlotAge(ix, i) == IF i < ix.next THEN ix.next - i - 1 ELSE ix.next + NSlots - i - 1
ChunkAge(p, k) == IF k < p THEN p - k - 1 ELSE p + NChunks - k - 1

\* The writers that have a chunk of disk d and no slot yet.
Waiting(d) == {c \in Chn : IsOpen(c) /\ writer[c].d = d /\ writer[c].count = 0}

\* The slots never written are those after index_next, up to the end of the first lap.
Front(ix) ==
  \A i, j \in Slot :
    NeverWritten(ix.slot[i]) /\ SlotAge(ix, i) < SlotAge(ix, j) => NeverWritten(ix.slot[j])
Lone(ix) ==
  \A i, j \in Slot :
    Live(ix.slot[i]) /\ Live(ix.slot[j]) /\ ix.slot[i].seg = ix.slot[j].seg => i = j
OrderIn(ixs) == \A d \in Disk : Front(ixs[d]) /\ Lone(ixs[d])

\* A slot is no older than its chunk, but for the writers that took theirs before and wait.
AgesIn(ixs) ==
  \A d \in Disk : \A i \in Slot :
    LET e == ixs[d].slot[i] IN
    Live(e) => SlotAge(ixs[d], i) + Cardinality(Waiting(d)) < ChunkAge(wptr[d], e.chunk) + Cardinality(Chn)

OwnedIn(ixs) ==
  \A d \in Disk : \A e \in LiveIn(ixs[d]) : e.seg \in Seg /\ e.seg = owner[d][e.chunk]

\* A writer has a slot from its first frame on, which says no more than it wrote.
HeldIn(ixs) ==
  \A c \in Chn : IsOpen(c) =>
    LET mine == {e \in LiveIn(ixs[writer[c].d]) : e.seg = writer[c].seg} IN
    /\ writer[c].count = 0 <=> mine = {}
    /\ \A e \in mine : e.count <= writer[c].count /\ e.bytes <= writer[c].off

\* Each chunk has an owner of its own, started before now; an open writer owns its chunk.
OwnersOK ==
  \A d \in Disk, k \in Chunk : owner[d][k] # NoSeg =>
    /\ owner[d][k][2] <= segSeq[d][owner[d][k][1]]
    /\ \A j \in Chunk : owner[d][j] = owner[d][k] => j = k
WritersOwn ==
  \A c \in Chn : IsOpen(c) =>
    /\ writer[c].seg \in Seg /\ writer[c].seg[1] = c
    /\ owner[writer[c].d][writer[c].chunk] = writer[c].seg

TiledIn(ixs) ==
  \A d \in Disk : \A e \in LiveIn(ixs[d]) : e.st = "valid" => Tiled(data[d][e.chunk], e)
WritersTiled ==
  \A c \in Chn : IsOpen(c) /\ writer[c].count > 0 =>
    Tiled(data[writer[c].d][writer[c].chunk], SlotOf(writer[c], "valid"))

KeptIn(ixs) == OrderIn(ixs) /\ AgesIn(ixs) /\ OwnedIn(ixs) /\ HeldIn(ixs) /\ TiledIn(ixs)

KInv == IInv /\ OwnersOK /\ WritersOwn /\ WritersTiled /\ KeptIn(index)

(***************************************************************************)
(* The upsert looks back far enough for the slot of every open writer.     *)
(* NearSpec asks this of the environment, for a disk of more chunks than   *)
(* the upsert looks back over.                                             *)
(***************************************************************************)
SlotsNear ==
  \A c \in Chn : IsOpen(c) =>
    \A i \in Slot : LET ix == index[writer[c].d] IN
      Names(ix.slot[i], writer[c].seg) => SlotAge(ix, i) < Scan

NearSpec == Init /\ [][PacedNext /\ SlotsNear']_vars

-----------------------------------------------------------------------------
(* Refinement: the recorder implements Archive (see there).                   *)

LogBar == [d \in Disk |->
  IF wrapped[d] THEN [i \in 1 .. NChunks |-> owner[d][(wptr[d] + i - 1) % NChunks]]
  ELSE [i \in 1 .. wptr[d] |-> owner[d][i - 1]]]
CatalogBar == [d \in Disk |-> {e.seg : e \in Query(d)}]

A == INSTANCE Archive WITH Capacity <- NChunks, log <- LogBar, catalog <- CatalogBar

ArchiveSpec == A!Spec

\* What was recorded stays found until the ring takes its chunk, oldest first, and loses no frames meanwhile.
RecordingsKept == ArchiveSpec /\ NoSilentLoss
=============================================================================
