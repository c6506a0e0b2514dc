------------------------------ MODULE RsdkFormat ------------------------------
(***************************************************************************)
(* The disk format of components/recorder, shared by the modules about the *)
(* recorder: the segment index (rsdk_index.c), the frame records of a      *)
(* chunk and the player that walks over them (rsdk_play.c).                *)
(*                                                                         *)
(* A chunk is ChunkUnits alignment units (RSDK_FRAME_ALIGN, 128 bytes) and *)
(* a frame record takes a whole number of them: a chunk is a multiple of   *)
(* 128, so "64 + len > chunk_bytes" and "need > chunk_bytes" agree.        *)
(* Times, payloads and checksums are left out; start_chunk and end_chunk   *)
(* of a slot are always equal, and frame_seq and frame_count, too.         *)
(***************************************************************************)
EXTENDS Integers, Sequences, FiniteSets

CONSTANTS
  Chn,         \* channels; each has at most one writer
  RecType,     \* recording types (continuous, motion, ...)
  NChunks,     \* data chunks of a disk
  ChunkUnits,  \* alignment units of a chunk
  FrameUnits,  \* sizes of the frame records that arrive, in units
  NSlots,      \* slots of the index ring of a disk
  ScanMax,     \* how far rsdk_index_write looks back (8192)
  NoSeg,       \* seg_id 0, the id in a slot that was never written
  MaxSegSeq    \* bound: segments a channel starts on one disk

Chunk == 0 .. NChunks - 1
Unit  == 0 .. ChunkUnits - 1
Slot  == 0 .. NSlots - 1
Seg   == Chn \X (1 .. MaxSegSeq)

\* seg_id packs 24 bits of the sequence number, so MaxSegSeq stays below 2^24.
ASSUME FormatAssumption ==
  /\ NChunks \in Nat \ {0} /\ ChunkUnits \in Nat \ {0}
  /\ NSlots \in Nat \ {0} /\ ScanMax \in Nat \ {0}
  /\ FrameUnits \subseteq Nat \ {0}
  /\ MaxSegSeq \in 1 .. (2^24 - 1)
  /\ RecType # {}
  /\ NoSeg \notin Seg

\* A unit of the data region: the frame record it belongs to, and whether the
\* record's header starts here.
Cell == [seg : Seg \cup {NoSeg}, seq : Nat, len : Nat, hdr : {"yes", "no"}]
Blank == [seg |-> NoSeg, seq |-> 0, len |-> 0, hdr |-> "no"]

IndexSlot == [st : {"free", "open", "valid"}, seg : Seg \cup {NoSeg},
              type : RecType, chunk : Chunk, count : Nat, bytes : 0 .. ChunkUnits,
              endOff : Nat]

AnyType == CHOOSE t \in RecType : TRUE
Unwritten == [st |-> "free", seg |-> NoSeg, type |-> AnyType, chunk |-> 0,
              count |-> 0, bytes |-> 0, endOff |-> 0]

-----------------------------------------------------------------------------
(* The segment index: ix is the ring of slots and its index_next.            *)

Scan == IF NSlots < ScanMax THEN NSlots ELSE ScanMax
Back(ix, k) == (ix.next + NSlots - k) % NSlots
Live(e) == e.st \in {"open", "valid"}
Names(e, s) == Live(e) /\ e.seg = s
NeverWritten(e) == e.st = "free" /\ e.seg = NoSeg

\* The first slot, looking back from index_next, that names the segment; the
\* search gives up at a slot that was never written.
Found(ix, s) ==
  {k \in 1 .. Scan :
     /\ Names(ix.slot[Back(ix, k)], s)
     /\ \A j \in 1 .. k - 1 : /\ ~Names(ix.slot[Back(ix, j)], s)
                              /\ ~NeverWritten(ix.slot[Back(ix, j)])}

\* The slot that rsdk_index_write(e) writes.
Target(ix, e) ==
  IF Found(ix, e.seg) # {} THEN Back(ix, CHOOSE k \in Found(ix, e.seg) : TRUE)
  ELSE ix.next

\* Bug for the mutation runs: no upsert.
IndexAppend(ix, e) == [slot |-> [ix.slot EXCEPT ![ix.next] = e], next |-> (ix.next + 1) % NSlots]

IndexWrite(ix, e) ==
  [slot |-> [ix.slot EXCEPT ![Target(ix, e)] = e],
   next |-> IF Found(ix, e.seg) # {} THEN ix.next ELSE (ix.next + 1) % NSlots]

Freed(e) == [e EXCEPT !.st = "free"]
InvalidateChunk(ix, k) ==
  [slot |-> [i \in Slot |-> IF Live(ix.slot[i]) /\ ix.slot[i].chunk = k
                            THEN Freed(ix.slot[i]) ELSE ix.slot[i]],
   next |-> ix.next]

LiveIn(ix) == {e \in {ix.slot[i] : i \in Slot} : Live(e)}

\* rsdk_index_query without its filters: the segments a search returns.
ValidIn(ix) == {e \in LiveIn(ix) : e.st = "valid"}

-----------------------------------------------------------------------------
(* The player on a segment that a search returned; cells is its chunk.       *)
(* Frames are named by their segment and sequence number; a missing frame    *)
(* header ends the walk.                                                     *)

Walk(cells, e) ==
  LET walk[off \in 0 .. ChunkUnits] ==
        IF off > e.endOff \/ off >= ChunkUnits THEN <<>>
        ELSE IF cells[off].hdr = "no" THEN <<>>
        ELSE <<<<cells[off].seg, cells[off].seq>>>> \o walk[off + cells[off].len]
  IN walk
Replay(cells, e) == Walk(cells, e)[0]

\* What the player should return: the frames of the segment, each once, in order.
Frames(e) == [i \in 1 .. e.count |-> <<e.seg, i - 1>>]

(***************************************************************************)
(* The records of a segment tile its extent: the first is at offset 0, the *)
(* next begins where one ends, in order, and the last one is at endOff.    *)
(***************************************************************************)
Tiled(cells, e) ==
  /\ cells[0].hdr = "yes" /\ cells[0].seq = 0
  /\ \A u \in Unit : u < e.bytes =>
       /\ cells[u].seg = e.seg
       /\ cells[u].hdr = "yes" =>
            LET v == u + cells[u].len IN
            /\ u < v /\ v <= e.bytes /\ u <= e.endOff /\ cells[u].seq < e.count
            /\ IF v < e.bytes THEN cells[v].hdr = "yes" /\ cells[v].seq = cells[u].seq + 1
               ELSE u = e.endOff /\ cells[u].seq = e.count - 1
  /\ e.endOff < e.bytes /\ 0 < e.count
=============================================================================
