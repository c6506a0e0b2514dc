------------------------------ MODULE RsdkCrash ------------------------------
(***************************************************************************)
(* The recorder of one disk under policy overwrite, down to the order of   *)
(* its pwrite and fsync calls, with crashes between any two of them: a     *)
(* "kill" loses the process (the page cache reaches the disk later), a     *)
(* "power" cut also loses any of the writes since the last fsync.          *)
(*                                                                         *)
(* A call changes the superblock and the SysTab in memory at once (a crash *)
(* loses them anyway) and leaves the disk operations it makes, in their    *)
(* order, in todo.  Calls do not overlap.                                  *)
(*                                                                         *)
(* Abstractions, besides those of RsdkFormat.  A sector reaches the disk   *)
(* whole or not at all, unless "tear" is among the faults: then a torn     *)
(* superblock fails its checksum and a torn SysTab, whose checksum is not  *)
(* looked at, mixes old and new fields (index_next and the seg_seq of the  *)
(* channels below 26 share a sector).  Of two unsynced writes to one place *)
(* the later one or none survives.  Slots and units are lost one by one,   *)
(* though some of them share a sector.  Encryption is on.                  *)
(***************************************************************************)
EXTENDS RsdkFormat

CONSTANTS
  Faults,     \* subset of {"kill", "power", "tear"}
  MaxCrashes  \* bound: crashes in a run

VARIABLES
  file,     \* what pread returns at each place of the disk
  platter,  \* what a power cut leaves there
  todo,     \* the disk operations left of the running call
  sb,       \* the superblock in memory: write_ptr_chunk and seq_epoch > 1
  st,       \* the SysTab in memory: index_next and seg_seq of each channel
  writer,   \* the rsdk_writer of each channel
  phase,    \* "up", "down" (crashed), "refused" (rsdk_dev_open failed)
  crashes,
  cut,      \* history: there was a power cut
  used,     \* history: the CTR nonces (seg_id, frame_seq) frames were encrypted with
  reused,   \* history: one of them was used twice
  kept      \* history: the finished segments in their order, Idle for one whose chunk was taken since

vars == <<file, platter, todo, sb, st, writer, phase, crashes, cut, used, reused, kept>>

Copy == {"main", "bak"}
Place == ({"sb", "next", "seq"} \X Copy) \cup ({"slot"} \X Slot) \cup ({"unit"} \X Chunk \X Unit)

Idle == [open |-> FALSE, chunk |-> 0, off |-> 0, seg |-> NoSeg, count |-> 0, endOff |-> 0]

Cells(k) == [u \in Unit |-> file[<<"unit", k, u>>]]
Ix == [slot |-> [i \in Slot |-> file[<<"slot", i>>]], next |-> st.next]

\* rsdk_format, then rsdk_dev_open.
Formatted ==
  LET super == [ok |-> TRUE, wptr |-> 0, wrapped |-> FALSE] IN
  [p \in Place |-> CASE p[1] = "sb"   -> super
                     [] p[1] = "next" -> 0
                     [] p[1] = "seq"  -> [c \in Chn |-> 0]
                     [] p[1] = "slot" -> Unwritten
                     [] p[1] = "unit" -> Blank]

Init ==
  /\ file = Formatted /\ platter = Formatted /\ todo = <<>>
  /\ sb = [ok |-> TRUE, wptr |-> 0, wrapped |-> FALSE]
  /\ st = [next |-> 0, seq |-> [c \in Chn |-> 0]]
  /\ writer = [c \in Chn |-> Idle]
  /\ phase = "up" /\ crashes = 0 /\ cut = FALSE
  /\ used = {} /\ reused = FALSE /\ kept = <<>>

-----------------------------------------------------------------------------
(* Disk operations. *)

Put(vals) == [op |-> "put", vals |-> vals]
Sync == [op |-> "sync"]
Finished(w) == [op |-> "finished", seg |-> w]   \* not an operation: finalize_seg of w returned
Taken(k) == [op |-> "taken", chunk |-> k]       \* not an operation: chunk k is given away

PutAt(p, v) == Put([q \in {p} |-> v])
PutCopy(k, b, t) ==
  <<PutAt(<<"sb", k>>, b),
    Put([q \in {"next", "seq"} \X {k} |-> IF q[1] = "next" THEN t.next ELSE t.seq])>>

\* Bug for the mutation runs: only the backup is synced.
FlushNoSync(b, t) == PutCopy("bak", b, t) \o <<Sync>> \o PutCopy("main", b, t)

\* rsdk_dev_flush: the backup first.
Flush(b, t) == PutCopy("bak", b, t) \o <<Sync>> \o PutCopy("main", b, t) \o <<Sync>>

\* Bug for the mutation runs: the slot is not synced.
IndexOpsNoSync(ix, e, b, t) ==
  <<PutAt(<<"slot", Target(ix, e)>>, e)>>
    \o IF Found(ix, e.seg) # {} THEN <<>>
       ELSE Flush(b, [t EXCEPT !.next = IndexWrite(ix, e).next])

\* rsdk_index_write: the slot is synced, and the SysTab flushed if it was appended.
IndexOps(ix, e, b, t) ==
  <<PutAt(<<"slot", Target(ix, e)>>, e), Sync>>
    \o IF Found(ix, e.seg) # {} THEN <<>>
       ELSE Flush(b, [t EXCEPT !.next = IndexWrite(ix, e).next])

\* rsdk_index_invalidate_chunk
ReclaimOps(ix, b, k) ==
  LET hit == {i \in Slot : Live(ix.slot[i]) /\ ix.slot[i].chunk = k} IN
  <<Taken(k)>> \o
  IF ~b.wrapped \/ hit = {} THEN <<>>
  ELSE <<Put([p \in {"slot"} \X hit |-> Freed(ix.slot[p[2]])]), Sync>>

-----------------------------------------------------------------------------
(* The steps of a call, on the superblock b, the SysTab t and the index ix.  *)

\* bug: the ring starts again at its second chunk
MovedToOne(b) == [ok |-> TRUE, wptr |-> IF b.wptr + 1 >= NChunks THEN 1 ELSE b.wptr + 1,
                  wrapped |-> b.wrapped \/ b.wptr + 1 >= NChunks]
\* rsdk_alloc_chunk
Moved(b) == [ok |-> TRUE, wptr |-> (b.wptr + 1) % NChunks,
             wrapped |-> b.wrapped \/ b.wptr + 1 >= NChunks]

SlotOf(w, flag) == [st |-> flag, seg |-> w.seg, type |-> AnyType, chunk |-> w.chunk,
                    count |-> w.count, bytes |-> w.off, endOff |-> w.endOff]

Closing(ix, w) == IF w.count = 0 THEN ix ELSE IndexWrite(ix, SlotOf(w, "valid"))
ClosingOps(ix, w) ==
  IF w.count = 0 THEN <<>>
  ELSE IndexOps(ix, SlotOf(w, "valid"), sb, st) \o <<Finished(w)>>

Reclaimed(ix, b, k) == IF b.wrapped THEN InvalidateChunk(ix, k) ELSE ix

Started(t, c) == [t EXCEPT !.seq[c] = @ + 1]
Fresh(t, c, k) == [open |-> TRUE, chunk |-> k, off |-> 0, seg |-> <<c, t.seq[c]>>,
                   count |-> 0, endOff |-> 0]

After(w, n) == [w EXCEPT !.off = @ + n, !.endOff = w.off, !.count = @ + 1]
FrameOp(w, n) ==
  [op |-> "frame", nonce |-> <<w.seg, w.count>>,
   vals |-> [p \in {"unit"} \X {w.chunk} \X (w.off .. w.off + n - 1) |->
               [seg |-> w.seg, seq |-> w.count, len |-> n,
                hdr |-> IF p[3] = w.off THEN "yes" ELSE "no"]]]

\* The segments on chunk k are given up.
Without(k) == [i \in 1 .. Len(kept) |-> IF kept[i].chunk = k THEN Idle ELSE kept[i]]

Calling == phase = "up" /\ todo = <<>>

\* rsdk_rec_open
OpenWriter(c) ==
  LET b == Moved(sb)  t == Started(st, c)  k == sb.wptr IN
  /\ Calling /\ ~writer[c].open /\ st.seq[c] < MaxSegSeq
  /\ sb' = b /\ st' = t
  /\ writer' = [writer EXCEPT ![c] = Fresh(t, c, k)]
  /\ todo' = ReclaimOps(Ix, b, k)
  /\ UNCHANGED <<file, platter, phase, crashes, cut, used, reused, kept>>

\* rsdk_rec_write_frame: the open slot is on disk before the first frame is.
FirstFrame(c, n) ==
  LET w == writer[c]  e == SlotOf(w, "open") IN
  /\ Calling /\ w.open /\ w.count = 0 /\ n <= ChunkUnits
  /\ st' = [st EXCEPT !.next = IndexWrite(Ix, e).next]
  /\ writer' = [writer EXCEPT ![c] = After(w, n)]
  /\ todo' = IndexOps(Ix, e, sb, st) \o <<FrameOp(w, n)>>
  /\ UNCHANGED <<file, platter, sb, phase, crashes, cut, used, reused, kept>>

NextFrame(c, n) ==
  LET w == writer[c] IN
  /\ Calling /\ w.open /\ w.count > 0 /\ w.off + n <= ChunkUnits
  /\ writer' = [writer EXCEPT ![c] = After(w, n)]
  /\ todo' = <<FrameOp(w, n)>>
  /\ UNCHANGED <<file, platter, sb, st, phase, crashes, cut, used, reused, kept>>

RollFrame(c, n) ==
  LET w  == writer[c]
      k  == sb.wptr
      b  == Moved(sb)
      x1 == Closing(Ix, w)
      t1 == Started([st EXCEPT !.next = x1.next], c)
      f  == Fresh(t1, c, k)
      e  == SlotOf(f, "open")
      x2 == Reclaimed(x1, b, k)
  IN
  /\ Calling /\ w.open /\ w.count > 0 /\ w.off + n > ChunkUnits /\ n <= ChunkUnits
  /\ st.seq[c] < MaxSegSeq
  /\ sb' = b
  /\ st' = [t1 EXCEPT !.next = IndexWrite(x2, e).next]
  /\ writer' = [writer EXCEPT ![c] = After(f, n)]
  /\ todo' = ClosingOps(Ix, w) \o ReclaimOps(x1, b, k) \o IndexOps(x2, e, b, t1)
             \o <<FrameOp(f, n)>>
  /\ UNCHANGED <<file, platter, phase, crashes, cut, used, reused, kept>>

\* rsdk_rec_close
CloseWriter(c) ==
  LET w == writer[c]  t == [st EXCEPT !.next = Closing(Ix, w).next] IN
  /\ Calling /\ w.open
  /\ st' = t
  /\ writer' = [writer EXCEPT ![c] = Idle]
  /\ todo' = ClosingOps(Ix, w) \o Flush(sb, t)
  /\ UNCHANGED <<file, platter, sb, phase, crashes, cut, used, reused, kept>>

-----------------------------------------------------------------------------
(* One disk operation of the running call. *)

Written(vals) == [p \in Place |-> IF p \in DOMAIN vals THEN vals[p] ELSE file[p]]

DiskStep ==
  /\ phase = "up" /\ todo # <<>>
  /\ todo' = Tail(todo)
  /\ LET o == Head(todo) IN
       \/ /\ o.op = "put"
          /\ file' = Written(o.vals)
          /\ UNCHANGED <<platter, used, reused, kept>>
       \/ /\ o.op = "frame"
          /\ file' = Written(o.vals)
          /\ used' = used \cup {o.nonce}
          /\ reused' = (reused \/ o.nonce \in used)
          /\ UNCHANGED <<platter, kept>>
       \/ /\ o.op = "sync"
          /\ platter' = file
          /\ UNCHANGED <<file, used, reused, kept>>
       \/ /\ o.op = "finished"
          /\ kept' = Append(kept, o.seg)
          /\ UNCHANGED <<file, platter, used, reused>>
       \/ /\ o.op = "taken"
          /\ kept' = Without(o.chunk)
          /\ UNCHANGED <<file, platter, used, reused>>
  /\ UNCHANGED <<sb, st, writer, phase, crashes, cut>>

Down ==
  /\ phase = "up" /\ crashes < MaxCrashes
  /\ crashes' = crashes + 1
  /\ phase' = "down"
  /\ todo' = <<>>
  /\ writer' = [c \in Chn |-> Idle]
  /\ sb' = [ok |-> TRUE, wptr |-> 0, wrapped |-> FALSE]
  /\ st' = [next |-> 0, seq |-> [c \in Chn |-> 0]]
  /\ UNCHANGED <<used, reused, kept>>

Kill == "kill" \in Faults /\ Down /\ UNCHANGED <<file, platter, cut>>

Dirty == {p \in Place : file[p] # platter[p]}
SameSector(p, q) == p = q \/ (p[1] \in {"next", "seq"} /\ q[1] \in {"next", "seq"} /\ p[2] = q[2])

PowerCut ==
  /\ "power" \in Faults
  /\ Down
  /\ \E lost \in SUBSET Dirty, torn \in SUBSET {p \in Dirty : p[1] = "sb"} :
       /\ torn \cap lost = {}
       /\ "tear" \notin Faults =>
            torn = {} /\ \A p, q \in Dirty : SameSector(p, q) => (p \in lost <=> q \in lost)
       /\ file' = [p \in Place |-> IF p \in lost THEN platter[p]
                                   ELSE IF p \in torn THEN [file[p] EXCEPT !.ok = FALSE]
                                   ELSE file[p]]
  /\ platter' = file'
  /\ cut' = TRUE

\* rsdk_dev_open: the backup is read only when the magic of the main copy is
\* gone, which a torn sector keeps; a wrong checksum is an error.
Mount ==
  /\ phase = "down"
  /\ IF file[<<"sb", "main">>].ok
     THEN /\ phase' = "up"
          /\ sb' = file[<<"sb", "main">>]
          /\ st' = [next |-> file[<<"next", "main">>], seq |-> file[<<"seq", "main">>]]
     ELSE phase' = "refused" /\ UNCHANGED <<sb, st>>
  /\ UNCHANGED <<file, platter, todo, writer, crashes, cut, used, reused, kept>>

Next ==
  \/ \E c \in Chn : OpenWriter(c) \/ CloseWriter(c)
  \/ \E c \in Chn, n \in FrameUnits : FirstFrame(c, n) \/ NextFrame(c, n) \/ RollFrame(c, n)
  \/ DiskStep \/ Kill \/ PowerCut \/ Mount

Spec == Init /\ [][Next]_vars

-----------------------------------------------------------------------------
(* Properties. *)

Searchable == phase = "up" /\ todo = <<>>

(***************************************************************************)
(* After a crash at any point the write pointer and the index pointer that *)
(* a mount reads are on the ring, whichever sectors reached the disk.      *)
(***************************************************************************)
TypeOK ==
  /\ phase \in {"up", "down", "refused"}
  /\ sb.wptr \in Chunk /\ sb.wrapped \in BOOLEAN
  /\ st.next \in Slot /\ st.seq \in [Chn -> 0 .. MaxSegSeq]
  /\ \A i \in Slot : file[<<"slot", i>>] \in IndexSlot
  /\ \A k \in Chunk, u \in Unit : file[<<"unit", k, u>>] \in Cell

(***************************************************************************)
(* A segment whose finalize_seg returned (its slot and, by the same fsync, *)
(* its frames are on the disk) survives every later crash: it is found and *)
(* replays exactly until the ring takes its chunk.                         *)
(***************************************************************************)
FinishedSurvive ==
  Searchable =>
    \A i \in 1 .. Len(kept) : kept[i] # Idle =>
      \E e \in ValidIn(Ix) : /\ e.seg = kept[i].seg /\ e.count = kept[i].count
                             /\ Replay(Cells(e.chunk), e) = Frames(e)

(***************************************************************************)
(* What a search returns can be replayed: all its frames are there and no  *)
(* others (design, section 7.3).  A power cut can break it: one fsync      *)
(* covers the valid slot and the frames before it.                         *)
(***************************************************************************)
SearchReplays ==
  Searchable => \A e \in ValidIn(Ix) : Replay(Cells(e.chunk), e) = Frames(e)

(***************************************************************************)
(* The same while only the process died: the pages it wrote reach the disk *)
(* in the end, and the open slot of a segment it left is not searched.     *)
(***************************************************************************)
KillReplays == ~cut => SearchReplays

(***************************************************************************)
(* Design 5.3: seg_id and frame_seq never repeat under one key, although   *)
(* the segment counter of a crashed run is read back from the disk.        *)
(***************************************************************************)
NonceUnique == ~reused

(***************************************************************************)
(* The ring gives up the oldest finished segment first, also after crashes *)
(* that forget how far the write pointer was.                              *)
(***************************************************************************)
OldestFirst ==
  [][\A i, j \in 1 .. Len(kept) :
       i < j /\ kept[i] # Idle /\ kept'[i] # Idle => kept'[j] = kept[j]]_vars

(***************************************************************************)
(* Design 7.2: segments left open by a crash are closed at startup.        *)
(***************************************************************************)
NoneLeftOpen ==
  Searchable /\ (\A c \in Chn : ~writer[c].open)
    => \A i \in Slot : file[<<"slot", i>>].st # "open"

\* What a mount after a crash finds: pointers on the ring, the finished segments, and what a search returns replays.
CrashSafe == TypeOK /\ FinishedSurvive /\ KillReplays
=============================================================================
