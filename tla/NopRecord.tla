------------------------------ MODULE NopRecord ------------------------------
(***************************************************************************)
(* The segment recorder of one NOP channel (svc_record.c): frames of the   *)
(* encoder and detections of the event hub become segment files, an index  *)
(* of at most MaxSegments of them, and in event mode clips that begin with *)
(* the buffered frames before the trigger.                                 *)
(*                                                                         *)
(* Both sinks run under the engine's mutex, so each call is one step.      *)
(***************************************************************************)
EXTENDS Integers, Sequences, SequencesExt, FiniteSets

CONSTANTS
  Types,        \* types of detections
  SegmentLen,   \* segment_seconds
  PostLen,      \* post_record_seconds
  EventMax,     \* event_max_seconds
  MaxSegments,
  PreCap,       \* frames the pre-record ring holds
  Ticks,        \* by how much the timestamp of a frame may differ from the last
  MaxFrames,    \* bound on the frames of a behaviour
  MaxRestarts   \* bound on the restarts of the engine

ASSUME RecordAssumption ==
  /\ {SegmentLen, PostLen, EventMax, MaxSegments} \subseteq Nat \ {0}
  /\ {PreCap, MaxFrames, MaxRestarts} \subseteq Nat
  /\ Ticks \subseteq Int

VARIABLES
  mode,      \* "continuous" or "event", the configuration of the engine
  frames,    \* the frames that arrived; a frame is known by its place in it
  seg,       \* the open segment: open, start (which names its file), last, mask
  index,     \* the listed segments, oldest first; `first' is history
  pre,       \* the pre-record ring, oldest first
  lastTs,    \* last_frame_ms
  clip,      \* event mode: recording, trigger (its time), pending, mask
  file,      \* the files of the channel, by start time: the frames in each
  restarts

vars == <<mode, frames, seg, index, pre, lastTs, clip, file, restarts>>

Frame == [key : BOOLEAN, ts : Nat]
NoClip == [recording |-> FALSE, trigger |-> 0, pending |-> FALSE, mask |-> {}]
NoSegment == [open |-> FALSE, start |-> 0, last |-> 0, mask |-> {}]
Later(a, b) == IF a > b THEN a ELSE b

\* The engine of svc_record.c: the pre-record ring, the open files, the index.
TypeOK ==
  /\ mode \in {"continuous", "event"}
  /\ frames \in Seq(Frame) /\ lastTs \in Nat /\ restarts \in 0 .. MaxRestarts
  /\ seg \in [open : BOOLEAN, start : Nat, last : Nat, mask : SUBSET Types]
  /\ clip \in [recording : BOOLEAN, trigger : Nat, pending : BOOLEAN, mask : SUBSET Types]
  /\ Len(pre) <= PreCap /\ \A i \in DOMAIN pre : pre[i] \in DOMAIN frames
  /\ Len(index) <= MaxSegments
  /\ \A s \in DOMAIN file : file[s] \in Seq(1 .. MaxFrames)
  /\ mode = "event" => seg.open = clip.recording
  /\ clip.pending = (clip.mask # {})

Init ==
  /\ mode \in {"continuous", "event"}
  /\ frames = <<>> /\ seg = NoSegment /\ index = <<>> /\ pre = <<>>
  /\ lastTs = 0 /\ clip = NoClip /\ file = <<>> /\ restarts = 0

-----------------------------------------------------------------------------
(* The disk: mux_open creates or truncates, mux_write appends, remove. *)

Created(fs, s) == [p \in DOMAIN fs \cup {s} |-> IF p = s THEN <<>> ELSE fs[p]]
Appended(fs, s, ns) == [fs EXCEPT ![s] = @ \o ns]
Without(fs, s) == [p \in DOMAIN fs \ {s} |-> fs[p]]

\* bug: the ring forgets the oldest segment and leaves its file
ReclaimNone(fs) == fs
\* record_index_add_locked: the ring of segments is full, the oldest goes.
Reclaim(fs) == IF Len(index) = MaxSegments THEN Without(fs, index[1].start) ELSE fs
Listed(last) ==
  Append(IF Len(index) = MaxSegments THEN Tail(index) ELSE index,
         [start |-> seg.start, end |-> last, mask |-> seg.mask,
          first |-> file[seg.start][1]])

Elapsed(now, since) == IF now >= since THEN now - since ELSE 0

\* record_open_segment_locked, and the frames that are written at once.
Open(fs, start, ns, mask) ==
  /\ seg' = [open |-> TRUE, start |-> start, mask |-> mask,
             last |-> Max({start} \cup {frames'[n].ts : n \in Range(ns)})]
  /\ file' = Appended(Created(fs, start), start, ns)

Write(n) ==
  /\ seg' = [seg EXCEPT !.last = Later(@, frames'[n].ts)]
  /\ file' = Appended(file, seg.start, <<n>>)

Push(n) == pre' = IF PreCap = 0 THEN pre
                  ELSE Append(IF Len(pre) = PreCap THEN Tail(pre) ELSE pre, n)

-----------------------------------------------------------------------------
(* record_on_frame_locked. *)

Arrive(f) ==
  /\ Len(frames) < MaxFrames
  /\ frames' = Append(frames, f) /\ lastTs' = f.ts
  /\ UNCHANGED <<mode, restarts>>

This == Len(frames')

Rotates(f) == seg.open /\ f.key /\ Elapsed(f.ts, seg.start) >= SegmentLen

ContinuousFrame(f) ==
  /\ mode = "continuous" /\ Arrive(f)
  /\ UNCHANGED <<pre, clip>>
  /\ \/ /\ seg.open /\ ~Rotates(f) /\ Write(This)
        /\ UNCHANGED index
     \/ /\ Rotates(f) /\ Open(Reclaim(file), f.ts, <<This>>, {})
        /\ index' = Listed(seg.last)
     \/ /\ Rotates(f) /\ file' = Reclaim(file)     \* mux_open fails
        /\ seg' = [seg EXCEPT !.open = FALSE] /\ index' = Listed(seg.last)
     \/ /\ ~seg.open /\ f.key /\ Open(file, f.ts, <<This>>, {})
        /\ UNCHANGED index
     \/ ~seg.open /\ UNCHANGED <<seg, file, index>>   \* no key frame, or mux_open fails

\* A trigger waits for its key frame.
PendingFrame(f) ==
  /\ mode = "event" /\ clip.pending /\ Arrive(f)
  /\ UNCHANGED index
  /\ \/ ~f.key /\ Push(This) /\ UNCHANGED <<seg, file, clip>>
     \/ /\ f.key /\ Open(file, f.ts, <<This>>, clip.mask)
        /\ clip' = [recording |-> TRUE, trigger |-> f.ts, pending |-> FALSE, mask |-> {}]
        /\ UNCHANGED pre
     \/ f.key /\ UNCHANGED <<seg, file, clip, pre>>   \* mux_open fails

\* bug: the end of the clip is measured from its start
EndsFromStart(f) == Elapsed(f.ts, seg.start) >= EventMax
ClipEnds(f) == \/ Elapsed(f.ts, clip.trigger) >= PostLen
               \/ Elapsed(f.ts, seg.start) >= EventMax

ClipFrame(f) ==
  /\ mode = "event" /\ clip.recording /\ ~ClipEnds(f) /\ Arrive(f) /\ Write(This)
  /\ UNCHANGED <<index, pre, clip>>

ClipLastFrame(f) ==
  /\ mode = "event" /\ clip.recording /\ ClipEnds(f) /\ Arrive(f)
  /\ LET written == Appended(file, seg.start, <<This>>) IN
     /\ file' = Reclaim(written) /\ index' = Listed(Later(seg.last, f.ts))
  /\ seg' = [seg EXCEPT !.open = FALSE, !.last = Later(@, f.ts)]
  /\ clip' = [clip EXCEPT !.recording = FALSE]
  /\ UNCHANGED pre

IdleFrame(f) ==
  /\ mode = "event" /\ ~clip.recording /\ ~clip.pending /\ Arrive(f) /\ Push(This)
  /\ UNCHANGED <<seg, index, clip, file>>

-----------------------------------------------------------------------------
(* record_event_sink. *)

TagOpen(t) ==
  /\ mode = "continuous" /\ seg.open
  /\ seg' = [seg EXCEPT !.mask = @ \cup {t}]
  /\ UNCHANGED clip

Extend(t) ==
  /\ mode = "event" /\ clip.recording
  /\ clip' = [clip EXCEPT !.trigger = lastTs]
  /\ seg' = [seg EXCEPT !.mask = @ \cup {t}]

KeysBefore == {i \in DOMAIN pre : frames[pre[i]].key}
\* bug: the clip begins at the oldest buffered frame
FromOldest == pre
FromKey == SubSeq(pre, CHOOSE i \in KeysBefore : \A j \in KeysBefore : i <= j, Len(pre))

AfterFlush == <<>>

\* The clip starts at the oldest key frame of the ring, and the ring is empty.
OpenPreroll(t) ==
  /\ mode = "event" /\ ~clip.recording /\ KeysBefore # {}
  /\ UNCHANGED <<mode, frames, index, lastTs, restarts>>
  /\ \/ /\ Open(file, frames[Head(FromKey)].ts, FromKey, {t})
        /\ clip' = [clip EXCEPT !.recording = TRUE, !.trigger = lastTs]
        /\ pre' = AfterFlush
     \/ UNCHANGED <<seg, file, clip, pre>>   \* mux_open fails, the trigger is lost

Postpone(t) ==
  /\ mode = "event" /\ ~clip.recording /\ KeysBefore = {}
  /\ clip' = [clip EXCEPT !.pending = TRUE, !.mask = @ \cup {t}]
  /\ UNCHANGED seg

Event(t) ==
  \/ /\ TagOpen(t) \/ Extend(t) \/ Postpone(t)
     /\ UNCHANGED <<mode, frames, index, pre, lastTs, file, restarts>>
  \/ OpenPreroll(t)

\* nop_record_destroy, and a nop_record_create for the same channel: the new
\* engine starts with an empty index.
Restart ==
  /\ restarts < MaxRestarts
  /\ restarts' = restarts + 1
  /\ file' = IF seg.open THEN Reclaim(file) ELSE file
  /\ seg' = NoSegment /\ index' = <<>> /\ pre' = <<>> /\ lastTs' = 0 /\ clip' = NoClip
  /\ UNCHANGED <<mode, frames>>

Stamp(dt) == IF frames = <<>> THEN 1 + dt ELSE frames[Len(frames)].ts + dt

Next ==
  \/ \E k \in BOOLEAN, dt \in Ticks :
       LET f == [key |-> k, ts |-> Stamp(dt)] IN
       /\ f.ts > 0
       /\ \/ ContinuousFrame(f) \/ PendingFrame(f) \/ ClipFrame(f) \/ ClipLastFrame(f)
          \/ IdleFrame(f)
  \/ \E t \in Types : Event(t)
  \/ Restart

Spec == Init /\ [][Next]_vars

-----------------------------------------------------------------------------
(* Properties. *)

Consecutive(ns) == \A i \in 1 .. Len(ns) - 1 : ns[i + 1] = ns[i] + 1
ClockForward == \A i \in 1 .. Len(frames) - 1 : frames[i].ts <= frames[i + 1].ts

(***************************************************************************)
(* Every segment, with or without pre-roll, after failed opens and         *)
(* postponed triggers, begins with a key frame and has every frame from    *)
(* there to its last: it can be decoded by itself, without a gap.          *)
(***************************************************************************)
Decodable ==
  \A s \in DOMAIN file :
    file[s] # <<>> /\ frames[file[s][1]].key /\ Consecutive(file[s])

(***************************************************************************)
(* No frame is in two segments, and the listed segments follow each other  *)
(* in the order of their frames, the open one last.                        *)
(***************************************************************************)
FilesInOrder ==
  ClockForward /\ restarts = 0 =>
    LET names == [i \in DOMAIN index |-> index[i].start]
                   \o (IF seg.open THEN <<seg.start>> ELSE <<>>)
    IN  \A i \in 1 .. Len(names) - 1 :
          file[names[i]][Len(file[names[i]])] < file[names[i + 1]][1]

(***************************************************************************)
(* The files on the disk are those of the listed segments and of the open  *)
(* one, with the frames they were listed for: the reclaim of a full index  *)
(* deletes just the oldest. A clock that goes back breaks it, for two      *)
(* segments can then have one name; so does a restart, see SegmentsBounded. *)
(***************************************************************************)
FilesAreListed ==
  ClockForward /\ restarts = 0 =>
    /\ DOMAIN file = {index[i].start : i \in DOMAIN index}
                       \cup (IF seg.open THEN {seg.start} ELSE {})
    /\ \A i \in DOMAIN index : file[index[i].start][1] = index[i].first

(***************************************************************************)
(* A clip goes on only as long as the last trigger is recent on the media  *)
(* clock, also when that clock steps back; and while a trigger waits for a *)
(* key frame none is in the ring, so the pre-roll it could have had is not *)
(* given away.                                                             *)
(***************************************************************************)
ClipWindow ==
  /\ clip.recording => Elapsed(lastTs, clip.trigger) < PostLen
  /\ clip.pending => ~clip.recording /\ KeysBefore = {}

\* nop_record.h: "Overwrite: reclaim oldest beyond this" (max_segments).
SegmentsBounded == Cardinality(DOMAIN file) <= MaxSegments + 1

\* What holds of the files at every moment: in order, without overlap, and those that are listed.
FilesKept == TypeOK /\ FilesInOrder /\ FilesAreListed
=============================================================================
