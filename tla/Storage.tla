------------------------------- MODULE Storage -------------------------------
(***************************************************************************)
(* The storage manager (components/storage): which disks it finds, how it  *)
(* assembles them into the group the recorder writes to, what its tick     *)
(* tells (hot-plug, health, a full group), and the format that a command   *)
(* asks for while the group is open (app/router/nvr_cmd_router.c).         *)
(*                                                                         *)
(* The group keeps the superblocks it read at the start; a format writes   *)
(* another one under it.  Of the recorder only what meets this is here: a  *)
(* segment per chunk, its slot in the index, and the flushes (RsdkRecorder *)
(* and RsdkCrash have the rest).  A generation is a superblock with its    *)
(* key: a format makes a new one.                                          *)
(*                                                                         *)
(* A disk plugged in while the program runs is only looked at by the next  *)
(* start (NVR_STG_EVT_DISK_ADDED is printed), so such events are left out. *)
(* NVR_DISK_FOREIGN and _OURS_OTHER are never given.                       *)
(***************************************************************************)
EXTENDS Integers, Sequences, FiniteSets

CONSTANTS
  NDisks,      \* disks, in the order of /sys/block
  NChunks,     \* data chunks of a disk
  MaxFormats,  \* formats in a behaviour (a bound)
  MaxFaults,   \* disks that leave or turn read-only in a behaviour (a bound)
  Backlog      \* uevents the socket holds

StorageAssumption ==
  /\ {NDisks, NChunks} \subseteq Nat \ {0} /\ {MaxFormats, MaxFaults, Backlog} \subseteq Nat

VARIABLES
  hw,       \* a disk is there; the kernel has it read-only
  sb,       \* the superblock on each disk
  index,    \* the index on each disk: the generation of the slot of each chunk, 0 if none
  table,    \* nvr_storage.disks
  group,    \* the disks of nvr_storage.group, none if it is NULL
  mem,      \* the superblocks that the group keeps in memory
  current,  \* the chunk that is recorded on each disk, NChunks if none
  uevents,  \* disks whose removal the socket has to tell
  main,     \* where the main thread is, and at which disk of the tick
  policy,   \* storage.hdd_full of the configuration
  stopped,  \* nvr_rec_sched.stopped
  formats,  \* history: how many formats there were, and the last answered with OK on each disk
  alarms,   \* history: DISK_FAILED alarms of each disk in this start
  faults    \* how many faults there were

storageVars == <<hw, sb, index, table, group, mem, current, uevents, main, policy, stopped, formats, alarms, faults>>

Disk == 0 .. NDisks - 1
Chunk == 0 .. NChunks - 1
Generation == 0 .. NDisks + MaxFormats
Superblock ==
  [generation : Generation, index : {0}, count : {1}, next : 0 .. NChunks, wrapped : BOOLEAN,
   full : {"overwrite", "stop"}]
DiskInfo ==
  [state : {"absent", "unknown", "ours", "active", "failed", "offline"}, ok : BOOLEAN, index : {0}, count : {0, 1}]

\* rsdk_format numbers every disk 0 of a group of 1.
Formatted(generation) ==
  [generation |-> generation, index |-> 0, count |-> 1, next |-> 0, wrapped |-> FALSE, full |-> policy]
Absent == [state |-> "absent", ok |-> FALSE, index |-> 0, count |-> 0]
NoSlots == [c \in Chunk |-> 0]

Opens(d) == hw[d].there /\ ~hw[d].readOnly
Up == main.at \notin {"down", "scan", "assemble"}

StorageInit ==
  /\ hw = [d \in Disk |-> [there |-> TRUE, readOnly |-> FALSE]]
  /\ policy \in {"overwrite", "stop"}
  /\ sb = [d \in Disk |-> Formatted(d + 1)]
  /\ index = [d \in Disk |-> NoSlots]
  /\ table = [d \in Disk |-> Absent]
  /\ group = {} /\ mem = sb /\ current = [d \in Disk |-> NChunks]
  /\ uevents = <<>>
  /\ main = [at |-> "scan", disk |-> 0]
  /\ stopped = FALSE
  /\ formats = [made |-> NDisks, last |-> [d \in Disk |-> d + 1]]
  /\ alarms = [d \in Disk |-> 0] /\ faults = 0

-----------------------------------------------------------------------------
(* The start: nvr_storage_scan and nvr_storage_assemble.                    *)

Goto(at, d) == main' = [at |-> at, disk |-> d]

\* nvr_storage_identify opens the disk for writing: a read-only one stays unknown.
Identified(d) ==
  IF ~hw[d].there THEN Absent
  ELSE IF ~Opens(d) THEN [state |-> "unknown", ok |-> FALSE, index |-> 0, count |-> 0]
  ELSE [state |-> "ours", ok |-> TRUE, index |-> sb[d].index, count |-> sb[d].count]

Scan ==
  /\ main.at = "scan"
  /\ table' = [d \in Disk |-> Identified(d)]
  /\ Goto("assemble", 0)
  /\ UNCHANGED <<hw, sb, index, group, mem, current, uevents, policy, stopped, formats, alarms, faults>>

Ours == {d \in Disk : table[d].state \in {"ours", "active"}}
Expect == CHOOSE n \in {table[d].count : d \in Ours} : \A d \in Ours : table[d].count <= n
\* The last disk of an index takes its place.
Placed(ours, expect) ==
  {d \in ours : table[d].index < expect /\ \A e \in ours : table[e].index = table[d].index => e <= d}

\* rsdk_group_open opens all of them or none.
Assemble ==
  /\ main.at = "assemble"
  /\ LET found == IF Ours = {} THEN {} ELSE Placed(Ours, Expect)
         opened == found # {} /\ \A d \in found : Opens(d)
     IN  /\ group' = IF opened THEN found ELSE {}
         /\ mem' = IF opened THEN [d \in Disk |-> IF d \in found THEN sb[d] ELSE mem[d]] ELSE mem
         /\ table' = IF opened THEN [d \in Disk |-> IF d \in Ours THEN [table[d] EXCEPT !.state = "active"]
                                                    ELSE table[d]]
                     ELSE table
  /\ Goto("poll", 0)
  /\ UNCHANGED <<hw, sb, index, current, uevents, policy, stopped, formats, alarms, faults>>

-----------------------------------------------------------------------------
(* The tick of the main loop: nvr_storage_tick.                             *)

\* stg_hotplug_poll reads all that is there.
Poll ==
  /\ main.at = "poll"
  /\ table' = [d \in Disk |-> IF table[d].state # "absent" /\ \E i \in 1 .. Len(uevents) : uevents[i] = d
                              THEN [table[d] EXCEPT !.state = "offline"] ELSE table[d]]
  /\ uevents' = <<>>
  /\ Goto("health", 0)
  /\ UNCHANGED <<hw, sb, index, group, mem, current, policy, stopped, formats, alarms, faults>>

\* nvr_storage_read_health: the flag of a disk that left cannot be read and counts as clear.
Healthy(d) == ~(hw[d].there /\ hw[d].readOnly)
Fails(d) == table[d].ok /\ ~Healthy(d) /\ table[d].state = "active"

\* One disk of the loop over the health.
Health ==
  /\ main.at = "health"
  /\ LET d == main.disk
         polled == table[d].state \notin {"absent", "offline"}
     IN  /\ table' = IF polled THEN [table EXCEPT ![d].ok = Healthy(d),
                                                  ![d].state = IF Fails(d) THEN "failed" ELSE @]
                     ELSE table
         /\ alarms' = IF polled /\ Fails(d) THEN [alarms EXCEPT ![d] = @ + 1] ELSE alarms
         /\ IF d + 1 = NDisks THEN Goto("full", 0) ELSE Goto("health", d + 1)
  /\ UNCHANGED <<hw, sb, index, group, mem, current, uevents, policy, stopped, formats, faults>>

\* A disk that came round makes NVR_STG_EVT_FULL, which nvr_rec_on_storage_evt looks at.
Full ==
  /\ main.at = "full"
  /\ stopped' = (stopped \/ (policy = "stop" /\ \E d \in group : mem[d].wrapped))
  /\ Goto("poll", 0)
  /\ UNCHANGED <<hw, sb, index, table, group, mem, current, uevents, policy, formats, alarms, faults>>

-----------------------------------------------------------------------------
(* The recorder on the group: rsdk_rec.c, rsdk_storgedev.c, rsdk_index.c.   *)

\* Nothing is written to a disk that is gone or read-only, and nobody looks at the result.
Written(d, on, what) == IF Opens(d) THEN what ELSE on
Flushed(m) == [d \in Disk |-> IF d \in group THEN Written(d, sb[d], m[d]) ELSE sb[d]]

Refuses(d) == mem[d].full = "stop" /\ mem[d].next >= NChunks
Advanced(d) ==
  IF mem[d].next + 1 < NChunks \/ mem[d].full = "stop" THEN [mem[d] EXCEPT !.next = @ + 1]
  ELSE [mem[d] EXCEPT !.next = 0, !.wrapped = TRUE]

\* The slot of the segment that ends is found and written in place, or appended again.
Finalized(d) == IF current[d] = NChunks THEN index[d] ELSE [index[d] EXCEPT ![current[d]] = mem[d].generation]

\* bug: the slot is written and the superblock is not flushed after it
NotFlushed(d) == sb[d]
\* rsdk_index_write flushes the superblock of the group after the slot.
FlushedAfter(d) == Written(d, sb[d], Advanced(d))

\* A segment ends and the next one begins (rsdk_balance_pick goes by the load alone): its chunk, its slot, a flush.
Record(d) ==
  /\ Up /\ d \in group
  /\ \A e \in group : mem[d].next <= mem[e].next
  /\ ~Refuses(d)
  /\ mem' = [mem EXCEPT ![d] = Advanced(d)]
  /\ index' = [index EXCEPT ![d] = Written(d, @, [Finalized(d) EXCEPT ![mem[d].next] = mem[d].generation])]
  /\ sb' = [sb EXCEPT ![d] = FlushedAfter(d)]
  /\ current' = [current EXCEPT ![d] = mem[d].next]
  /\ UNCHANGED <<hw, table, group, uevents, main, policy, stopped, formats, alarms, faults>>

\* The disk is full: the segment ends, its writer stays where it is.
RecordRefused(d) ==
  /\ Up /\ d \in group
  /\ Refuses(d) /\ current[d] # NChunks
  /\ index' = [index EXCEPT ![d] = Written(d, @, Finalized(d))]
  /\ sb' = IF index[d][current[d]] = 0 THEN [sb EXCEPT ![d] = Written(d, @, mem[d])] ELSE sb
  /\ UNCHANGED <<hw, table, group, mem, current, uevents, main, policy, stopped, formats, alarms, faults>>

-----------------------------------------------------------------------------
(* formatStorage, from the thread of the router.                            *)

\* The first disk of the table, whatever its state; the open group is not told.
First == CHOOSE d \in Disk : table[d].state # "absent" /\ \A e \in Disk : table[e].state # "absent" => d <= e

Format ==
  /\ Up /\ formats.made < NDisks + MaxFormats
  /\ \E d \in Disk : table[d].state # "absent"
  /\ Opens(First)
  /\ sb' = [sb EXCEPT ![First] = Formatted(formats.made + 1)]
  /\ index' = [index EXCEPT ![First] = NoSlots]
  /\ formats' = [made |-> formats.made + 1, last |-> [formats.last EXCEPT ![First] = formats.made + 1]]
  /\ UNCHANGED <<hw, table, group, mem, current, uevents, main, policy, stopped, alarms, faults>>

-----------------------------------------------------------------------------
(* The kernel, the stop and the power.                                      *)

Unplug(d) ==
  /\ faults < MaxFaults /\ hw[d].there
  /\ hw' = [hw EXCEPT ![d].there = FALSE]
  /\ uevents' = IF main.at # "down" /\ Len(uevents) < Backlog THEN Append(uevents, d) ELSE uevents
  /\ faults' = faults + 1
  /\ UNCHANGED <<sb, index, table, group, mem, current, main, policy, stopped, formats, alarms>>

TurnReadOnly(d) ==
  /\ faults < MaxFaults /\ Opens(d)
  /\ hw' = [hw EXCEPT ![d].readOnly = TRUE]
  /\ faults' = faults + 1
  /\ UNCHANGED <<sb, index, table, group, mem, current, uevents, main, policy, stopped, formats, alarms>>

Closed ==
  /\ table' = [d \in Disk |-> Absent]
  /\ group' = {} /\ current' = [d \in Disk |-> NChunks]
  /\ uevents' = <<>> /\ stopped' = FALSE /\ alarms' = [d \in Disk |-> 0]
  /\ Goto("down", 0)

\* nvr_app_stop: every writer ends its segment and flushes all disks of the group.
Stop ==
  /\ main.at = "poll"
  /\ index' = [d \in Disk |-> IF d \in group THEN Written(d, index[d], Finalized(d)) ELSE index[d]]
  /\ sb' = IF \E d \in group : current[d] # NChunks THEN Flushed(mem) ELSE sb
  /\ Closed
  /\ UNCHANGED <<hw, mem, policy, formats, faults>>

\* The power fails; the disk operations above are whole (RsdkCrash cuts them).
Kill ==
  /\ main.at # "down"
  /\ Closed
  /\ UNCHANGED <<hw, sb, index, mem, policy, formats, faults>>

\* The next start, maybe with another policy and with the disks put back or exchanged for working ones.
Start ==
  /\ main.at = "down"
  /\ policy' \in {"overwrite", "stop"}
  /\ hw' \in {hw, [d \in Disk |-> [there |-> TRUE, readOnly |-> FALSE]]}
  /\ Goto("scan", 0)
  /\ UNCHANGED <<sb, index, table, group, mem, current, uevents, stopped, formats, alarms, faults>>

Tick == Poll \/ Health \/ Full

StorageNext ==
  \/ Scan \/ Assemble \/ Tick \/ Format \/ Stop \/ Kill \/ Start
  \/ \E d \in Disk : Record(d) \/ RecordRefused(d) \/ Unplug(d) \/ TurnReadOnly(d)

\* The main loop goes on.
StorageFairness == WF_storageVars(Tick)
StorageSpec == StorageInit /\ [][StorageNext]_storageVars
StorageFairSpec == StorageSpec /\ StorageFairness

-----------------------------------------------------------------------------
(* Properties. *)

\* The disks of storage_mgr.c, the superblocks on them and in memory, the main thread.
StorageTypeOK ==
  /\ hw \in [Disk -> [there : BOOLEAN, readOnly : BOOLEAN]]
  /\ {sb, mem} \subseteq [Disk -> Superblock]
  /\ index \in [Disk -> [Chunk -> Generation]] /\ current \in [Disk -> 0 .. NChunks]
  /\ table \in [Disk -> DiskInfo]
  /\ group \subseteq Disk /\ policy \in {"overwrite", "stop"} /\ stopped \in BOOLEAN
  /\ main \in [at : {"down", "scan", "assemble", "poll", "health", "full"}, disk : Disk]
  /\ formats.made \in NDisks .. NDisks + MaxFormats /\ alarms \in [Disk -> Nat]

\* rsdk_storgedev.c, storage_disk.c: whatever is formatted under an open group, what a search
\* finds on a disk can be decrypted with the superblock that is on it.
KeysMatch == \A d \in Disk : \A c \in Chunk : index[d][c] \in {0, sb[d].generation}

\* storage_mgr.c: a disk that fails is told once, and from then on it is not healthy again.
ReportedOnce == \A d \in Disk : alarms[d] <= 1 /\ (alarms[d] = 1 => table[d].state \in {"failed", "offline"})

\* storage_disk.c: a disk that is shown as ready is in the group, or gave its place to one of the same index.
ReadyOrDisplaced ==
  \A d \in Disk : table[d].state = "active" => \E e \in group : e >= d /\ table[e].index = table[d].index

\* rsdk_storgedev.c: the group and a disk of it disagree on the key only while no segment is listed there.
HeldKeys == \A d \in group : sb[d].generation = mem[d].generation \/ index[d] = NoSlots

\* nvr_app_stop: without a group no disk is active, and nothing was told.
DownIdle ==
  ~Up => /\ group = {}
         /\ \A d \in Disk : alarms[d] = 0 /\ table[d].state \in {"absent", "unknown", "ours"}

\* storage_disk.c: a disk of ours is alone in its group, whatever is formatted under it.
OursAlone == \A d \in Disk : table[d].state \in {"ours", "active"} => table[d].count = 1

\* The safety of the storage manager, with what makes it inductive.
StorageSafe ==
  /\ StorageTypeOK
  /\ KeysMatch /\ ReportedOnce /\ ReadyOrDisplaced
  /\ HeldKeys /\ DownIdle /\ OursAlone

\* storage_mgr.c: an active disk that turns read-only is told failed, unless it leaves or the program stops.
BadIsReported ==
  \A d \in Disk : (Up /\ table[d].state = "active" /\ hw[d].readOnly)
                    ~> (table[d].state \in {"failed", "offline"} \/ ~hw[d].there \/ ~Up)

\* nvr_storage.h:88: a format rebuilds the disk: what the next start finds is the superblock that it made.
FormatRebuilds ==
  main.at = "scan" => \A d \in Disk : sb[d].generation = formats.last[d]

\* nvr_storage.h: NVR_DISK_ACTIVE is a disk of the group.
ReadyIsUsed == \A d \in Disk : table[d].state = "active" => d \in group

\* storage_mgr.c:56: when the group is full and its policy is to stop, the tick stops the recording.
FullStops ==
  [][main.at = "full" /\ main'.at = "poll" /\ policy = "stop" /\ group # {} /\ (\A d \in group : Refuses(d))
       => stopped']_storageVars
==============================================================================
