--------------------------- MODULE Storage_proofs ---------------------------
(***************************************************************************)
(* For any number of disks, chunks, formats and faults: what is listed on  *)
(* a disk can be read with the key that is on it, though a format writes   *)
(* another one under the open group; a failure is told once; and what is   *)
(* shown as ready is in the group or gave its place to a disk that is.     *)
(* HeldKeys carries the first, DownIdle the second, OursAlone the third.   *)
(***************************************************************************)
EXTENDS Storage, WellFoundedInduction, TLAPS

\* Some disk of a set comes last.
LEMMA LastDisk ==
  ASSUME StorageAssumption, NEW S, S \subseteq Disk, S # {}
  PROVE  \E d \in S : \A e \in S : e <= d
<1> DEFINE Behind == {NDisks - d : d \in S}
<1>1. NDisks \in Nat /\ \A d \in S : d \in Nat /\ NDisks - d \in Nat
  BY DEF StorageAssumption, Disk
<1>2. Behind \subseteq Nat /\ Behind # {}
  BY <1>1
<1>3. IsWellFoundedOn(OpToRel(<, Nat), Nat)
  BY NatLessThanWellFounded
<1> HIDE DEF Behind
<1>4. PICK x \in Behind : \A y \in Behind : ~ (<<y, x>> \in OpToRel(<, Nat))
  BY <1>2, <1>3, WFMin, Zenon
<1>5. \A y \in Behind : ~ (y < x)
  BY <1>2, <1>4 DEF OpToRel
<1>6. PICK d \in S : x = NDisks - d
  BY <1>4 DEF Behind
<1>7. \A e \in S : e <= d
  <2> SUFFICES ASSUME NEW e \in S PROVE e <= d
    OBVIOUS
  <2>1. NDisks - e \in Behind
    BY DEF Behind
  <2>2. ~ (NDisks - e < NDisks - d)
    BY <2>1, <1>5, <1>6
  <2> QED
    BY <2>2, <1>1
<1> QED
  BY <1>7

LEMMA InitSafe == ASSUME StorageAssumption, StorageInit PROVE StorageSafe
<1>1. NDisks \in Nat \ {0} /\ NChunks \in Nat \ {0} /\ MaxFormats \in Nat
  BY DEF StorageAssumption
<1>2. \A d \in Disk : d + 1 \in Generation
  BY <1>1 DEF Disk, Generation
<1>3. 0 \in Disk /\ 0 \in Generation /\ 0 \in 0 .. NChunks /\ NChunks \in 0 .. NChunks
  BY <1>1 DEF Disk, Generation
<1>4. StorageTypeOK
  <2>1. sb \in [Disk -> Superblock]
    BY <1>2, <1>3 DEF StorageInit, Formatted, Superblock
  <2>2. index \in [Disk -> [Chunk -> Generation]] /\ current \in [Disk -> 0 .. NChunks]
    BY <1>3 DEF StorageInit, NoSlots
  <2>3. table \in [Disk -> DiskInfo]
    BY DEF StorageInit, Absent, DiskInfo
  <2>4. formats.made \in NDisks .. NDisks + MaxFormats
    BY <1>1 DEF StorageInit
  <2> QED
    BY <1>3, <2>1, <2>2, <2>3, <2>4 DEF StorageInit, StorageTypeOK
<1>5. KeysMatch
  BY DEF StorageInit, KeysMatch, NoSlots
<1>6. ReportedOnce /\ ReadyOrDisplaced /\ HeldKeys /\ DownIdle /\ OursAlone
  BY DEF StorageInit, ReportedOnce, ReadyOrDisplaced, HeldKeys, DownIdle, OursAlone, Absent
<1> QED
  BY <1>4, <1>5, <1>6 DEF StorageSafe

-----------------------------------------------------------------------------
(* The start and the tick keep it. *)

LEMMA ScanSafe == ASSUME StorageAssumption, StorageSafe, Scan PROVE StorageSafe'
<1>1. 0 \in Disk
  BY DEF Disk, StorageAssumption
<1>2. /\ StorageTypeOK /\ main.at = "scan" /\ main' = [at |-> "assemble", disk |-> 0]
      /\ table' = [d \in Disk |-> Identified(d)]
      /\ UNCHANGED <<hw, sb, index, group, mem, current, uevents, policy, stopped, formats, alarms, faults>>
  BY DEF Scan, Goto, StorageSafe
<1>3. \A d \in Disk : Identified(d) \in DiskInfo /\ Identified(d).state \in {"absent", "unknown", "ours"}
  BY <1>2 DEF Identified, Absent, StorageTypeOK, DiskInfo, Superblock
<1>4. \A d \in Disk : Identified(d).state = "ours" => Identified(d).count = 1
  BY <1>2 DEF Identified, Absent, StorageTypeOK, DiskInfo, Superblock
<1>5. table' \in [Disk -> DiskInfo]
  BY <1>2, <1>3
<1>6. StorageTypeOK'
  BY <1>1, <1>2, <1>5 DEF StorageTypeOK
<1>7. \A d \in Disk : table'[d].state \in {"absent", "unknown", "ours"}
  BY <1>2, <1>3
<1>8. DownIdle'
  BY <1>2, <1>7 DEF StorageSafe, DownIdle, Up
<1>9. ReportedOnce' /\ ReadyOrDisplaced'
  BY <1>2, <1>7 DEF StorageSafe, DownIdle, Up, ReportedOnce, ReadyOrDisplaced
<1>10. OursAlone'
  BY <1>2, <1>4, <1>7 DEF OursAlone
<1>11. KeysMatch' /\ HeldKeys'
  BY <1>2 DEF StorageSafe, KeysMatch, HeldKeys
<1> QED
  BY <1>6, <1>8, <1>9, <1>10, <1>11 DEF StorageSafe

\* The disk that is put in the place of the only index is the last one of ours.
LEMMA PlacedLast ==
  ASSUME StorageAssumption, StorageTypeOK, OursAlone, Ours # {}
  PROVE  /\ Placed(Ours, Expect) \subseteq Ours
         /\ \A d \in Ours : \E e \in Placed(Ours, Expect) : e >= d
<1>1. Ours \subseteq Disk /\ \A d \in Ours : table[d].count = 1 /\ table[d].index = 0
  BY DEF Ours, OursAlone, StorageTypeOK, DiskInfo
<1>2. {table[d].count : d \in Ours} = {1}
  BY <1>1
<1>3. \A d \in Ours : table[d].count <= 1
  BY <1>1
<1>4. Expect = 1
  BY <1>2, <1>3 DEF Expect
<1>5. PICK d \in Ours : \A e \in Ours : e <= d
  BY <1>1, LastDisk
<1>6. d \in Placed(Ours, Expect)
  BY <1>1, <1>4, <1>5 DEF Placed
<1>7. \A e \in Ours : d >= e
  BY <1>1, <1>5 DEF Disk
<1> QED
  BY <1>6, <1>7 DEF Placed

LEMMA AssembleSafe == ASSUME StorageAssumption, StorageSafe, Assemble PROVE StorageSafe'
<1> DEFINE found == IF Ours = {} THEN {} ELSE Placed(Ours, Expect)
           opened == found # {} /\ \A d \in found : Opens(d)
<1>1. 0 \in Disk
  BY DEF Disk, StorageAssumption
<1>2. /\ main.at = "assemble" /\ main' = [at |-> "poll", disk |-> 0]
      /\ group' = IF opened THEN found ELSE {}
      /\ mem' = IF opened THEN [d \in Disk |-> IF d \in found THEN sb[d] ELSE mem[d]] ELSE mem
      /\ table' = IF opened THEN [d \in Disk |-> IF d \in Ours THEN [table[d] EXCEPT !.state = "active"]
                                                 ELSE table[d]]
                  ELSE table
      /\ UNCHANGED <<hw, sb, index, current, uevents, policy, stopped, formats, alarms, faults>>
  BY DEF Assemble, Goto
<1>3. StorageTypeOK /\ OursAlone /\ \A d \in Disk : alarms[d] = 0
  BY <1>2 DEF StorageSafe, DownIdle, Up
<1>4. \A d \in Disk : table[d].state \in {"absent", "unknown", "ours"}
  BY <1>2 DEF StorageSafe, DownIdle, Up
<1>5. found \subseteq Ours /\ Ours \subseteq Disk
  BY <1>3, PlacedLast DEF Ours
<1>6. \A d \in Ours : \E e \in found : e >= d
  BY <1>3, PlacedLast
<1> HIDE DEF found
<1>7. mem' \in [Disk -> Superblock]
  BY <1>2, <1>3 DEF StorageTypeOK
<1>8. table' \in [Disk -> DiskInfo]
  BY <1>2, <1>3 DEF StorageTypeOK, DiskInfo
<1>9. group' \subseteq Disk
  BY <1>2, <1>5
<1>10. StorageTypeOK'
  BY <1>1, <1>2, <1>3, <1>7, <1>8, <1>9 DEF StorageTypeOK
<1>11. \A d \in Disk : table'[d].count = table[d].count /\ table'[d].index = table[d].index
  BY <1>2, <1>3 DEF StorageTypeOK, DiskInfo
<1>12. \A d \in Disk : table'[d].state \in {"ours", "active"} => d \in Ours
  BY <1>2, <1>4 DEF Ours
<1>13. OursAlone'
  BY <1>3, <1>11, <1>12 DEF OursAlone, Ours
<1>14. ReportedOnce' /\ DownIdle'
  BY <1>2, <1>3 DEF ReportedOnce, DownIdle, Up
<1>15. ReadyOrDisplaced'
  <2>1. CASE ~opened
    BY <2>1, <1>2, <1>4 DEF ReadyOrDisplaced
  <2>2. CASE opened
    <3>1. \A d \in Disk : table'[d].index = 0
      BY <1>8 DEF DiskInfo
    <3>2. \A d \in Disk : table'[d].state = "active" => \E e \in found : e >= d
      BY <1>6, <1>12
    <3>3. group' = found
      BY <2>2, <1>2
    <3> QED
      BY <3>1, <3>2, <3>3, <1>9 DEF ReadyOrDisplaced
  <2> QED
    BY <2>1, <2>2
<1>16. KeysMatch'
  BY <1>2 DEF StorageSafe, KeysMatch
<1>17. HeldKeys'
  BY <1>2, <1>5 DEF HeldKeys
<1> QED
  BY <1>10, <1>13, <1>14, <1>15, <1>16, <1>17 DEF StorageSafe

\* What only turns the state of disks away from active keeps the rest of the safety.
LEMMA TableSafe ==
  ASSUME StorageAssumption, StorageSafe, Up, Up', table' \in [Disk -> DiskInfo],
         main' \in [at : {"down", "scan", "assemble", "poll", "health", "full"}, disk : Disk],
         \A d \in Disk : /\ table'[d].index = table[d].index /\ table'[d].count = table[d].count
                         /\ table'[d].state \in {table[d].state, "failed", "offline"},
         ReportedOnce', alarms' \in [Disk -> Nat], stopped' \in BOOLEAN,
         UNCHANGED <<hw, sb, index, group, mem, current, policy, formats, faults>>
  PROVE  StorageSafe'
<1>1. StorageTypeOK'
  BY DEF StorageSafe, StorageTypeOK
<1>2. KeysMatch' /\ HeldKeys'
  BY DEF StorageSafe, KeysMatch, HeldKeys
<1>3. OursAlone'
  BY DEF StorageSafe, OursAlone
<1>4. group \subseteq Disk
  BY DEF StorageSafe, StorageTypeOK
<1>5. ReadyOrDisplaced'
  BY <1>4 DEF StorageSafe, ReadyOrDisplaced
<1>6. DownIdle'
  BY DEF DownIdle
<1> QED
  BY <1>1, <1>2, <1>3, <1>5, <1>6 DEF StorageSafe

LEMMA PollSafe == ASSUME StorageAssumption, StorageSafe, Poll PROVE StorageSafe'
<1> DEFINE tells(d) == table[d].state # "absent" /\ \E i \in 1 .. Len(uevents) : uevents[i] = d
<1>1. /\ main.at = "poll" /\ main' = [at |-> "health", disk |-> 0]
      /\ table' = [d \in Disk |-> IF tells(d) THEN [table[d] EXCEPT !.state = "offline"] ELSE table[d]]
      /\ UNCHANGED <<hw, sb, index, group, mem, current, policy, stopped, formats, alarms, faults>>
  BY DEF Poll, Goto
<1> HIDE DEF tells
<1>2. table \in [Disk -> DiskInfo] /\ alarms \in [Disk -> Nat] /\ stopped \in BOOLEAN /\ ReportedOnce /\ 0 \in Disk
  BY DEF StorageSafe, StorageTypeOK, Disk, StorageAssumption
<1>3. /\ table' \in [Disk -> DiskInfo]
      /\ \A d \in Disk : /\ table'[d].index = table[d].index /\ table'[d].count = table[d].count
                         /\ table'[d].state \in {table[d].state, "failed", "offline"}
                         /\ table'[d].state = table[d].state \/ table'[d].state = "offline"
  BY <1>1, <1>2 DEF DiskInfo
<1>4. ReportedOnce'
  BY <1>1, <1>2, <1>3 DEF ReportedOnce
<1>5. Up /\ Up' /\ main' \in [at : {"down", "scan", "assemble", "poll", "health", "full"}, disk : Disk]
  BY <1>1, <1>2 DEF Up
<1> QED
  BY <1>1, <1>2, <1>3, <1>4, <1>5, TableSafe

LEMMA HealthSafe == ASSUME StorageAssumption, StorageSafe, Health PROVE StorageSafe'
<1> DEFINE d == main.disk
           polled == table[d].state \notin {"absent", "offline"}
<1>1. /\ main.at = "health"
      /\ main' = IF d + 1 = NDisks THEN [at |-> "full", disk |-> 0] ELSE [at |-> "health", disk |-> d + 1]
      /\ UNCHANGED <<hw, sb, index, group, mem, current, policy, stopped, formats, faults>>
  BY DEF Health, Goto
<1>2. /\ table' = IF polled THEN [table EXCEPT ![d].ok = Healthy(d),
                                               ![d].state = IF Fails(d) THEN "failed" ELSE @]
                  ELSE table
      /\ alarms' = IF polled /\ Fails(d) THEN [alarms EXCEPT ![d] = @ + 1] ELSE alarms
  BY DEF Health
<1>3. /\ table \in [Disk -> DiskInfo] /\ alarms \in [Disk -> Nat] /\ stopped \in BOOLEAN
      /\ ReportedOnce /\ d \in Disk
  BY DEF StorageSafe, StorageTypeOK
<1>4. Healthy(d) \in BOOLEAN
  BY DEF Healthy
<1>5. main' \in [at : {"down", "scan", "assemble", "poll", "health", "full"}, disk : Disk]
  BY <1>1, <1>3 DEF Disk, StorageAssumption
<1>6. Up /\ Up'
  BY <1>1 DEF Up
<1> HIDE DEF d
<1>7. /\ table' \in [Disk -> DiskInfo]
      /\ \A e \in Disk : /\ table'[e].index = table[e].index /\ table'[e].count = table[e].count
                         /\ table'[e].state \in {table[e].state, "failed", "offline"}
  <2>1. CASE ~polled
    BY <1>2, <1>3, <2>1
  <2>2. CASE polled
    BY <1>2, <1>3, <1>4, <2>2, ZenonT(60) DEF DiskInfo
  <2> QED
    BY <2>1, <2>2
<1>8. \A e \in Disk : IF e = d /\ polled /\ Fails(d)
                      THEN table[d].state = "active" /\ table'[d].state = "failed" /\ alarms'[d] = alarms[d] + 1
                      ELSE table'[e].state = table[e].state /\ alarms'[e] = alarms[e]
  BY <1>2, <1>3 DEF Fails, DiskInfo
<1>9. alarms' \in [Disk -> Nat]
  BY <1>2, <1>3
<1>10. ReportedOnce'
  <2> SUFFICES ASSUME NEW e \in Disk
               PROVE  alarms'[e] <= 1 /\ (alarms'[e] = 1 => table'[e].state \in {"failed", "offline"})
    BY DEF ReportedOnce
  <2>1. alarms[e] \in Nat /\ alarms[e] <= 1 /\ (alarms[e] = 1 => table[e].state \in {"failed", "offline"})
    BY <1>3 DEF ReportedOnce
  <2> QED
    BY <2>1, <1>8
<1> QED
  BY <1>1, <1>3, <1>5, <1>6, <1>7, <1>9, <1>10, TableSafe

LEMMA FullSafe == ASSUME StorageAssumption, StorageSafe, Full PROVE StorageSafe'
<1>1. /\ main.at = "full" /\ main' = [at |-> "poll", disk |-> 0]
      /\ UNCHANGED <<hw, sb, index, table, group, mem, current, policy, formats, alarms, faults>>
  BY DEF Full, Goto
<1>2. stopped' \in BOOLEAN
  BY DEF Full
<1>3. /\ table \in [Disk -> DiskInfo] /\ alarms \in [Disk -> Nat] /\ ReportedOnce /\ 0 \in Disk
  BY DEF StorageSafe, StorageTypeOK, Disk, StorageAssumption
<1>4. ReportedOnce'
  BY <1>1, <1>3 DEF ReportedOnce
<1>5. Up /\ Up' /\ main' \in [at : {"down", "scan", "assemble", "poll", "health", "full"}, disk : Disk]
  BY <1>1, <1>3 DEF Up
<1> QED
  BY <1>1, <1>2, <1>3, <1>4, <1>5, TableSafe

-----------------------------------------------------------------------------
(* The recorder and the format keep it. *)

\* What writes to disks and lets the main thread, the table and the group be keeps the safety if it keeps the keys.
LEMMA DisksSafe ==
  ASSUME StorageAssumption, StorageSafe,
         {sb', mem'} \subseteq [Disk -> Superblock], index' \in [Disk -> [Chunk -> Generation]],
         current' \in [Disk -> 0 .. NChunks], formats'.made \in NDisks .. NDisks + MaxFormats,
         hw' \in [Disk -> [there : BOOLEAN, readOnly : BOOLEAN]],
         KeysMatch', HeldKeys', UNCHANGED <<table, group, main, policy, stopped, alarms>>
  PROVE  StorageSafe'
<1>1. StorageTypeOK'
  BY DEF StorageSafe, StorageTypeOK
<1>2. ReportedOnce' /\ ReadyOrDisplaced' /\ OursAlone'
  BY DEF StorageSafe, ReportedOnce, ReadyOrDisplaced, OursAlone
<1>3. DownIdle'
  BY DEF StorageSafe, DownIdle, Up
<1> QED
  BY <1>1, <1>2, <1>3 DEF StorageSafe

\* What a disk of the group lists was written with the key that the group keeps.
LEMMA GroupReads ==
  ASSUME StorageSafe, NEW d \in group
  PROVE  /\ d \in Disk
         /\ sb[d] \in Superblock /\ mem[d] \in Superblock /\ mem[d].generation \in Generation
         /\ mem[d].next \in 0 .. NChunks /\ mem[d].full \in {"overwrite", "stop"}
         /\ index[d] \in [Chunk -> Generation] /\ current[d] \in 0 .. NChunks
         /\ \A c \in Chunk : index[d][c] \in {0, sb[d].generation} /\ index[d][c] \in {0, mem[d].generation}
         /\ \A c \in Chunk : index[d][c] # 0 => sb[d].generation = mem[d].generation
<1>1. d \in Disk
  BY DEF StorageSafe, StorageTypeOK
<1>2. /\ sb[d] \in Superblock /\ mem[d] \in Superblock
      /\ index[d] \in [Chunk -> Generation] /\ current[d] \in 0 .. NChunks
  BY <1>1 DEF StorageSafe, StorageTypeOK
<1>3. /\ mem[d].generation \in Generation
      /\ mem[d].next \in 0 .. NChunks /\ mem[d].full \in {"overwrite", "stop"}
  BY <1>2 DEF Superblock
<1>4. \A c \in Chunk : index[d][c] \in {0, sb[d].generation}
  BY <1>1 DEF StorageSafe, KeysMatch
<1>5. sb[d].generation = mem[d].generation \/ \A c \in Chunk : index[d][c] = 0
  BY DEF StorageSafe, HeldKeys, NoSlots
<1> QED
  BY <1>1, <1>2, <1>3, <1>4, <1>5

\* The end of a segment lists it with the key of the group.
LEMMA FinalizedReads ==
  ASSUME StorageAssumption, StorageSafe, NEW d \in group
  PROVE  /\ Finalized(d) \in [Chunk -> Generation]
         /\ \A c \in Chunk : Finalized(d)[c] \in {0, mem[d].generation}
<1>1. /\ index[d] \in [Chunk -> Generation] /\ mem[d].generation \in Generation
      /\ \A c \in Chunk : index[d][c] \in {0, mem[d].generation}
  BY GroupReads
<1> QED
  BY <1>1 DEF Finalized

LEMMA RecordSafe == ASSUME StorageAssumption, StorageSafe, NEW d \in Disk, Record(d) PROVE StorageSafe'
<1>1. /\ d \in group /\ ~Refuses(d)
      /\ mem' = [mem EXCEPT ![d] = Advanced(d)]
      /\ index' = [index EXCEPT ![d] = Written(d, @, [Finalized(d) EXCEPT ![mem[d].next] = mem[d].generation])]
      /\ sb' = [sb EXCEPT ![d] = FlushedAfter(d)]
      /\ current' = [current EXCEPT ![d] = mem[d].next]
      /\ UNCHANGED <<hw, table, group, uevents, main, policy, stopped, formats, alarms, faults>>
  BY DEF Record
<1>2. StorageTypeOK /\ KeysMatch /\ HeldKeys
  BY DEF StorageSafe
<1>3. /\ sb[d] \in Superblock /\ mem[d] \in Superblock /\ mem[d].generation \in Generation
      /\ mem[d].next \in 0 .. NChunks /\ mem[d].full \in {"overwrite", "stop"}
      /\ index[d] \in [Chunk -> Generation]
      /\ \A c \in Chunk : index[d][c] \in {0, sb[d].generation} /\ index[d][c] \in {0, mem[d].generation}
  BY <1>1, GroupReads
<1>4. /\ Finalized(d) \in [Chunk -> Generation]
      /\ \A c \in Chunk : Finalized(d)[c] \in {0, mem[d].generation}
  BY <1>1, FinalizedReads
<1>5. Advanced(d) \in Superblock /\ Advanced(d).generation = mem[d].generation
  <2>1. NChunks \in Nat /\ NChunks # 0
    BY DEF StorageAssumption
  <2>2. CASE mem[d].next + 1 < NChunks \/ mem[d].full = "stop"
    <3>1. mem[d].next + 1 \in 0 .. NChunks
      BY <2>1, <2>2, <1>1, <1>3 DEF Refuses
    <3>2. Advanced(d) = [mem[d] EXCEPT !.next = mem[d].next + 1]
      BY <2>2 DEF Advanced
    <3> QED
      BY <3>1, <3>2, <1>3 DEF Superblock
  <2>3. CASE ~ (mem[d].next + 1 < NChunks \/ mem[d].full = "stop")
    <3>1. Advanced(d) = [mem[d] EXCEPT !.next = 0, !.wrapped = TRUE]
      BY <2>3 DEF Advanced
    <3>2. 0 \in 0 .. NChunks
      BY <2>1
    <3> QED
      BY <3>1, <3>2, <1>3 DEF Superblock
  <2> QED
    BY <2>2, <2>3
<1> DEFINE listed == [Finalized(d) EXCEPT ![mem[d].next] = mem[d].generation]
<1>6. listed \in [Chunk -> Generation] /\ \A c \in Chunk : listed[c] \in {0, mem[d].generation}
  BY <1>3, <1>4
<1> HIDE DEF listed
<1>7. index' = [index EXCEPT ![d] = IF Opens(d) THEN listed ELSE index[d]]
  BY <1>1, <1>2 DEF Written, listed
<1>8. sb' = [sb EXCEPT ![d] = IF Opens(d) THEN Advanced(d) ELSE sb[d]]
  BY <1>1 DEF FlushedAfter, Written
<1>9. /\ {sb', mem'} \subseteq [Disk -> Superblock] /\ index' \in [Disk -> [Chunk -> Generation]]
      /\ current' \in [Disk -> 0 .. NChunks]
  <2>1. sb' \in [Disk -> Superblock]
    BY <1>2, <1>3, <1>5, <1>8 DEF StorageTypeOK
  <2>2. mem' \in [Disk -> Superblock]
    BY <1>1, <1>2, <1>5 DEF StorageTypeOK
  <2>3. index' \in [Disk -> [Chunk -> Generation]]
    BY <1>2, <1>3, <1>6, <1>7 DEF StorageTypeOK
  <2>4. current' \in [Disk -> 0 .. NChunks]
    BY <1>1, <1>2, <1>3 DEF StorageTypeOK
  <2> QED
    BY <2>1, <2>2, <2>3, <2>4
<1>10. /\ index'[d] = IF Opens(d) THEN listed ELSE index[d]
       /\ sb'[d] = IF Opens(d) THEN Advanced(d) ELSE sb[d]
       /\ mem'[d] = Advanced(d)
       /\ \A e \in Disk \ {d} : index'[e] = index[e] /\ sb'[e] = sb[e] /\ mem'[e] = mem[e]
  BY <1>1, <1>2, <1>7, <1>8 DEF StorageTypeOK
<1>11. KeysMatch'
  <2>1. \A c \in Chunk : index'[d][c] \in {0, sb'[d].generation}
    <3>1. CASE Opens(d)
      BY <3>1, <1>5, <1>6, <1>10
    <3>2. CASE ~Opens(d)
      BY <3>2, <1>3, <1>10
    <3> QED
      BY <3>1, <3>2
  <2>2. \A e \in Disk \ {d} : \A c \in Chunk : index'[e][c] \in {0, sb'[e].generation}
    BY <1>2, <1>10 DEF KeysMatch
  <2> QED
    BY <2>1, <2>2 DEF KeysMatch
<1>12. HeldKeys'
  <2>1. sb'[d].generation = mem'[d].generation \/ index'[d] = NoSlots
    <3>1. CASE Opens(d)
      BY <3>1, <1>10
    <3>2. CASE ~Opens(d)
      BY <3>2, <1>1, <1>2, <1>5, <1>10 DEF HeldKeys
    <3> QED
      BY <3>1, <3>2
  <2>2. \A e \in group \ {d} : sb'[e].generation = mem'[e].generation \/ index'[e] = NoSlots
    BY <1>2, <1>10 DEF HeldKeys, StorageTypeOK
  <2>3. group' = group /\ NoSlots' = NoSlots
    BY <1>1 DEF NoSlots
  <2> QED
    BY <2>1, <2>2, <2>3 DEF HeldKeys
<1>13. formats'.made \in NDisks .. NDisks + MaxFormats /\ hw' \in [Disk -> [there : BOOLEAN, readOnly : BOOLEAN]]
  BY <1>1, <1>2 DEF StorageTypeOK
<1> QED
  BY <1>1, <1>9, <1>11, <1>12, <1>13, DisksSafe

LEMMA RecordRefusedSafe ==
  ASSUME StorageAssumption, StorageSafe, NEW d \in Disk, RecordRefused(d) PROVE StorageSafe'
<1>1. /\ d \in group /\ current[d] # NChunks
      /\ index' = [index EXCEPT ![d] = Written(d, @, Finalized(d))]
      /\ sb' = IF index[d][current[d]] = 0 THEN [sb EXCEPT ![d] = Written(d, @, mem[d])] ELSE sb
      /\ UNCHANGED <<hw, table, group, mem, current, uevents, main, policy, stopped, formats, alarms, faults>>
  BY DEF RecordRefused
<1>2. StorageTypeOK /\ KeysMatch /\ HeldKeys
  BY DEF StorageSafe
<1>3. /\ sb[d] \in Superblock /\ mem[d] \in Superblock
      /\ index[d] \in [Chunk -> Generation] /\ current[d] \in 0 .. NChunks
      /\ \A c \in Chunk : index[d][c] \in {0, sb[d].generation}
      /\ \A c \in Chunk : index[d][c] # 0 => sb[d].generation = mem[d].generation
  BY <1>1, GroupReads
<1>4. Finalized(d) \in [Chunk -> Generation] /\ \A c \in Chunk : Finalized(d)[c] \in {0, mem[d].generation}
  BY <1>1, FinalizedReads
<1>5. current[d] \in Chunk
  BY <1>1, <1>3 DEF Chunk, StorageAssumption
<1>6. /\ index'[d] = IF Opens(d) THEN Finalized(d) ELSE index[d]
      /\ sb'[d] = IF index[d][current[d]] = 0 /\ Opens(d) THEN mem[d] ELSE sb[d]
      /\ \A e \in Disk \ {d} : index'[e] = index[e] /\ sb'[e] = sb[e]
  BY <1>1, <1>2 DEF StorageTypeOK, Written
<1>7. {sb', mem'} \subseteq [Disk -> Superblock] /\ index' \in [Disk -> [Chunk -> Generation]]
  <2>1. sb' \in [Disk -> Superblock]
    BY <1>1, <1>2, <1>3 DEF StorageTypeOK, Written
  <2>2. mem' \in [Disk -> Superblock]
    BY <1>1, <1>2 DEF StorageTypeOK
  <2>3. index' \in [Disk -> [Chunk -> Generation]]
    BY <1>1, <1>2, <1>3, <1>4 DEF StorageTypeOK, Written
  <2> QED
    BY <2>1, <2>2, <2>3
<1>8. Opens(d) => sb'[d].generation = mem[d].generation
  BY <1>3, <1>5, <1>6
<1>9. KeysMatch'
  <2>1. \A c \in Chunk : index'[d][c] \in {0, sb'[d].generation}
    <3>1. CASE Opens(d)
      BY <3>1, <1>4, <1>6, <1>8
    <3>2. CASE ~Opens(d)
      BY <3>2, <1>3, <1>6
    <3> QED
      BY <3>1, <3>2
  <2>2. \A e \in Disk \ {d} : \A c \in Chunk : index'[e][c] \in {0, sb'[e].generation}
    BY <1>2, <1>6 DEF KeysMatch
  <2> QED
    BY <2>1, <2>2 DEF KeysMatch
<1>10. HeldKeys'
  <2>1. sb'[d].generation = mem[d].generation \/ index'[d] = NoSlots
    <3>1. CASE Opens(d)
      BY <3>1, <1>8
    <3>2. CASE ~Opens(d)
      BY <3>2, <1>1, <1>2, <1>6 DEF HeldKeys
    <3> QED
      BY <3>1, <3>2
  <2>2. \A e \in group \ {d} : sb'[e].generation = mem[e].generation \/ index'[e] = NoSlots
    BY <1>2, <1>6 DEF HeldKeys, StorageTypeOK
  <2>3. group' = group /\ mem' = mem /\ NoSlots' = NoSlots
    BY <1>1 DEF NoSlots
  <2> QED
    BY <2>1, <2>2, <2>3 DEF HeldKeys
<1>11. /\ formats'.made \in NDisks .. NDisks + MaxFormats /\ current' \in [Disk -> 0 .. NChunks]
       /\ hw' \in [Disk -> [there : BOOLEAN, readOnly : BOOLEAN]]
  BY <1>1, <1>2 DEF StorageTypeOK
<1> QED
  BY <1>1, <1>7, <1>9, <1>10, <1>11, DisksSafe

LEMMA FormatSafe == ASSUME StorageAssumption, StorageSafe, Format PROVE StorageSafe'
<1> DEFINE d == First
           made == formats.made + 1
<1>1. /\ \E e \in Disk : table[e].state # "absent"
      /\ formats.made < NDisks + MaxFormats
      /\ sb' = [sb EXCEPT ![d] = Formatted(made)]
      /\ index' = [index EXCEPT ![d] = NoSlots]
      /\ formats' = [made |-> made, last |-> [formats.last EXCEPT ![d] = made]]
      /\ UNCHANGED <<hw, table, group, mem, current, uevents, main, policy, stopped, alarms, faults>>
  BY DEF Format
<1>2. StorageTypeOK /\ KeysMatch /\ HeldKeys
  BY DEF StorageSafe
<1>3. made \in Generation /\ formats'.made \in NDisks .. NDisks + MaxFormats
  BY <1>1, <1>2 DEF StorageTypeOK, Generation, StorageAssumption
<1>4. NoSlots \in [Chunk -> Generation] /\ \A c \in Chunk : NoSlots[c] = 0
  BY DEF NoSlots, Generation, StorageAssumption
<1>5. Formatted(made) \in Superblock
  <2>1. 0 \in 0 .. NChunks
    BY DEF StorageAssumption
  <2> QED
    BY <2>1, <1>2, <1>3 DEF Formatted, Superblock, StorageTypeOK
<1> HIDE DEF d, made
<1>6. {sb', mem'} \subseteq [Disk -> Superblock] /\ index' \in [Disk -> [Chunk -> Generation]]
  BY <1>1, <1>2, <1>4, <1>5 DEF StorageTypeOK
<1>7. \A e \in Disk : \/ index'[e] = NoSlots
                      \/ index'[e] = index[e] /\ sb'[e] = sb[e]
  BY <1>1, <1>2 DEF StorageTypeOK
<1>8. KeysMatch'
  BY <1>2, <1>4, <1>7 DEF KeysMatch
<1>9. HeldKeys'
  <2>1. group' = group /\ mem' = mem /\ NoSlots' = NoSlots /\ group \subseteq Disk
    BY <1>1, <1>2 DEF NoSlots, StorageTypeOK
  <2> QED
    BY <2>1, <1>2, <1>7 DEF HeldKeys
<1>10. current' \in [Disk -> 0 .. NChunks] /\ hw' \in [Disk -> [there : BOOLEAN, readOnly : BOOLEAN]]
  BY <1>1, <1>2 DEF StorageTypeOK
<1> QED
  BY <1>1, <1>3, <1>6, <1>8, <1>9, <1>10, DisksSafe

LEMMA FaultSafe ==
  ASSUME StorageAssumption, StorageSafe, NEW d \in Disk, Unplug(d) \/ TurnReadOnly(d) PROVE StorageSafe'
<1>1. UNCHANGED <<sb, index, table, group, mem, current, main, policy, stopped, formats, alarms>>
  BY DEF Unplug, TurnReadOnly
<1>2. StorageTypeOK /\ KeysMatch /\ HeldKeys
  BY DEF StorageSafe
<1>3. hw' = [hw EXCEPT ![d].there = FALSE] \/ hw' = [hw EXCEPT ![d].readOnly = TRUE]
  BY DEF Unplug, TurnReadOnly
<1>4. hw' \in [Disk -> [there : BOOLEAN, readOnly : BOOLEAN]]
  <2>1. hw \in [Disk -> [there : BOOLEAN, readOnly : BOOLEAN]]
    BY <1>2 DEF StorageTypeOK
  <2>2. CASE hw' = [hw EXCEPT ![d].there = FALSE]
    BY <2>1, <2>2
  <2>3. CASE hw' = [hw EXCEPT ![d].readOnly = TRUE]
    BY <2>1, <2>3
  <2> QED
    BY <2>2, <2>3, <1>3
<1>5. KeysMatch' /\ HeldKeys'
  BY <1>1, <1>2 DEF KeysMatch, HeldKeys, NoSlots
<1>6. /\ {sb', mem'} \subseteq [Disk -> Superblock] /\ index' \in [Disk -> [Chunk -> Generation]]
      /\ current' \in [Disk -> 0 .. NChunks] /\ formats'.made \in NDisks .. NDisks + MaxFormats
  BY <1>1, <1>2 DEF StorageTypeOK
<1> QED
  BY <1>1, <1>4, <1>5, <1>6, DisksSafe

-----------------------------------------------------------------------------
(* The stop and the next start keep it. *)

\* After the program is gone only what the disks list is left to keep.
LEMMA ClosedSafe ==
  ASSUME StorageAssumption, StorageSafe, Closed, sb' \in [Disk -> Superblock],
         index' \in [Disk -> [Chunk -> Generation]], KeysMatch', UNCHANGED <<hw, mem, policy, formats, faults>>
  PROVE  StorageSafe'
<1>1. /\ table' = [d \in Disk |-> Absent] /\ group' = {} /\ current' = [d \in Disk |-> NChunks]
      /\ stopped' = FALSE /\ alarms' = [d \in Disk |-> 0] /\ main' = [at |-> "down", disk |-> 0]
  BY DEF Closed, Goto
<1>2. StorageTypeOK /\ 0 \in Disk /\ NChunks \in 0 .. NChunks
  BY DEF StorageSafe, Disk, StorageAssumption
<1>3. table' \in [Disk -> DiskInfo]
  BY <1>1 DEF Absent, DiskInfo
<1>4. StorageTypeOK'
  BY <1>1, <1>2, <1>3 DEF StorageTypeOK
<1>5. ReportedOnce' /\ ReadyOrDisplaced' /\ HeldKeys' /\ DownIdle' /\ OursAlone'
  BY <1>1 DEF ReportedOnce, ReadyOrDisplaced, HeldKeys, DownIdle, OursAlone, Absent
<1> QED
  BY <1>4, <1>5 DEF StorageSafe

LEMMA StopSafe == ASSUME StorageAssumption, StorageSafe, Stop PROVE StorageSafe'
<1> DEFINE any == \E d \in group : current[d] # NChunks
<1>1. /\ index' = [d \in Disk |-> IF d \in group THEN Written(d, index[d], Finalized(d)) ELSE index[d]]
      /\ sb' = IF any THEN [d \in Disk |-> IF d \in group THEN Written(d, sb[d], mem[d]) ELSE sb[d]] ELSE sb
      /\ Closed /\ UNCHANGED <<hw, mem, policy, formats, faults>>
  BY DEF Stop, Flushed
<1>2. StorageTypeOK /\ KeysMatch
  BY DEF StorageSafe
<1>3. \A d \in group : /\ Finalized(d) \in [Chunk -> Generation]
                       /\ \A c \in Chunk : Finalized(d)[c] \in {0, mem[d].generation}
  BY FinalizedReads
<1>4. \A d \in group : /\ index[d] \in [Chunk -> Generation] /\ sb[d] \in Superblock /\ mem[d] \in Superblock
                       /\ \A c \in Chunk : index[d][c] \in {0, sb[d].generation}
  BY GroupReads
<1>5. \A d \in group : ~any => Finalized(d) = index[d]
  BY DEF Finalized
<1> HIDE DEF any
<1>6. sb' \in [Disk -> Superblock]
  BY <1>1, <1>2, <1>4 DEF StorageTypeOK, Written
<1>7. index' \in [Disk -> [Chunk -> Generation]]
  BY <1>1, <1>2, <1>3, <1>4 DEF StorageTypeOK, Written
<1>8. KeysMatch'
  <2> SUFFICES ASSUME NEW d \in Disk, NEW c \in Chunk PROVE index'[d][c] \in {0, sb'[d].generation}
    BY DEF KeysMatch
  <2>1. CASE d \notin group \/ ~Opens(d)
    <3>1. index'[d] = index[d] /\ sb'[d] = sb[d]
      BY <2>1, <1>1, <1>2 DEF Written, StorageTypeOK
    <3> QED
      BY <3>1, <1>2 DEF KeysMatch
  <2>2. CASE d \in group /\ Opens(d) /\ any
    <3>1. index'[d] = Finalized(d) /\ sb'[d] = mem[d]
      BY <2>2, <1>1 DEF Written
    <3> QED
      BY <3>1, <2>2, <1>3
  <2>3. CASE d \in group /\ Opens(d) /\ ~any
    <3>1. index'[d] = index[d] /\ sb'[d] = sb[d]
      BY <2>3, <1>1, <1>5 DEF Written
    <3> QED
      BY <3>1, <2>3, <1>4
  <2> QED
    BY <2>1, <2>2, <2>3
<1> QED
  BY <1>1, <1>6, <1>7, <1>8, ClosedSafe

LEMMA KillSafe == ASSUME StorageAssumption, StorageSafe, Kill PROVE StorageSafe'
<1>1. Closed /\ UNCHANGED <<hw, sb, index, mem, policy, formats, faults>>
  BY DEF Kill
<1>2. /\ sb' \in [Disk -> Superblock] /\ index' \in [Disk -> [Chunk -> Generation]]
      /\ KeysMatch'
  BY <1>1 DEF StorageSafe, StorageTypeOK, KeysMatch
<1> QED
  BY <1>1, <1>2, ClosedSafe

LEMMA StartSafe == ASSUME StorageAssumption, StorageSafe, Start PROVE StorageSafe'
<1>1. /\ main.at = "down" /\ main' = [at |-> "scan", disk |-> 0] /\ policy' \in {"overwrite", "stop"}
      /\ hw' \in {hw, [d \in Disk |-> [there |-> TRUE, readOnly |-> FALSE]]}
      /\ UNCHANGED <<sb, index, table, group, mem, current, uevents, stopped, formats, alarms, faults>>
  BY DEF Start, Goto
<1>2. StorageTypeOK /\ 0 \in Disk
  BY DEF StorageSafe, Disk, StorageAssumption
<1>3. hw' \in [Disk -> [there : BOOLEAN, readOnly : BOOLEAN]]
  <2>1. hw \in [Disk -> [there : BOOLEAN, readOnly : BOOLEAN]]
    BY <1>2 DEF StorageTypeOK
  <2>2. [d \in Disk |-> [there |-> TRUE, readOnly |-> FALSE]] \in [Disk -> [there : BOOLEAN, readOnly : BOOLEAN]]
    OBVIOUS
  <2> QED
    BY <2>1, <2>2, <1>1
<1>4. StorageTypeOK'
  BY <1>1, <1>2, <1>3 DEF StorageTypeOK
<1>5. KeysMatch' /\ ReportedOnce' /\ ReadyOrDisplaced' /\ OursAlone'
  BY <1>1 DEF StorageSafe, KeysMatch, ReportedOnce, ReadyOrDisplaced, OursAlone
<1>6. HeldKeys'
  BY <1>1 DEF StorageSafe, HeldKeys, NoSlots
<1>7. DownIdle'
  BY <1>1 DEF StorageSafe, DownIdle, Up
<1> QED
  BY <1>4, <1>5, <1>6, <1>7 DEF StorageSafe

-----------------------------------------------------------------------------

\* storage_mgr.c, storage_disk.c and the recorder on the group: every step keeps the disks readable with
\* the keys that are on them, tells a failure once and shows as ready only what is or was to be recorded to.
THEOREM StorageIsSafe == ASSUME StorageAssumption PROVE StorageSpec => []StorageSafe
<1>1. StorageInit => StorageSafe
  BY InitSafe
<1>2. StorageSafe /\ [StorageNext]_storageVars => StorageSafe'
  <2> SUFFICES ASSUME StorageSafe, [StorageNext]_storageVars PROVE StorageSafe'
    OBVIOUS
  <2>1. CASE Scan
    BY <2>1, ScanSafe
  <2>2. CASE Assemble
    BY <2>2, AssembleSafe
  <2>3. CASE Tick
    BY <2>3, PollSafe, HealthSafe, FullSafe DEF Tick
  <2>4. CASE Format
    BY <2>4, FormatSafe
  <2>5. CASE Stop
    BY <2>5, StopSafe
  <2>6. CASE Kill
    BY <2>6, KillSafe
  <2>7. CASE Start
    BY <2>7, StartSafe
  <2>8. ASSUME NEW d \in Disk, Record(d) PROVE StorageSafe'
    BY <2>8, RecordSafe
  <2>9. ASSUME NEW d \in Disk, RecordRefused(d) PROVE StorageSafe'
    BY <2>9, RecordRefusedSafe
  <2>10. ASSUME NEW d \in Disk, Unplug(d) \/ TurnReadOnly(d) PROVE StorageSafe'
    BY <2>10, FaultSafe
  <2>11. CASE UNCHANGED storageVars
    <3>1. UNCHANGED <<hw, sb, index, table, group, mem, current, main, policy, stopped, formats, alarms>>
      BY <2>11 DEF storageVars
    <3>2. StorageTypeOK' /\ KeysMatch' /\ ReportedOnce'
      BY <3>1 DEF StorageSafe, StorageTypeOK, KeysMatch, ReportedOnce
    <3>3. ReadyOrDisplaced' /\ HeldKeys'
      BY <3>1 DEF StorageSafe, ReadyOrDisplaced, HeldKeys, NoSlots
    <3>4. DownIdle' /\ OursAlone'
      BY <3>1 DEF StorageSafe, DownIdle, OursAlone, Up
    <3> QED
      BY <3>2, <3>3, <3>4 DEF StorageSafe
  <2> QED
    BY <2>1, <2>2, <2>3, <2>4, <2>5, <2>6, <2>7, <2>8, <2>9, <2>10, <2>11 DEF StorageNext
<1> QED
  BY <1>1, <1>2, PTL DEF StorageSpec
=============================================================================
