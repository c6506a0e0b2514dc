------------------------------- MODULE Archive -------------------------------
(***************************************************************************)
(* What the recorder promises to a user who searches for recordings: every *)
(* disk keeps a log of the last Capacity segments started on it, oldest    *)
(* first, and a catalog of those of them that a search returns.  A segment *)
(* leaves the catalog only with the log, and the log gives up its oldest   *)
(* segment only when it is full and the policy is to overwrite.            *)
(***************************************************************************)
EXTENDS Integers, Sequences, FiniteSets

CONSTANTS
  Disk,      \* the disks
  Seg,       \* segment names
  Capacity,  \* segments a disk holds
  HddFull    \* "overwrite" or "stop"

VARIABLES log, catalog

Kept(d) == {log[d][i] : i \in 1 .. Len(log[d])}

Init ==
  /\ log = [d \in Disk |-> <<>>]
  /\ catalog = [d \in Disk |-> {}]

\* A call finishes at most one segment (done) and starts at most one (new),
\* perhaps on another disk.  A finished segment is searchable if the log still
\* has it afterwards.
Step(done, new) ==
  /\ Cardinality(done) <= 1 /\ Cardinality(new) <= 1
  /\ \A p \in done : p[2] \in Kept(p[1])
  /\ \A p \in new : /\ p[2] \notin Kept(p[1])
                    /\ HddFull = "overwrite" \/ Len(log[p[1]]) < Capacity
  /\ log' = [d \in Disk |->
       IF \E p \in new : p[1] = d
       THEN Append(IF Len(log[d]) < Capacity THEN log[d] ELSE Tail(log[d]),
                   (CHOOSE p \in new : TRUE)[2])
       ELSE log[d]]
  /\ catalog' = [d \in Disk |->
       (catalog[d] \cup {p[2] : p \in {q \in done : q[1] = d}})
         \cap {log'[d][i] : i \in 1 .. Len(log'[d])}]

AtMostOne(S) == {{}} \cup {{p} : p \in S}

Next == \E done \in AtMostOne(UNION {{d} \X Kept(d) : d \in Disk}),
          new \in AtMostOne(Disk \X Seg) : Step(done, new)

Spec == Init /\ [][Next]_<<log, catalog>>
=============================================================================
