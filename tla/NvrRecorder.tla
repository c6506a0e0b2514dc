----------------------------- MODULE NvrRecorder -----------------------------
(***************************************************************************)
(* The multi-channel recording manager of the NVR role (svc_nvr_recorder.c) *)
(* with the hubs its engines subscribe to (nop_media.c, and svc_event.c    *)
(* which has the same table and barrier): one control thread adds and      *)
(* removes channels while encoder and detection threads publish.           *)
(*                                                                         *)
(* An engine is what NopRecord models; here only its life is of interest:  *)
(* attached to the media hub, then to the event hub, put in the table,     *)
(* detached, drained, freed.                                               *)
(***************************************************************************)
EXTENDS Integers, FiniteSets, FiniteSetsExt

CONSTANTS
  Channel,
  Engine,       \* names of the engines a behaviour may create
  None,
  NSlots,       \* NOP_NVR_MAX_CHANNELS
  NSinks,       \* NOP_MEDIA_MAX_SINKS, NOP_EVENT_MAX_SINKS
  NDisks,       \* storage_root_count
  Frees,        \* what HAL_STORAGE may say of a disk: its free space, -1 not ready
  CapacityAware,
  Publisher     \* threads that publish frames or detections

Hub == {"media", "event"}
Disk == 0 .. NDisks - 1

ManagerAssumption ==
  /\ {NSlots, NSinks, NDisks} \subseteq Nat \ {0}
  /\ Frees \subseteq Int /\ CapacityAware \in BOOLEAN
  /\ None \notin Channel \cup Engine /\ IsFiniteSet(Publisher)

VARIABLES
  slots,     \* the channel table: who, which engine, on which disk
  cursor,    \* next_disk
  sinks,     \* the subscribed engines of each hub, by place in its table
  control,   \* the control thread: pc, the hub it is at, its engine, and the rest
  flight,    \* per publisher: the hub, and the snapshot still to be called
  freed,     \* engines that were freed
  used,      \* history: engines that were created
  removed    \* history: a channel was removed

vars == <<slots, cursor, sinks, control, flight, freed, used, removed>>

Free == [channel |-> None, engine |-> None, disk |-> 0]
Idle == [pc |-> "idle", hub |-> "media", engine |-> None, channel |-> None,
         disk |-> 0, pending |-> {}, then |-> "idle"]
NotPublishing == [hub |-> None, todo |-> {}]

\* The table of channels, the engines and the calls under way.
TypeOK ==
  /\ slots \in [1 .. NSlots -> [channel : Channel \cup {None}, engine : Engine \cup {None},
                                disk : Disk]]
  /\ cursor \in Disk
  /\ sinks \in [Hub -> [1 .. NSinks -> Engine \cup {None}]]
  /\ control.pc \in {"idle", "attach", "install", "detach", "drain", "close", "gone"}
  /\ flight \in [Publisher -> [hub : Hub \cup {None}, todo : SUBSET Engine]]
  /\ freed \subseteq used /\ used \subseteq Engine /\ removed \in BOOLEAN

Init ==
  /\ slots = [i \in 1 .. NSlots |-> Free] /\ cursor = 0
  /\ sinks = [h \in Hub |-> [i \in 1 .. NSinks |-> None]]
  /\ control = Idle /\ flight = [p \in Publisher |-> NotPublishing]
  /\ freed = {} /\ used = {} /\ removed = FALSE

-----------------------------------------------------------------------------
(* Publishing: the snapshot under the hub's mutex, the calls outside it. *)

Subscribed(h) == {sinks[h][i] : i \in 1 .. NSinks} \ {None}
InFlight(h) == Cardinality({p \in Publisher : flight[p].hub = h})

Publish(p, h) ==
  /\ flight[p] = NotPublishing /\ Subscribed(h) # {}
  /\ flight' = [flight EXCEPT ![p] = [hub |-> h, todo |-> Subscribed(h)]]
  /\ UNCHANGED <<slots, cursor, sinks, control, freed, used, removed>>

Call(p) ==
  /\ \E e \in flight[p].todo : flight' = [flight EXCEPT ![p].todo = @ \ {e}]
  /\ UNCHANGED <<slots, cursor, sinks, control, freed, used, removed>>

Published(p) ==
  /\ flight[p].hub # None /\ flight[p].todo = {}
  /\ flight' = [flight EXCEPT ![p] = NotPublishing]
  /\ UNCHANGED <<slots, cursor, sinks, control, freed, used, removed>>

-----------------------------------------------------------------------------
(* The control thread. *)

Managed(c) == \E i \in 1 .. NSlots : slots[i].channel = c
FreeSlots == {i \in 1 .. NSlots : slots[i].channel = None}
FreeSinks(h) == {i \in 1 .. NSinks : sinks[h][i] = None}

\* nvr_select_root_index_locked: the first of the ready disks with most space.
BestDisks(free) ==
  {d \in Disk : /\ CapacityAware /\ free[d] >= 0
                /\ \A e \in Disk : free[e] < free[d] \/ (free[e] = free[d] /\ d <= e)}

Advanced(d) == (d + 1) % NDisks

Add(c) ==
  /\ control.pc = "idle" /\ ~Managed(c) /\ FreeSlots # {}
  /\ Engine # used
  /\ \E e \in {CHOOSE x \in Engine : x \notin used}, free \in [Disk -> Frees] :
       LET best == BestDisks(free)
           disk == IF best # {} THEN Min(best) ELSE cursor IN
       /\ used' = used \cup {e}
       /\ cursor' = IF best # {} THEN cursor ELSE Advanced(disk)
       /\ control' = [Idle EXCEPT !.pc = "attach", !.engine = e, !.channel = c, !.disk = disk]
  /\ UNCHANGED <<slots, sinks, flight, freed, removed>>

\* nop_record_attach_media and then nop_record_attach_event_hub.
Attach ==
  LET h == control.hub IN
  /\ control.pc = "attach" /\ FreeSinks(h) # {}
  /\ sinks' = [sinks EXCEPT ![h][Min(FreeSinks(h))] = control.engine]
  /\ control' = IF h = "media" THEN [control EXCEPT !.hub = "event"]
                ELSE [control EXCEPT !.pc = "install"]
  /\ UNCHANGED <<slots, cursor, flight, freed, used, removed>>

\* The hub is full: the engine is destroyed again and the call fails.
Fail == control' = [control EXCEPT !.pc = "detach", !.hub = "media", !.channel = None]

AttachFails ==
  /\ control.pc = "attach" /\ FreeSinks(control.hub) = {}
  /\ Fail
  /\ UNCHANGED <<slots, cursor, sinks, flight, freed, used, removed>>

Install ==
  /\ control.pc = "install"
  /\ slots' = [slots EXCEPT ![Min(FreeSlots)] =
                 [channel |-> control.channel, engine |-> control.engine, disk |-> control.disk]]
  /\ control' = Idle
  /\ UNCHANGED <<cursor, sinks, flight, freed, used, removed>>

Remove(c) ==
  /\ control.pc = "idle"
  /\ \E i \in 1 .. NSlots :
       /\ slots[i].channel = c
       /\ slots' = [slots EXCEPT ![i] = Free]
       /\ control' = [Idle EXCEPT !.pc = "detach", !.engine = slots[i].engine]
  /\ removed' = TRUE
  /\ UNCHANGED <<cursor, sinks, flight, freed, used>>

\* nop_nvr_recorder_destroy: the engines are taken out, then destroyed in turn.
DestroyManager ==
  /\ control.pc = "idle"
  /\ LET all == {slots[i].engine : i \in 1 .. NSlots} \ {None} IN
     \/ all = {} /\ control' = [Idle EXCEPT !.pc = "gone"]
     \/ \E e \in all : control' = [Idle EXCEPT !.pc = "detach", !.engine = e,
                                               !.then = "gone", !.pending = all \ {e}]
  /\ slots' = [i \in 1 .. NSlots |-> Free] /\ removed' = TRUE
  /\ UNCHANGED <<cursor, sinks, flight, freed, used>>

\* nop_record_destroy: unsubscribe from the media hub, then from the event hub;
\* an engine whose attach failed has no subscription there and does not wait.
Detach ==
  /\ control.pc = "detach"
  /\ sinks' = [sinks EXCEPT ![control.hub] =
                 [i \in 1 .. NSinks |-> IF @[i] = control.engine THEN None ELSE @[i]]]
  /\ control' = [control EXCEPT !.pc =
       IF control.engine \in Subscribed(control.hub) THEN "drain"
       ELSE IF control.hub = "media" THEN "drain" ELSE "close"]
  /\ UNCHANGED <<slots, cursor, flight, freed, used, removed>>

\* bug: the barrier looks at the other hub
DrainedWrong == InFlight("event") = 0

Drained == InFlight(control.hub) = 0

Drain ==
  /\ control.pc = "drain" /\ Drained
  /\ control' = IF control.hub = "media" THEN [control EXCEPT !.pc = "detach", !.hub = "event"]
                ELSE [control EXCEPT !.pc = "close"]
  /\ UNCHANGED <<slots, cursor, sinks, flight, freed, used, removed>>

\* The open segment is closed and the engine freed.
Close ==
  /\ control.pc = "close"
  /\ freed' = freed \cup {control.engine}
  /\ \/ control.pending = {}
        /\ control' = [Idle EXCEPT !.pc = control.then]
     \/ \E e \in control.pending :
          control' = [control EXCEPT !.pc = "detach", !.hub = "media", !.engine = e,
                                     !.pending = @ \ {e}]
  /\ UNCHANGED <<slots, cursor, sinks, flight, used, removed>>

ControlNext ==
  \/ \E c \in Channel : Add(c) \/ Remove(c)
  \/ Attach \/ AttachFails \/ Install \/ DestroyManager \/ Detach \/ Drain \/ Close

Next ==
  \/ ControlNext
  \/ \E p \in Publisher : (\E h \in Hub : Publish(p, h)) \/ Call(p) \/ Published(p)

Spec == Init /\ [][Next]_vars

-----------------------------------------------------------------------------
(* Properties. *)

Active == {slots[i].engine : i \in 1 .. NSlots} \ {None}
InHand == {control.engine} \cup control.pending

(***************************************************************************)
(* No thread calls into an engine that was freed: what a publish took in   *)
(* its snapshot outlives it, in whichever of the two hubs and in whichever *)
(* order the threads run.                                                  *)
(***************************************************************************)
NoUseAfterFree == \A p \in Publisher : flight[p].todo \cap freed = {}

(***************************************************************************)
(* Every engine that is not freed is in the table or in the hands of the   *)
(* control thread, also after a failed attach and when the manager is      *)
(* destroyed; and one that is subscribed anywhere is not freed.            *)
(***************************************************************************)
EnginesOwned ==
  /\ used \ freed \subseteq Active \cup InHand
  /\ \A h \in Hub : Subscribed(h) \cap freed = {}
  /\ control.pc = "gone" => used = freed

(***************************************************************************)
(* Round-robin placement: as long as no channel was removed, the disks     *)
(* hold the same number of channels, give or take one.                     *)
(***************************************************************************)
EvenPlacement ==
  LET load(d) == Cardinality({i \in 1 .. NSlots : slots[i].channel # None /\ slots[i].disk = d})
  IN  ~CapacityAware /\ ~removed => \A d, e \in Disk : load(d) <= load(e) + 1

\* What holds of the engines at every moment: alive while called, owned by somebody, spread over the disks.
EnginesSafe == TypeOK /\ NoUseAfterFree /\ EnginesOwned /\ EvenPlacement
=============================================================================
