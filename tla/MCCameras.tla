------------------------------ MODULE MCCameras ------------------------------
(***************************************************************************)
(* The parts of the recorder that deal with cameras, each model-checked on *)
(* its own small instance in one run: the event link to a camera, the      *)
(* channels and their streams, the admission of cameras, the manager of the*)
(* recording engines, the tables of PTZ presets and patrols with the engine*)
(* that moves a camera, the tables of set-up, and the manager of the disks *)
(* they are recorded to.  They share no state in the code, so a behaviour  *)
(* here is one of one part (variable part), the others staying in their    *)
(* initial states.                                                         *)
(***************************************************************************)
EXTENDS PtzPatrol, Sequences, TLC

CONSTANTS
  Channel, Engine, NSlots, NSinks, NDisks, Frees, CapacityAware, Publisher,
  Client, Knows, MaxEvents, Pictures, Room, Chan, RtspClient, NoClient, BackoffMax, MaxFaults,
  RegSlot, WifiHost, CoaxHost, InputOf, Finder, MaxWindows, Camera, Position, PresetSlot,
  PatrolSlot, Word, CutWord, Beginning, Nowhere, SeqMax, ChimeId, Capacity, NChunks, MaxFormats, Backlog

VARIABLES
  part,  \* the part that runs
  stopping, acceptor, conn, up, down, shut, left, pub, fan, client, fanned,
  booted, slot, stream, rtsp, camera, faults,
  slots, cursor, sinks, control, flight, freed, used, removed,
  registry, regCount, window, finder, coaxChan, plugged,
  presetTab, patrolTab, presetSeq, patrolSeq, activePatrol, engine, kept, gimbal,
  chimes, chimeCount, pairing, wizard,
  hw, sb, index, table, group, mem, current, uevents, main, policy, stopped, formats, alarms, storageFaults

linkVars == <<stopping, acceptor, conn, up, down, shut, left, pub, fan, client, fanned>>
channelsVars == <<booted, slot, stream, rtsp, camera, faults>>
admissionVars == <<registry, regCount, window, finder, coaxChan, plugged>>
managerVars == <<slots, cursor, sinks, control, flight, freed, used, removed>>
ptzVars == <<presetTab, patrolTab, presetSeq, patrolSeq, activePatrol, engine, kept, gimbal>>
setupVars == <<chimes, chimeCount, pairing, wizard>>
storageVars ==
  <<hw, sb, index, table, group, mem, current, uevents, main, policy, stopped, formats, alarms, storageFaults>>
boxVars ==
  <<part, linkVars, channelsVars, admissionVars, managerVars, ptzVars, setupVars, storageVars, vars>>

Link == INSTANCE CameraLink
Chans == INSTANCE Channels WITH Client <- RtspClient, client <- rtsp
Adm == INSTANCE Admission
Ptz == INSTANCE PtzTables
Guide == INSTANCE Setup
Manager == INSTANCE NvrRecorder
Store == INSTANCE Storage WITH MaxFaults <- 1, faults <- storageFaults

CONSTANTS x1, x2, t1, t2
MCInput == (x1 :> 0) @@ (x2 :> 1)
NotReadyOrFree == {-1, 0, 1}
TwoPatrols == {t1, t2}
TwoAndThreeSpots == (t1 :> 2) @@ (t2 :> 3)

ASSUME BoxAssumption ==
  /\ Link!LinkAssumption /\ Chans!ChannelsAssumption /\ Adm!AdmissionAssumption
  /\ Manager!ManagerAssumption /\ Ptz!PtzTablesAssumption /\ Guide!SetupAssumption
  /\ Store!StorageAssumption

BoxInit ==
  /\ part \in {"link", "channels", "admission", "manager", "ptz", "setup", "patrol", "storage"}
  /\ Link!Init
  /\ Chans!ChannelsInit
  /\ Adm!AdmInit
  /\ Manager!Init
  /\ Init /\ (part = "patrol" \/ thread = CHOOSE w \in Worker : TRUE)
  /\ Ptz!PtzInit
  /\ Guide!SetupInit
  /\ Store!StorageInit /\ (part = "storage" \/ policy = "stop")

BoxNext ==
  \/ part = "link" /\ Link!Next /\ UNCHANGED <<part, channelsVars, admissionVars, managerVars, ptzVars, setupVars, storageVars, vars>>
  \/ part = "channels" /\ Chans!ChannelsNext /\ UNCHANGED <<part, linkVars, admissionVars, managerVars, ptzVars, setupVars, storageVars, vars>>
  \/ part = "admission" /\ Adm!AdmNext /\ UNCHANGED <<part, linkVars, channelsVars, managerVars, ptzVars, setupVars, storageVars, vars>>
  \/ part = "manager" /\ Manager!Next /\ UNCHANGED <<part, linkVars, channelsVars, admissionVars, ptzVars, setupVars, storageVars, vars>>
  \/ part = "ptz" /\ Ptz!PtzNext /\ UNCHANGED <<part, linkVars, channelsVars, admissionVars, managerVars, setupVars, storageVars, vars>>
  \/ part = "setup" /\ Guide!SetupNext /\ UNCHANGED <<part, linkVars, channelsVars, admissionVars, managerVars, ptzVars, storageVars, vars>>
  \/ part = "patrol" /\ Next /\ UNCHANGED <<part, linkVars, channelsVars, admissionVars, managerVars, ptzVars, setupVars, storageVars>>
  \/ part = "storage" /\ Store!StorageNext /\ UNCHANGED <<part, linkVars, channelsVars, admissionVars, managerVars, ptzVars, setupVars, vars>>

BoxSpec == BoxInit /\ [][BoxNext]_boxVars

-----------------------------------------------------------------------------
(* Properties, each of its part; a liveness property under the fairness of its part. *)

\* svc_event8012.c: threads and connections outlive their use, and each client reads whole detections in one order.
LinkSafe == Link!LinkSafe
\* svc_event8012.c: a stop returns, with clients that read nothing, too; a connection whose stream broke leaves the list.
LinkLives == part = "link" /\ Link!Fairness => Link!LinkLive
\* stream_router.c: what a writer is given begins with a key frame after each reconnect.
ChannelsSafe == Chans!ChannelsSafe
\* nvr_channel.c: a channel whose camera is there ends up recorded, and no reconnect loses a client that still runs.
ChannelsRecover ==
  /\ [][Chans!ForgetsByResolve]_channelsVars
  /\ part = "channels" /\ Chans!ChannelsFairness => Chans!Recovers
\* svc_nvr_channels.c, svc_analog_camera.c: one camera for each channel, and it is the one the inputs remember.
AdmissionSafe == Adm!AdmissionSafe
\* svc_nvr_recorder.c: no thread calls into an engine that was freed, none is lost, and the disks share them.
EnginesSafe == Manager!EnginesSafe
\* svc_analog_camera.c, storage_mgr.c: a camera pulled for good leaves the registry, a disk that fails is told.
LossesAreNoticed ==
  /\ part = "admission" /\ Adm!AdmFairness => Adm!UnpluggedGone
  /\ part = "storage" /\ Store!StorageFairness => Store!BadIsReported
\* cap_ptz_patrol.c, svc_chime.c: the tables of presets, patrols and chimes agree with what they stand for.
TablesAgree == Ptz!PtzSafe /\ Guide!SetupSafe
\* storage_mgr.c, storage_disk.c: what is on a disk can be decrypted, a failure is told once, what is ready is used.
StorageSafe == Store!StorageSafe
\* svc_ptz_patrol.c: calls return, and a patrol that is left alone visits all its spots.
PatrolGoes == part = "patrol" /\ Fairness => PatrolGoesOn
==============================================================================
