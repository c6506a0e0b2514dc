----------------------------- MODULE MCServices ------------------------------
(***************************************************************************)
(* The services beside the cameras, each model-checked on its own small    *)
(* instance in one run: cloud uploads, alerts, upgrades, the NOP servers,  *)
(* the control plane of the application, and the framing over Bluetooth.   *)
(* They share no state in the code, so a behaviour here is one of one part *)
(* (variable part), the others staying in their initial states.            *)
(***************************************************************************)
EXTENDS CloudUpload, Sequences, TLC

CONSTANTS
  Caller, Job, Delivery, Lamp, Publisher, Hold, Silent, Gap, Delay, Peer, Requests, Asks, Owner, Unbound, Phone, Lengths,
  FirstCap, ContCap, MaxMsg, Modulus

VARIABLES
  part,  \* the part that runs
  busy, shown, caller, job, sess, handle, event,
  lit, lightLeft, alarm, lamps, linkage, alertPub, sent, plain,
  thread, closing, backlog, wire, bits, owed,
  db, phase, subs, radio, uploader, apply, router, past,
  phone, asm, body, harm

upVars == <<busy, shown, caller, job, sess, handle, event>>
alertsVars == <<lit, lightLeft, alarm, lamps, linkage, alertPub, sent, plain>>
serverVars == <<thread, closing, backlog, wire, bits, owed>>
controlVars == <<db, phase, subs, radio, uploader, apply, router, past>>
bleVars == <<phone, asm, body, harm>>
boxVars == <<part, vars, alertsVars, upVars, serverVars, controlVars, bleVars>>

Up == INSTANCE Upgrade WITH Event <- Delivery
Alert == INSTANCE Alerts WITH left <- lightLeft, pub <- alertPub
Server == INSTANCE NopServer
Control == INSTANCE AppControl WITH up <- uploader
Ble == INSTANCE BlePackets

MCRequests == {<<"batchCmd", "poll">>}

ASSUME BoxAssumption ==
  /\ Up!UpgradeAssumption /\ Alert!AlertsAssumption /\ Server!ServerAssumption
  /\ Control!ControlAssumption /\ Ble!BleAssumption

BoxInit ==
  /\ part \in {"upload", "alerts", "upgrade", "server", "control", "ble"}
  /\ Alert!AlertsInit
  /\ Up!UpInit
  /\ Init /\ (part = "upload" \/ (setting /\ accepted))
  /\ Server!ServerInit
  /\ Control!ControlInit
  /\ Ble!BleInit

BoxNext ==
  \/ part = "upload" /\ Next /\ UNCHANGED <<part, alertsVars, upVars, serverVars, controlVars, bleVars>>
  \/ part = "alerts" /\ Alert!AlertsNext /\ UNCHANGED <<part, vars, upVars, serverVars, controlVars, bleVars>>
  \/ part = "upgrade" /\ Up!UpNext /\ UNCHANGED <<part, vars, alertsVars, serverVars, controlVars, bleVars>>
  \/ part = "server" /\ Server!ServerNext /\ UNCHANGED <<part, vars, alertsVars, upVars, controlVars, bleVars>>
  \/ part = "control" /\ Control!ControlNext /\ UNCHANGED <<part, vars, alertsVars, upVars, serverVars, bleVars>>
  \/ part = "ble" /\ Ble!BleNext /\ UNCHANGED <<part, vars, alertsVars, upVars, serverVars, controlVars>>

BoxSpec == BoxInit /\ [][BoxNext]_boxVars

-----------------------------------------------------------------------------
(* Properties, each of its part; a liveness property under the fairness of its part. *)

\* svc_light_linkage.c, svc_push.c: dark after a stop, a panic is not cut short, pushes keep their distance.
AlertsSafe == Alert!AlertsSafe
\* nvr_ota.c, server_request.c, svc_system_events.c: one image at a time, a true report, no thread on freed memory.
UpgradeSafe == Up!UpgradeSafe
\* nop_client.c, nop_router.c, nop_longpoll.c: every answer is that of its request, whole, and no event is lost.
ServerSafe == Server!ServerSafe
\* nvr_app.c, nvr_settings.c: radios and uploader follow the settings, which survive restarts as acknowledged.
ControlSafe == Control!ControlSafe
\* nvr_ble.c: a message that is dispatched is one that was sent.
BleSafe == Ble!BleSafe
\* transport_unix.c, http_server.c, nvr_app.c: a stop that joins a serving thread returns.
StopsReturn ==
  /\ part = "server" /\ Server!ServerFairness => Server!ServerStopReturns
  /\ part = "control" /\ Control!ControlFairness => Control!ControlStops
\* nvr_ota.c, svc_light_linkage.c, uploader.c: an upgrade ends and the next one is accepted, a lamp
\* goes out, an event whose video is kept is uploaded.
JobsEnd ==
  /\ part = "upgrade" /\ Up!UpFairness => Up!NotBusyForEver
  /\ part = "alerts" /\ Alert!AlertsFairness => Alert!DarkInTheEnd
  /\ part = "upload" /\ Fairness => Uploads
==============================================================================
