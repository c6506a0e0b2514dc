------------------------------ MODULE Admission ------------------------------
(***************************************************************************)
(* How cameras come into the registry of channels of components/nop        *)
(* (services/nvr/svc_nvr_channels.c): found while a pairing window is open *)
(* (svc_nvr_addcamera.c), plugged into a coaxial input                     *)
(* (svc_analog_camera.c), or added by the firmware.  Each has a lock of    *)
(* its own, and the first two call the registry; nop_nvr_addcamera_offer   *)
(* lets go of its lock to do so.                                           *)
(*                                                                         *)
(* What a channel is besides its number and its host is left out.          *)
(***************************************************************************)
EXTENDS Integers, FiniteSets

CONSTANTS
  RegSlot,     \* slots of the registry
  WifiHost,    \* cameras of the network
  CoaxHost,    \* the synthetic host of each coaxial input
  InputOf,     \* the number of that input
  Finder,      \* threads that report the cameras they find
  MaxWindows   \* bound on the windows that are opened

AdmissionAssumption ==
  /\ WifiHost \cap CoaxHost = {} /\ InputOf \in [CoaxHost -> 0 .. Cardinality(CoaxHost) - 1] /\ MaxWindows \in Nat
  /\ IsFiniteSet(RegSlot) /\ IsFiniteSet(WifiHost) /\ IsFiniteSet(CoaxHost)

VARIABLES
  registry,  \* the slots of the registry
  regCount,  \* its count
  window,    \* the pairing window; opened counts them (history)
  finder,    \* where each call of offer is, and for what
  coaxChan,  \* registry_channel of each input, or -1
  plugged    \* the inputs with a camera

admVars == <<registry, regCount, window, finder, coaxChan, plugged>>

Hosts == WifiHost \cup CoaxHost
Highest == Cardinality(RegSlot) + Cardinality(CoaxHost)
NoEntry == [host |-> "none", chan |-> -1]
Quiet == [at |-> "idle", host |-> "none"]

AdmInit ==
  /\ registry = [s \in RegSlot |-> NoEntry] /\ regCount = 0
  /\ window = [state |-> "idle", elapsed |-> FALSE, added |-> 0, opened |-> 0]
  /\ finder = [f \in Finder |-> Quiet]
  /\ coaxChan = [x \in CoaxHost |-> -1] /\ plugged = {}

-----------------------------------------------------------------------------
(* The registry. *)

Active(reg) == {s \in RegSlot : reg[s].chan # -1}
ByHost(reg, h) == {s \in Active(reg) : reg[s].host = h}
ByChannel(reg, n) == {s \in Active(reg) : reg[s].chan = n}
InUse(reg, n) == ByChannel(reg, n) # {}
LowestFree(reg) == CHOOSE n \in 0 .. Highest : ~InUse(reg, n) /\ \A k \in 0 .. n - 1 : InUse(reg, k)

\* bug: the channel asked for is taken even if another one has it
AssignedAsAsked(reg, want) == IF want >= 0 THEN want ELSE LowestFree(reg)
Assigned(reg, want) == IF want >= 0 /\ ~InUse(reg, want) THEN want ELSE LowestFree(reg)

\* nop_nvr_channels_add: the channel that h gets, or -1.
ChannelFor(h, want) ==
  IF ByHost(registry, h) # {} THEN registry[CHOOSE s \in ByHost(registry, h) : TRUE].chan
  ELSE IF Active(registry) = RegSlot THEN -1
  ELSE Assigned(registry, want)

Register(h, want) ==
  IF ByHost(registry, h) # {} \/ Active(registry) = RegSlot THEN UNCHANGED <<registry, regCount>>
  ELSE LET s == CHOOSE x \in RegSlot \ Active(registry) : TRUE IN
       /\ registry' = [registry EXCEPT ![s] = [host |-> h, chan |-> Assigned(registry, want)]]
       /\ regCount' = regCount + 1

\* nop_nvr_channels_remove.
Deregister(n) ==
  LET held == ByChannel(registry, n) IN
  /\ registry' = [s \in RegSlot |-> IF s \in held THEN NoEntry ELSE registry[s]]
  /\ regCount' = IF held = {} THEN regCount ELSE regCount - 1

\* The firmware adds a camera, with a channel of its choice or without one, or removes one.
AddManually(h, want) == Register(h, want) /\ UNCHANGED <<window, finder, coaxChan, plugged>>
RemoveCamera(h) ==
  /\ ByHost(registry, h) # {}
  /\ Deregister(registry[CHOOSE s \in ByHost(registry, h) : TRUE].chan)
  /\ UNCHANGED <<window, finder, coaxChan, plugged>>

-----------------------------------------------------------------------------
(* The pairing window. *)

\* refresh_state_locked.
Refreshed == IF window.state = "scanning" /\ window.elapsed THEN [window EXCEPT !.state = "done"] ELSE window

OpenWindow ==
  /\ Refreshed.state # "scanning" /\ window.opened < MaxWindows
  /\ window' = [state |-> "scanning", elapsed |-> FALSE, added |-> 0, opened |-> window.opened + 1]
  /\ UNCHANGED <<registry, regCount, finder, coaxChan, plugged>>

CloseWindow == window' = [window EXCEPT !.state = "idle"] /\ UNCHANGED <<registry, regCount, finder, coaxChan, plugged>>
WindowStatus == window' = Refreshed /\ UNCHANGED <<registry, regCount, finder, coaxChan, plugged>>

\* Time passes.
WindowElapses ==
  /\ window.state = "scanning" /\ window' = [window EXCEPT !.elapsed = TRUE]
  /\ UNCHANGED <<registry, regCount, finder, coaxChan, plugged>>

\* nop_nvr_addcamera_offer: the check, the registry, the count.
OfferCheck(f, h) ==
  /\ finder[f].at = "idle" /\ window' = Refreshed
  /\ finder' = [finder EXCEPT ![f] = IF Refreshed.state = "scanning" THEN [at |-> "admit", host |-> h] ELSE Quiet]
  /\ UNCHANGED <<registry, regCount, coaxChan, plugged>>

OfferAdmit(f) ==
  /\ finder[f].at = "admit" /\ Register(finder[f].host, -1)
  /\ finder' = [finder EXCEPT ![f] = IF ChannelFor(finder[f].host, -1) < 0 THEN Quiet ELSE [@ EXCEPT !.at = "count"]]
  /\ UNCHANGED <<window, coaxChan, plugged>>

OfferCount(f) ==
  /\ finder[f].at = "count" /\ finder' = [finder EXCEPT ![f] = Quiet]
  /\ window' = [window EXCEPT !.added = IF window.state = "scanning" /\ @ < Highest THEN @ + 1 ELSE @]
  /\ UNCHANGED <<registry, regCount, coaxChan, plugged>>

-----------------------------------------------------------------------------
(* nop_analog_camera_poll on one input; the lock of the manager keeps polls apart. *)

\* bug: the input is taken for its channel
BoundToInput(x) == IF ChannelFor(x, InputOf[x]) < 0 THEN -1 ELSE InputOf[x]
BoundTo(x) == ChannelFor(x, InputOf[x])

PollIn(x) ==
  /\ x \in plugged /\ coaxChan[x] < 0
  /\ Register(x, InputOf[x]) /\ coaxChan' = [coaxChan EXCEPT ![x] = BoundTo(x)]
  /\ UNCHANGED <<window, finder, plugged>>

PollOut(x) ==
  /\ x \notin plugged /\ coaxChan[x] >= 0
  /\ Deregister(coaxChan[x]) /\ coaxChan' = [coaxChan EXCEPT ![x] = -1]
  /\ UNCHANGED <<window, finder, plugged>>

Plug(x) ==
  /\ plugged' = IF x \in plugged THEN plugged \ {x} ELSE plugged \cup {x}
  /\ UNCHANGED <<registry, regCount, window, finder, coaxChan>>

AdmNext ==
  \/ \E h \in WifiHost :
       RemoveCamera(h) \/ (\E w \in {-1, 0, 1} : AddManually(h, w)) \/ \E f \in Finder : OfferCheck(f, h)
  \/ \E f \in Finder : OfferAdmit(f) \/ OfferCount(f)
  \/ OpenWindow \/ CloseWindow \/ WindowStatus \/ WindowElapses
  \/ \E x \in CoaxHost : PollIn(x) \/ PollOut(x) \/ Plug(x)

AdmFairness == \A x \in CoaxHost : WF_admVars(PollIn(x) \/ PollOut(x))
AdmSpec == AdmInit /\ [][AdmNext]_admVars /\ AdmFairness

-----------------------------------------------------------------------------
(* Properties. *)

\* The registry, the window of add-camera and the coaxial inputs.
AdmTypeOK ==
  /\ \A s \in RegSlot : registry[s].chan \in -1 .. Highest /\ registry[s].host \in Hosts \cup {"none"}
  /\ regCount = Cardinality(Active(registry))
  /\ window.state \in {"idle", "scanning", "done"} /\ window.added \in 0 .. Highest
  /\ \A f \in Finder : finder[f].at \in {"idle", "admit", "count"}
  /\ plugged \subseteq CoaxHost

(***************************************************************************)
(* However cameras come in, at once and with whatever channel they ask     *)
(* for: no channel has two cameras and no camera two channels.             *)
(***************************************************************************)
OneCameraPerChannel ==
  \A s, t \in Active(registry) : s # t => registry[s].chan # registry[t].chan /\ registry[s].host # registry[t].host

(***************************************************************************)
(* What the manager of the coaxial inputs remembers is where the registry  *)
(* has the camera: pulling a plug removes that camera and no other one,    *)
(* though its number need not be that of the input.                        *)
(***************************************************************************)
CoaxWhereBound ==
  \A x \in CoaxHost : coaxChan[x] >= 0 => \E s \in RegSlot : registry[s] = [host |-> x, chan |-> coaxChan[x]]

(***************************************************************************)
(* A camera that is pulled for good leaves the registry.                   *)
(***************************************************************************)
UnpluggedGone == \A x \in CoaxHost : <>[](x \notin plugged) => <>[](ByHost(registry, x) = {})

\* What holds of the registry at every moment: it tells cameras apart, and the coaxial inputs agree with it.
AdmissionSafe == AdmTypeOK /\ OneCameraPerChannel /\ CoaxWhereBound
=============================================================================
