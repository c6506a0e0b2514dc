----------------------------- MODULE NopSettings -----------------------------
(***************************************************************************)
(* The request dispatcher of the NOP application and its handlers.         *)
(*                                                                         *)
(* A client sends a method with arguments.  nop_router.c finds its row,    *)
(* cap_registry.c says whether its capability is on, the row (NopHandlers) *)
(* says what happens: a value kept in a static variable of the file, read  *)
(* back, a call of the hardware, or the request handed on to the ONVIF     *)
(* camera of the channel.                                                  *)
(*                                                                         *)
(* A behaviour follows one field of one cell ("focus"): the store is the   *)
(* value of this field on the channels of Slot.  Written is history: what  *)
(* the clients were told is stored, by the channel they named.             *)
(***************************************************************************)
EXTENDS NopHandlers, Integers

CONSTANTS Value, Cells, Role

VARIABLES focus, fitted, enabled, onvif, store, written, reply
vars == <<focus, fitted, enabled, onvif, store, written, reply>>

-----------------------------------------------------------------------------
(* The table of the router. *)

HalHandlers ==
     AudioHandlers @@ PtzHandlers @@ OtaHandlers @@ StorageHandlers @@ StreamHandlers
  @@ RecordHandlers @@ LightHandlers @@ FloodlightSwitchHandlers @@ FloodlightScheduleHandlers
  @@ FloodlightModeHandlers @@ ChannelLightHandlers @@ LightScheduleHandlers
CoreHandlers ==
     AgentHandlers @@ AgentReportHandlers @@ AuthHandlers @@ DeviceHandlers
  @@ AiFilterHandlers @@ AiZoneHandlers @@ AiCapabilities @@ AiRuleHandlers @@ AiEventHandlers
  @@ EventHandlers @@ EventDownloadHandlers @@ CloudConfigHandlers @@ CloudRecordHandlers
  @@ CloudScheduleHandlers @@ CloudQueryHandlers @@ AudioAlertHandlers @@ DoorbellHandlers
  @@ WifiHandlers @@ ChimeHandlers @@ ChimePairHandlers @@ AddCameraHandlers @@ AccessHandlers @@ CastHandlers
  @@ ChannelNameHandlers @@ PowerHandlers @@ CameraHandlers @@ AttachHandlers
  @@ ChannelStatsHandlers @@ SensorHandlers @@ CloudStatsHandlers @@ SecurityHandlers
  @@ OsdHandlers @@ PictureHandlers @@ CooldownHandlers @@ QuietHandlers @@ PushHandlers
  @@ ClockHandlers @@ SystemHandlers @@ PictureValueHandlers @@ ResolutionHandlers @@ PanoramaHandlers
RecorderHandlers ==
     LoginHandlers @@ UserHandlers @@ LanHandlers @@ LanFirmwareHandlers @@ DdnsNtpHandlers
  @@ FtpPoeHandlers @@ PortHandlers @@ EmailHandlers @@ LinkHandlers @@ PlaybackHandlers
  @@ PlaybackModeHandlers @@ PackHandlers @@ DisplayHandlers @@ SoundHandlers
  @@ MaintenanceHandlers @@ AbnormalityHandlers

Shared == HalHandlers @@ CoreHandlers
Handlers == IF Role = "recorder" THEN Shared @@ RecorderHandlers ELSE Shared

(* The capabilities a HAL lights; the other ones are always on. *)
Backed(m) == m \in DOMAIN HalHandlers

\* bug: a row is forgotten in the central table
MappedShort == {"ptzMove", "X_NightOwl_getOSD", "X_NightOwl_setOSD", "getChannelSensorConfig"}

(* The methods onvif_map_table.c has a mapper for (those of the presets and *)
(* patrols aside).                                                         *)
Mapped ==
  {"ptzMove", "ptzMoveByStep", "ptzMoveStop", "ptzGotoPreset", "ptzFocusByStep", "ptzFocusStop",
   "X_NightOwl_getChannelPrivacyZone", "X_NightOwl_setChannelPrivacyZone",
   "X_NightOwl_getOSD", "X_NightOwl_setOSD",
   "GUI_getChannelMediaProfiles", "GUI_setChannelMediaProfiles",
   "AI_getChannelLineCrossDetect", "AI_setChannelLineCrossDetect",
   "AI_getChannelFieldIntrusionDetect", "AI_setChannelFieldIntrusionDetect",
   "getChannelSensorConfig", "setChannelSensorConfig",
   "GUI_upgradeChannelFirmware", "X_NightOwl_upgradeChannelFirmware",
   "X_NightOwl_getChannelTriggerActivityZone", "X_NightOwl_setChannelTriggerActivityZone"}

-----------------------------------------------------------------------------
(* Channels. *)

Top       == 15                    \* XX_MAX_CHANNELS - 1
NoChannel == 99                    \* the request has no "channel"
Wire      == {0, 1, Top, Top + 1}  \* the numbers that clients send
Slot      == {0, 1, Top - 1, Top}  \* the elements they end up in

Base(at)     == IF at.clamp \in {"one", "nearOne", "port"} THEN 1 ELSE 0
Asked(at, c) == IF c = NoChannel THEN at.absent ELSE c
InRange(at, c) == Asked(at, c) - Base(at) \in 0..Top

Nearer(n) == IF n < 0 THEN 0 ELSE Top
(* The element of the handler's array: clamp_channel and its relatives. *)
Index(at, c) ==
  CASE at.per = "device"                  -> 0
    [] InRange(at, c)                     -> Asked(at, c) - Base(at)
    [] at.clamp \in {"near", "nearOne"}   -> Nearer(Asked(at, c) - Base(at))
    [] OTHER                              -> 0
Refuses(at, c) == at.clamp = "port" /\ ~InRange(at, c)

(* The channel a client means, by the number it sends.  A handler that asks *)
(* for a channel promises a value for each, also when it keeps one for all.*)
PerChannel(h) == h.at.per = "channel" \/ "channel" \in h.needs
Means(h, c)   == IF PerChannel(h) THEN Asked(h.at, c) ELSE 0
Promised(h, c) == PerChannel(h) => IF h.at.per = "channel" THEN InRange(h.at, c) ELSE Means(h, c) \in 0..Top

-----------------------------------------------------------------------------
(* Requests and answers. *)

Default == "default"                \* what a field has before it is set
Unknown == "unknown"

Rows(cell)   == {m \in DOMAIN Handlers : Handlers[m].cell = cell}
FieldsOf(cell) == UNION {Handlers[m].fields : m \in Rows(cell)}
Foci == UNION {{[cell |-> c, field |-> f] : f \in IF FieldsOf(c) = {} THEN {"none"} ELSE FieldsOf(c)}
               : c \in Cells}
AllCells == {Handlers[m].cell : m \in DOMAIN Handlers}

(* The arguments of a request: all, only the mandatory ones, one of these   *)
(* missing, all but the field that is followed.                            *)
Arguments(h) ==
  LET all == h.needs \cup h.fields \cup h.oneOf
      some == {h.needs \cup {a} : a \in h.oneOf} \cup {h.needs}
  IN  {all, all \ {focus.field}} \cup some \cup {h.needs \ {a} : a \in h.needs}

Found(h, args) == h.needs \subseteq args /\ (h.oneOf = {} \/ h.oneOf \cap args # {})

NoReply == [status |-> "none", read |-> Unknown, of |-> 0, method |-> "none"]
Reply(m, status) == [NoReply EXCEPT !.status = status, !.method = m]
Answer(m, status) == reply' = Reply(m, status)

-----------------------------------------------------------------------------
\* The cell of the configuration under test, the request and its answer.
TypeOK ==
  /\ focus \in Foci /\ fitted \in BOOLEAN /\ enabled \in BOOLEAN
  /\ onvif \subseteq {0, 1}
  /\ store \in [Slot -> Value \cup {Default}]
  /\ written \in [Wire -> Value \cup {Default, Unknown}]
  /\ reply.status \in {"none", "OK", "PARAM", "NOTIMPL", "IO", "501", "REFUSED"}

(* nop_app_create: the capabilities with a HAL are lit, the core ones too. *)
Init ==
  /\ focus \in Foci
  /\ fitted \in BOOLEAN
  /\ enabled = fitted
  /\ onvif = {}
  /\ store = [i \in Slot |-> Default]
  /\ written = [c \in Wire |-> Default]
  /\ reply = NoReply

Static == UNCHANGED <<focus, fitted>>

(* nop_app_set_capability: the core capabilities are or-ed in again. *)
SetCapability(on) ==
  /\ \E m \in Rows(focus.cell) : Backed(m)            \* nothing else looks at it
  /\ enabled' = on /\ reply' = NoReply
  /\ Static /\ UNCHANGED <<onvif, store, written>>

(* Cameras are admitted to the channel table and leave it. *)
Rebind(c) ==
  /\ \E m \in Rows(focus.cell) : Handlers[m].onvif.asked
  /\ onvif' = IF c \in onvif THEN onvif \ {c} ELSE onvif \cup {c}
  /\ reply' = NoReply
  /\ Static /\ UNCHANGED <<enabled, store, written>>

-----------------------------------------------------------------------------

(* dispatch_one: the row, then its capability. *)
IsOn(m) == Backed(m) => enabled

Gated(m) ==
  /\ m \notin DOMAIN Handlers \/ ~IsOn(m)
  /\ Answer(m, "501")
  /\ Static /\ UNCHANGED <<enabled, onvif, store, written>>

(* A handler asks whether the channel is an ONVIF camera, and if so leaves  *)
(* the request to the mapper of the channel that the request names.        *)
Decides(h, c) == IF h.at.per = "channel" THEN Index(h.at, c) ELSE IF c = NoChannel THEN 0 ELSE c
Forwards(h, c, args) == h.onvif.asked /\ h.onvif.after \subseteq args /\ Decides(h, c) \in onvif
Sent(c) == IF c = NoChannel THEN 0 ELSE c

Forward(m, c, args) ==
  LET h == Handlers[m]
  IN  /\ Forwards(h, c, args)
      /\ \E status \in IF m \notin Mapped THEN {"NOTIMPL"}
                       ELSE IF Sent(c) \in onvif THEN {"OK", "IO", "PARAM"} ELSE {"IO", "PARAM"} :
           reply' = Reply(m, status)
      /\ UNCHANGED <<store, written>>

Refuse(m, c, args) ==
  LET h == Handlers[m]
  IN  /\ \/ ~Found(h, args)
         \/ Refuses(h.at, c) /\ h.does \in {"put", "keep"}
         \/ h.does = "once" /\ store[Index(h.at, c)] # Default
      /\ Answer(m, "PARAM")
      /\ UNCHANGED <<store, written>>

(* What a setter leaves in the field: an argument that is not there means   *)
(* the default to a put, and the old value to a keep.                      *)
Left(h, args, v, old) ==
  CASE h.does = "clear"                               -> Default
    [] focus.field \in args \/ h.does = "once"        -> v
    [] h.does = "keep"                                -> old
    [] OTHER                                          -> Default

Change(m, c, args, v) ==
  LET h == Handlers[m]
      i == Index(h.at, c)
      w == Left(h, args, v, store[i])
  IN  /\ store' = [store EXCEPT ![i] = w]
      /\ written' = [n \in Wire |->
                       CASE Promised(h, c) /\ n = Means(h, c)             -> w
                         [] ~Promised(h, c) /\ Index(h.at, n) = i         -> Unknown
                         [] OTHER                                         -> written[n]]
      /\ Answer(m, "OK")

Read(m, c) ==
  LET h == Handlers[m]
  IN  /\ reply' = IF Promised(h, c)
                  THEN [Reply(m, "OK") EXCEPT !.read = store[Index(h.at, c)], !.of = Means(h, c)]
                  ELSE Reply(m, "OK")
      /\ UNCHANGED <<store, written>>

(* A call of the hardware: not there, or its own result. *)
CallHal(m) ==
  /\ \E status \in IF fitted THEN {"OK", "IO"} ELSE {"NOTIMPL"} : Answer(m, status)
  /\ UNCHANGED <<store, written>>

(* Answers that read no cell; chimes and added cameras are in Admission.    *)
Fixed(m) == Answer(m, "OK") /\ UNCHANGED <<store, written>>

Handle(m, c, args, v) ==
  LET h == Handlers[m]
  IN  /\ IsOn(m)
      /\ \/ Forward(m, c, args)
         \/ /\ ~Forwards(h, c, args)
            /\ \/ Refuse(m, c, args)
               \/ /\ Found(h, args)
                  /\ \/ h.does \in {"put", "keep", "clear"} /\ ~Refuses(h.at, c) /\ Change(m, c, args, v)
                     \/ h.does = "once" /\ store[Index(h.at, c)] = Default /\ Change(m, c, args, v)
                     \/ h.does = "get" /\ Read(m, c)
                     \/ h.does \in {"ask", "tell"} /\ CallHal(m)
                     \/ h.does \in {"say", "drive"} /\ Fixed(m)
      /\ Static /\ UNCHANGED <<enabled, onvif>>

(* The channel is an argument of its own: it is there when it is asked for. *)
Named(h, c, args) == ("channel" \in args) => c # NoChannel

Next ==
  \/ \E on \in BOOLEAN : SetCapability(on)
  \/ \E c \in {0, 1} : Rebind(c)
  \/ \E m \in Rows(focus.cell) :
       \/ Gated(m)
       \/ \E c \in Wire \cup {NoChannel}, args \in Arguments(Handlers[m]), v \in Value :
            Named(Handlers[m], c, args) /\ Handle(m, c, args, v)

Spec == Init /\ [][Next]_vars

-----------------------------------------------------------------------------
(* Properties. *)

(* A getter gives back what the last accepted setter of its cell was sent   *)
(* for the channel that both named (or both left out), whatever was set on *)
(* the other channels: the two agree on the variable, on the default       *)
(* channel and on where channels start to count.  A channel out of range   *)
(* is written at an end of the array, and ends the promise there.          *)
ReadsBack ==
  \/ reply.read = Unknown
  \/ written[reply.of] \in {reply.read, Unknown}

(* The handlers commit to the ONVIF path before they know whether there is  *)
(* a mapper: each method that can be forwarded has one.                    *)
ForwardsAreMapped == \A m \in Rows(focus.cell) : reply.method = m => reply.status # "NOTIMPL" \/ Handlers[m].does \in {"ask", "tell"}

(* The methods of the core capabilities are never gated off, whatever is    *)
(* switched.                                                               *)
CoreAnswers == reply.status = "501" => Backed(reply.method)

\* What holds of the dispatch at every moment: a method that is there is answered, by a handler or by a mapper.
RoutesAnswer == TypeOK /\ ForwardsAreMapped /\ CoreAnswers
=============================================================================
