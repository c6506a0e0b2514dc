------------------------------- MODULE Channels -------------------------------
(***************************************************************************)
(* The channels of the NVR: the channel manager (app/channel/nvr_channel.c)*)
(* that the main loop ticks once a second, the stream manager it drives    *)
(* (components/streaming) and the RTSP clients, whose receive threads      *)
(* report what happens to a camera.                                        *)
(*                                                                         *)
(* A channel of a PoE port has one camera.  A tick of a channel is one     *)
(* step: what a receive thread does between its reads and writes could     *)
(* have happened before or after it.  A fault is a camera that goes away,  *)
(* closes its connection or refuses the login, or a receive thread that    *)
(* cannot be created.                                                      *)
(***************************************************************************)
EXTENDS Integers, FiniteSets

CONSTANTS
  Chan,        \* channels
  Client,      \* names for the RTSP clients that exist at one time
  NoClient,
  BackoffMax,  \* reconnect_max_s, in units of reconnect_base_s
  MaxFaults    \* bound on the faults of a behaviour

ChannelsAssumption ==
  /\ NoClient \notin Client /\ BackoffMax \in Nat \ {0} /\ MaxFaults \in Nat
  /\ Cardinality(Client) > Cardinality(Chan)

VARIABLES
  booted,   \* how far nvr_app_start has come with the channels
  slot,     \* the table of the channel manager
  stream,   \* the table of the stream manager
  client,   \* the RTSP clients
  camera,   \* whether the camera of a channel is there
  faults    \* history: the faults so far

chanVars == <<booted, slot, stream, client, camera, faults>>

Codec == {"right", "misread"}

\* addr: "url" given by the configuration, "onvif" still to be asked for, "asked"
FreeSlot == [use |-> FALSE, addr |-> "onvif", status |-> "empty", notified |-> FALSE, backoff |-> 1, wait |-> 0]
Unused == [used |-> FALSE, url |-> FALSE, puller |-> NoClient, state |-> "idle", codec |-> "right", writer |-> "none", gated |-> FALSE]
Gone == [chan |-> "none", pc |-> "none"]

ChannelsInit ==
  /\ booted = "off"
  /\ slot = [c \in Chan |-> FreeSlot]
  /\ stream = [c \in Chan |-> Unused]
  /\ client = [k \in Client |-> Gone]
  /\ camera = [c \in Chan |-> TRUE]
  /\ faults = 0

Of(c) == {k \in Client : client[k].chan = c}
Fault == faults < MaxFaults /\ faults' = faults + 1

-----------------------------------------------------------------------------
(* stream_mgr.cpp and stream_puller.cpp on one entry s of the stream table. *)

\* nvr_stream_add_channel: the entry is cleared, whatever it holds.
Added == [Unused EXCEPT !.used = TRUE, !.url = TRUE]

\* stream_router_open: a decoder and a writer, closed until a key frame.
Opened(s, k, codec) ==
  [s EXCEPT !.puller = k, !.state = "connecting", !.codec = codec, !.writer = "empty", !.gated = FALSE]

\* puller_stop and stream_router_close; rtsp_close joins the receive thread.
Stopped(s) == IF s.puller = NoClient THEN s
              ELSE [s EXCEPT !.puller = NoClient, !.state = "idle", !.writer = "none", !.gated = FALSE]

(* nvr_stream_start on the entry s of channel c: how the entry, the clients *)
(* and the faults may be after it.  rtsp_start only creates the receive     *)
(* thread, so that the codec asked for right after it may be the one that   *)
(* nobody has detected yet.                                                 *)
Started(c, s, clients, n) ==
  IF s.puller # NoClient \/ ~s.used THEN {<<s, clients, n>>}
  ELSE {<<Opened(s, k, codec), [clients EXCEPT ![k] = [chan |-> c, pc |-> "connect"]], n>> :
          k \in {x \in Client : clients[x].pc = "none"}, codec \in Codec}
       \cup (IF n < MaxFaults THEN {<<[s EXCEPT !.state = "fail"], clients, n + 1>>} ELSE {})

Becomes(c, o) == stream' = [stream EXCEPT ![c] = o[1]] /\ client' = o[2] /\ faults' = o[3]

Without(k, clients) == IF k = NoClient THEN clients ELSE [clients EXCEPT ![k] = Gone]

-----------------------------------------------------------------------------
(* install_slot, and what calls it. *)

\* nvr_app_start comes to the channels.
Created == booted = "off" /\ booted' = "no" /\ UNCHANGED <<slot, stream, client, camera, faults>>

Bound(addr) == [FreeSlot EXCEPT !.use = TRUE, !.addr = addr, !.status = "bound"]

\* A configured channel: with a URL, with the address of its camera, or absent.
Load(c, addr) ==
  /\ booted = "no" /\ ~slot[c].use
  /\ slot' = [slot EXCEPT ![c] = Bound(addr)]
  /\ \/ addr = "url" /\ stream' = [stream EXCEPT ![c] = Added]
     \/ addr = "onvif" /\ UNCHANGED stream
     \/ addr = "onvif" /\ camera[c] /\ stream' = [stream EXCEPT ![c] = Added]
  /\ UNCHANGED <<booted, client, camera, faults>>

Loaded == booted = "no" /\ booted' = "loaded" /\ UNCHANGED <<slot, stream, client, camera, faults>>

\* nvr_chan_start_all, one channel at a time.
StartAll(c) ==
  /\ booted = "loaded" /\ stream[c].used /\ stream[c].puller = NoClient /\ stream[c].state = "idle"
  /\ \E o \in Started(c, stream[c], client, faults) : Becomes(c, o)
  /\ UNCHANGED <<booted, slot, camera>>

Run ==
  /\ booted = "loaded" /\ \A c \in Chan : stream[c].used => stream[c].puller # NoClient \/ stream[c].state = "fail"
  /\ booted' = "run" /\ UNCHANGED <<slot, stream, client, camera, faults>>

\* on_discovered, for a camera whose channel is free.
Discover(c) ==
  /\ booted = "run" /\ camera[c] /\ ~slot[c].use
  /\ slot' = [slot EXCEPT ![c] = Bound("onvif")]
  /\ \E s \in {stream[c], Added} : stream' = [stream EXCEPT ![c] = s]
  /\ UNCHANGED <<booted, client, camera, faults>>

-----------------------------------------------------------------------------
(* tick_slot. *)

Ticked(c) == booted = "run" /\ slot[c].use /\ UNCHANGED <<booted, camera>>
Resolvable(c) == slot[c].addr = "onvif" /\ camera[c]

\* A tick is a second nearer to the next attempt.
Later(s) == [s EXCEPT !.wait = IF @ = 0 THEN 0 ELSE @ - 1]

\* bug: the time of the next attempt moves on at every tick
WaitedAgain(s) == [s EXCEPT !.wait = s.backoff]
\* The next attempt is due, or it is one second nearer.
Waited(s) ==
  IF s.wait = 0 THEN [s EXCEPT !.wait = s.backoff, !.backoff = IF 2 * s.backoff > BackoffMax THEN BackoffMax ELSE 2 * s.backoff]
  ELSE Later(s)

\* on_offline, told once.
Loss(s, state) == [s EXCEPT !.status = state, !.notified = FALSE]

\* A lost stream: what the slot becomes is given, o is its entry and the clients.
Retry(c, s, o) ==
  /\ slot' = [slot EXCEPT ![c] = Waited(Loss(s, o[1].state))]
  /\ \/ s.wait > 0 /\ Becomes(c, o)
     \/ s.wait = 0 /\ \E r \in Started(c, Stopped(o[1]), Without(o[1].puller, o[2]), o[3]) : Becomes(c, r)

\* The address of the camera is turned into a URL, added and started.
TickResolve(c) ==
  /\ Ticked(c) /\ Resolvable(c)
  /\ LET asked == [slot[c] EXCEPT !.addr = "asked"] IN
     \E o \in Started(c, Added, client, faults) :
        IF o[1].state = "fail" THEN Retry(c, asked, o)
        ELSE Becomes(c, o) /\ slot' = [slot EXCEPT ![c] = [asked EXCEPT !.status = "connecting"]]

TickPlaying(c) ==
  /\ Ticked(c) /\ ~Resolvable(c) /\ stream[c].state = "playing"
  /\ slot' = [slot EXCEPT ![c] = Later([slot[c] EXCEPT !.status = "online", !.notified = TRUE, !.backoff = 1])]
  /\ UNCHANGED <<stream, client, faults>>

TickConnecting(c) ==
  /\ Ticked(c) /\ ~Resolvable(c) /\ stream[c].state = "connecting"
  /\ slot' = [slot EXCEPT ![c] = Later([slot[c] EXCEPT !.status = "connecting"])]
  /\ UNCHANGED <<stream, client, faults>>

TickLost(c) ==
  /\ Ticked(c) /\ ~Resolvable(c) /\ stream[c].state \in {"nosignal", "fail"}
  /\ Retry(c, slot[c], <<stream[c], client, faults>>)

Tick(c) == TickResolve(c) \/ TickPlaying(c) \/ TickConnecting(c) \/ TickLost(c)

-----------------------------------------------------------------------------
(* The receive thread of a client, and its notifications (on_notify). *)

Notify(k, pc, state) ==
  /\ client' = [client EXCEPT ![k].pc = pc]
  /\ stream' = [stream EXCEPT ![client[k].chan].state = state]
  /\ UNCHANGED <<booted, slot, camera>>

Reached(k) == camera[client[k].chan]

Connects(k) == client[k].pc = "connect" /\ Reached(k) /\ Notify(k, "play", "playing") /\ UNCHANGED faults
ConnectFails(k) == client[k].pc = "connect" /\ ~Reached(k) /\ Notify(k, "over", "fail") /\ UNCHANGED faults
AuthFails(k) == client[k].pc = "connect" /\ Reached(k) /\ Fault /\ Notify(k, "ending", "fail")
NoData(k) == client[k].pc \in {"connect", "play"} /\ ~Reached(k) /\ Notify(k, "quiet", "nosignal") /\ UNCHANGED faults
Resumes(k) == client[k].pc = "quiet" /\ Reached(k) /\ Notify(k, "play", "playing") /\ UNCHANGED faults
\* The camera closes the connection, or refused the login: the last word is STOPPED.
Closes(k) == client[k].pc \in {"play", "quiet"} /\ Fault /\ Notify(k, "over", "idle")
Ends(k) == client[k].pc = "ending" /\ Notify(k, "over", "idle") /\ UNCHANGED faults

\* bug: any frame opens the gate
GateOpen(s, key) == s.codec = "right"
\* nal_classify sees no key frame in the stream of an H.265 camera taken for H.264.
Gate(s, key) == s.gated \/ (key /\ s.codec = "right")

\* stream_route_video: the first frame that a writer is given.
Frame(k, key) ==
  /\ client[k].pc = "play" /\ Reached(k)
  /\ LET c == client[k].chan  s == stream[c] IN
     /\ s.writer = "empty" /\ Gate(s, key)
     /\ stream' = [stream EXCEPT ![c].gated = TRUE, ![c].writer = IF key THEN "fromkey" ELSE "headless"]
  /\ UNCHANGED <<booted, slot, client, camera, faults>>

CameraGoes(c) == camera[c] /\ Fault /\ camera' = [camera EXCEPT ![c] = FALSE] /\ UNCHANGED <<booted, slot, stream, client>>
CameraComes(c) == ~camera[c] /\ camera' = [camera EXCEPT ![c] = TRUE] /\ UNCHANGED <<booted, slot, stream, client, faults>>

-----------------------------------------------------------------------------
Receiving(k) == Connects(k) \/ ConnectFails(k) \/ NoData(k) \/ Resumes(k) \/ Ends(k)
Boot == Loaded \/ Run \/ \E c \in Chan : StartAll(c)

ChannelsNext ==
  \/ Created \/ Boot
  \/ \E c \in Chan : Load(c, "url") \/ Load(c, "onvif") \/ Discover(c) \/ Tick(c) \/ CameraGoes(c) \/ CameraComes(c)
  \/ \E k \in Client : Receiving(k) \/ AuthFails(k) \/ Closes(k) \/ Frame(k, TRUE) \/ Frame(k, FALSE)

\* The main loop runs, the receive threads are scheduled, a camera comes back.
ChannelsFairness ==
  /\ WF_chanVars(Boot)
  /\ \A c \in Chan : WF_chanVars(Tick(c)) /\ WF_chanVars(Discover(c)) /\ WF_chanVars(CameraComes(c))
  /\ \A k \in Client : WF_chanVars(Receiving(k)) /\ WF_chanVars(Frame(k, TRUE))

ChannelsSpec == ChannelsInit /\ [][ChannelsNext]_chanVars /\ ChannelsFairness

-----------------------------------------------------------------------------
(* Properties. *)

\* The slots of nvr_channel.c, the streams and their RTSP clients.
ChannelsTypeOK ==
  /\ booted \in {"off", "no", "loaded", "run"} /\ faults \in 0 .. MaxFaults
  /\ \A c \in Chan :
       /\ slot[c].addr \in {"url", "onvif", "asked"} /\ slot[c].wait \in 0 .. BackoffMax /\ slot[c].backoff \in 1 .. BackoffMax
       /\ slot[c].status \in {"empty", "bound", "connecting", "online", "nosignal", "fail"}
       /\ stream[c].puller \in Client \cup {NoClient} /\ stream[c].codec \in Codec
       /\ stream[c].puller # NoClient => client[stream[c].puller].chan = c
  /\ \A k \in Client : client[k].pc \in {"none", "connect", "play", "quiet", "ending", "over"}

Abandoned(c) == stream[c].puller # NoClient /\ client[stream[c].puller].pc = "over" /\ stream[c].state = "idle"
Forgotten(k) == client[k].chan # "none" /\ stream[client[k].chan].puller # k
Up(c) == slot[c].status = "online" /\ stream[c].state = "playing"

(***************************************************************************)
(* nvr_channel.h: the state machine of a channel is one of online, lost    *)
(* and reconnect.  Whatever was lost, a channel whose camera is there ends *)
(* up online and recorded and stays so, unless its client has ended with   *)
(* STOPPED, was forgotten, or took the codec for another one.              *)
(***************************************************************************)
Recovers ==
  \A c \in Chan : <>[](slot[c].use /\ ~Abandoned(c) /\ \A k \in Of(c) : ~Forgotten(k))
    => <>[](Up(c) /\ (stream[c].codec = "right" => stream[c].writer = "fromkey"))

(***************************************************************************)
(* A client is forgotten (it streams until the process ends and nobody can *)
(* stop it) only by the first tick of a channel that was configured with   *)
(* the address of its camera and whose URL was known at once; later no     *)
(* reconnect, however it fails, loses a client.                            *)
(***************************************************************************)
ForgetsByResolve ==
  \A k \in Client : (client[k].chan # "none" /\ ~Forgotten(k) /\ Forgotten(k)')
    => slot[client[k].chan].addr = "onvif" /\ slot'[client[k].chan].addr = "asked"
ForgottenOnlyByResolve == [][ForgetsByResolve]_chanVars

(***************************************************************************)
(* What a writer of the recorder is given begins with a key frame, after   *)
(* every reconnect too.                                                    *)
(***************************************************************************)
RecordsFromKey == \A c \in Chan : stream[c].writer # "headless"

\* What holds of slots, streams and clients at every moment: recording begins with a key frame.
ChannelsSafe == ChannelsTypeOK /\ RecordsFromKey
=============================================================================
