------------------------------ MODULE AppControl ------------------------------
(***************************************************************************)
(* Control of the application: the settings database with its subscribers  *)
(* (components/config/src/nvr_settings.c), the command router and its one  *)
(* thread (app/router/nvr_cmd_router.c), and how nvr_app.c starts, follows *)
(* the settings (remote access over BLE and P2P, the cloud uploader) and   *)
(* stops (app/src/nvr_app.c).                                              *)
(*                                                                         *)
(* The router answers commands from before the start has read and          *)
(* subscribed to everything until nearly the end of the stop, so its       *)
(* thread and the main thread meet in the same functions.  A statement of  *)
(* the database is atomic and durable; the power may fail at any time.     *)
(***************************************************************************)
EXTENDS Integers, FiniteSets

CONSTANTS
  Owner,    \* owners that may be bound; each has its stoken
  Unbound   \* no owner row, or an empty owner_id

ControlAssumption == Unbound \notin Owner

VARIABLES
  db,      \* the database: seeded, owner, admin (a local account), remote (service.remote_access), cloud (cloud.switch), name
  phase,   \* how far the main thread is
  subs,    \* the prefixes nvr_app has subscribed to
  radio,   \* ble and tutk_on
  up,      \* the uploader: does it run, its switch, its stoken
  apply,   \* apply_remote_access of the main thread and of the router thread
  router,  \* what the router thread does
  past     \* history: see Fresh

controlVars == <<db, phase, subs, radio, up, apply, router, past>>

Thread == {"main", "router"}
Name == {"default", "given"}
Resting == [at |-> "idle", eff |-> FALSE]
NoUploader == [on |-> FALSE, switch |-> FALSE, token |-> Unbound]
\* Since the process began: did two applies overlap, a change miss its subscriber, a command come, one come after
\* the stop began; name is what was last acknowledged.
Fresh(name) == [overlap |-> FALSE, missed |-> FALSE, asked |-> FALSE, late |-> FALSE, name |-> name]
Blank == [seeded |-> FALSE, owner |-> Unbound, admin |-> FALSE, remote |-> FALSE, cloud |-> FALSE, name |-> "default"]

ControlInit ==
  /\ db = Blank /\ phase = "off" /\ subs = {}
  /\ radio = [ble |-> FALSE, tutk |-> FALSE] /\ up = NoUploader
  /\ apply = [t \in Thread |-> Resting] /\ router = "none" /\ past = Fresh("default")

-----------------------------------------------------------------------------
(* apply_remote_access *)

\* remote_access_effective: an owner, or no account at all, or the switch.
Effective(d) == d.owner # Unbound \/ ~d.admin \/ d.remote

Other(t) == IF t = "main" THEN "router" ELSE "main"

ApplyRead(t) ==
  /\ apply[t].at = "read"
  /\ apply' = [apply EXCEPT ![t] = [at |-> "tutk", eff |-> Effective(db)]]
  /\ past' = [past EXCEPT !.overlap = @ \/ apply[Other(t)].at # "idle"]
  /\ UNCHANGED <<db, phase, subs, radio, up, router>>

\* start_tutk may fail; stop_tutk does not.
ApplyTutk(t) ==
  /\ apply[t].at = "tutk" /\ apply' = [apply EXCEPT ![t].at = "ble"]
  /\ \E works \in BOOLEAN : radio' = [radio EXCEPT !.tutk = apply[t].eff /\ (@ \/ works)]
  /\ UNCHANGED <<db, phase, subs, up, router, past>>

ApplyBle(t) ==
  /\ apply[t].at = "ble" /\ apply' = [apply EXCEPT ![t] = Resting]
  /\ radio' = [radio EXCEPT !.ble = apply[t].eff]
  /\ UNCHANGED <<db, phase, subs, up, router, past>>

Applies(t) == ApplyRead(t) \/ ApplyTutk(t) \/ ApplyBle(t)

-----------------------------------------------------------------------------
(* nvr_app_start and nvr_app_stop, on the main thread. *)

Reaches(p) == phase' = p

Open ==
  /\ phase = "off" /\ Reaches(IF db.seeded THEN "opened" ELSE "seeding")
  /\ past' = Fresh(past.name)
  /\ UNCHANGED <<db, subs, radio, up, apply, router>>

\* seed_from_json: one transaction.
Seed ==
  /\ phase = "seeding" /\ Reaches("opened")
  /\ db' = [db EXCEPT !.cloud = FALSE, !.name = "default", !.seeded = TRUE]
  /\ UNCHANGED <<subs, radio, up, apply, router, past>>

\* nvr_cmd_router_start; the port may be taken.
StartRouter ==
  /\ phase = "opened" /\ Reaches("routed") /\ router' \in {"none", "idle"}
  /\ UNCHANGED <<db, subs, radio, up, apply, past>>

\* maybe_start_uploader: there is no disk or no UID, or three steps.
NoCloud == phase = "routed" /\ Reaches("cloud") /\ UNCHANGED <<db, subs, radio, up, apply, router, past>>
StartUploader ==
  /\ phase = "routed" /\ Reaches("made")
  /\ up' = [on |-> TRUE, switch |-> FALSE, token |-> db.owner] /\ UNCHANGED <<db, subs, radio, apply, router, past>>
SetSwitch ==
  /\ phase = "made" /\ Reaches("switched")
  /\ up' = [up EXCEPT !.switch = db.cloud] /\ UNCHANGED <<db, subs, radio, apply, router, past>>
FollowCloud ==
  /\ phase = "switched" /\ Reaches("cloud") /\ subs' = subs \cup {"cloud."}
  /\ UNCHANGED <<db, radio, up, apply, router, past>>

\* The switch of a box with a local account alone does not survive.
ResetRemote ==
  /\ phase = "cloud" /\ Reaches("reset")
  /\ db' = [db EXCEPT !.remote = @ /\ ~(db.owner = Unbound /\ db.admin)]
  /\ UNCHANGED <<subs, radio, up, apply, router, past>>

FollowOwner ==
  /\ phase = "reset" /\ Reaches("owner") /\ subs' = subs \cup {"nop_owner"}
  /\ UNCHANGED <<db, radio, up, apply, router, past>>
FollowRemote ==
  /\ phase = "owner" /\ Reaches("applying") /\ subs' = subs \cup {"service.remote_access"}
  /\ apply' = [apply EXCEPT !["main"].at = "read"]
  /\ UNCHANGED <<db, radio, up, router, past>>
Started ==
  /\ phase = "applying" /\ apply["main"].at = "idle" /\ Reaches("up")
  /\ UNCHANGED <<db, subs, radio, up, apply, router, past>>

StopRemote ==
  /\ phase = "up" /\ Reaches("dark") /\ radio' = [ble |-> FALSE, tutk |-> FALSE]
  /\ past' = [past EXCEPT !.late = apply["router"].at # "idle"] /\ UNCHANGED <<db, subs, up, apply, router>>
StopUploader ==
  /\ phase = "dark" /\ Reaches("drained") /\ up' = NoUploader /\ UNCHANGED <<db, subs, radio, apply, router, past>>
\* bug: the listening socket stays open until after the join
ListenOn == phase = "drained" /\ Reaches("drained") /\ UNCHANGED <<db, subs, radio, up, apply, router, past>>
\* nvr_cmd_router_stop: no further command is accepted; the thread is joined, whatever it is doing.
CloseListener == phase = "drained" /\ Reaches("closing") /\ UNCHANGED <<db, subs, radio, up, apply, router, past>>
StopRouter ==
  /\ phase = "closing" /\ router \in {"none", "idle"} /\ Reaches("stopped") /\ router' = "none"
  /\ UNCHANGED <<db, subs, radio, up, apply, past>>

Ends ==
  /\ phase' = "off" /\ subs' = {} /\ radio' = [ble |-> FALSE, tutk |-> FALSE] /\ up' = NoUploader
  /\ apply' = [t \in Thread |-> Resting] /\ router' = "none"
Exit == phase = "stopped" /\ Ends /\ UNCHANGED <<db, past>>
PowerFails == phase # "off" /\ Ends /\ UNCHANGED <<db, past>>

\* Nothing in the program sets up a local account: another tool does.
Provision == phase = "off" /\ db.seeded /\ db' = [db EXCEPT !.admin = TRUE] /\ UNCHANGED <<phase, subs, radio, up, apply, router, past>>

-----------------------------------------------------------------------------
(* The router thread: a command, then the subscribers of what it wrote.    *)

\* A client is accepted while the listening socket is open; its request may come when it no longer is.
Accept ==
  /\ router = "idle" /\ phase # "closing" /\ router' = "reading"
  /\ UNCHANGED <<db, phase, subs, radio, up, apply, past>>
\* The client hangs up, or what it sends writes none of these settings.
ReadsNothing == router = "reading" /\ router' = "idle" /\ UNCHANGED <<db, phase, subs, radio, up, apply, past>>

Reading == router = "reading"
Stopping == phase \in {"dark", "drained", "closing"}
\* The uploader has read what is written now, and is not told.
Missed(key) == up.on /\ key \notin subs /\ (key = "nop_owner" \/ (key = "cloud." /\ phase = "switched"))
Asked(missed) == past' = [past EXCEPT !.asked = TRUE, !.late = @ \/ Stopping, !.missed = @ \/ missed]

\* on_settings_change, for the uploader and for the remote access.
Told(key, d, heard) ==
  /\ up' = IF ~(up.on /\ heard) THEN up
           ELSE IF key = "cloud." THEN [up EXCEPT !.switch = d.cloud]
           ELSE IF key = "nop_owner" THEN [up EXCEPT !.token = d.owner] ELSE up
  /\ IF heard /\ key # "cloud." THEN router' = "applying" /\ apply' = [apply EXCEPT !["router"].at = "read"]
     ELSE router' = "idle" /\ UNCHANGED apply

\* bug: the subscribers are told before the row is written
WriteTells(key, d) ==
  /\ Reading /\ db' = d /\ Told(key, db, key \in subs)
  /\ Asked(Missed(key)) /\ UNCHANGED <<phase, subs, radio>>
\* A statement, and notify.
Write(key, d) ==
  /\ Reading /\ db' = d /\ Told(key, d, key \in subs)
  /\ Asked(Missed(key)) /\ UNCHANGED <<phase, subs, radio>>

SetOwner(o) == Write("nop_owner", [db EXCEPT !.owner = o])
\* GUI_setRemoteAccessState: AlreadyBound changes nothing.
SetRemote(on) == db.owner = Unbound /\ Write("service.remote_access", [db EXCEPT !.remote = on])
SetCloud(on) == Write("cloud.", [db EXCEPT !.cloud = on])
SetName(n) ==
  /\ Reading /\ router' = "idle" /\ db' = [db EXCEPT !.name = n]
  /\ past' = [past EXCEPT !.asked = TRUE, !.late = @ \/ Stopping, !.name = n]
  /\ UNCHANGED <<phase, subs, radio, up, apply>>

\* The subscriber returns, and the answer is sent.
Answer ==
  /\ router = "applying" /\ apply["router"].at = "idle" /\ router' = "idle"
  /\ UNCHANGED <<db, phase, subs, radio, up, apply, past>>

\* A command for a channel whose device speaks NOP is posted to it.
Forward == Reading /\ router' = "forwarding" /\ UNCHANGED <<db, phase, subs, radio, up, apply, past>>
\* Its answer, or 501 after ten seconds.
Forwarded == router = "forwarding" /\ router' = "idle" /\ UNCHANGED <<db, phase, subs, radio, up, apply, past>>

Commands ==
  \/ \E o \in Owner \cup {Unbound} : SetOwner(o)
  \/ \E on \in BOOLEAN : SetRemote(on) \/ SetCloud(on)
  \/ \E n \in Name : SetName(n)
  \/ Forward

Boot == \/ Seed \/ StartRouter \/ NoCloud \/ StartUploader \/ SetSwitch \/ FollowCloud \/ ResetRemote
        \/ FollowOwner \/ FollowRemote \/ Started
Halt == StopUploader \/ CloseListener \/ StopRouter \/ Exit

ControlNext ==
  \/ Open \/ Boot \/ StopRemote \/ Halt \/ PowerFails \/ Provision
  \/ Accept \/ ReadsNothing \/ Commands \/ Answer \/ Forwarded \/ \E t \in Thread : Applies(t)

\* The two threads run; the device answers or the post times out; a client that connected sends its request or
\* hangs up some day, for which the router has no time-out.
ControlFairness ==
  /\ WF_controlVars(Boot) /\ WF_controlVars(Halt) /\ WF_controlVars(Answer) /\ WF_controlVars(Forwarded) /\ WF_controlVars(ReadsNothing)
  /\ \A t \in Thread : WF_controlVars(Applies(t))

ControlSpec == ControlInit /\ [][ControlNext]_controlVars /\ ControlFairness

-----------------------------------------------------------------------------
(* Properties. *)

\* The settings, the radios, the uploader and the command under way.
ControlTypeOK ==
  /\ db \in [seeded : BOOLEAN, owner : Owner \cup {Unbound}, admin : BOOLEAN, remote : BOOLEAN, cloud : BOOLEAN, name : Name]
  /\ router \in {"none", "idle", "reading", "applying", "forwarding"} /\ subs \subseteq {"cloud.", "nop_owner", "service.remote_access"}
  /\ router # "applying" => apply["router"] = Resting
  /\ phase \in {"off", "stopped"} => router = "none"

Settled == phase = "up" /\ router \in {"idle", "none", "reading", "forwarding"}

(***************************************************************************)
(* nvr_app.c: a box that is up is reachable over BLE exactly when it is    *)
(* bound, has no local account, or was switched on; and over P2P only      *)
(* then.  The exception: a command during the start whose apply overlaps   *)
(* that of the main thread, of which the older may finish last.            *)
(***************************************************************************)
RemoteMatches == Settled /\ ~past.overlap => radio.ble = Effective(db) /\ (radio.tutk => Effective(db))

(***************************************************************************)
(* The uploader uploads when, and for whom, the settings say.  The         *)
(* exception: a command between what the start has read and what it has    *)
(* subscribed to, which the uploader learns of at the next change only.    *)
(***************************************************************************)
UploaderFollows == Settled /\ up.on /\ ~past.missed => up.switch = db.cloud /\ up.token = db.owner

(***************************************************************************)
(* "Lost with the power": a box with a local account alone comes up        *)
(* unreachable, whatever its switch was before and however it went down.   *)
(***************************************************************************)
ComesUpClosed ==
  phase = "up" /\ ~past.asked /\ db.admin /\ db.owner = Unbound => ~db.remote /\ ~radio.ble /\ ~radio.tutk

(***************************************************************************)
(* nvr_settings.h: the JSON files are the seed of the first start alone.   *)
(* What a command has acknowledged is there after any number of restarts,  *)
(* and power failures, one amid the seeding included.                      *)
(***************************************************************************)
AcknowledgedStays == phase # "seeding" => db.name = past.name

(***************************************************************************)
(* When the application has stopped nothing radiates, unless a command     *)
(* came or was under way while it stopped: the router is stopped after the *)
(* radio, and its subscriber starts the radio again.                       *)
(***************************************************************************)
StopsDark == phase = "stopped" /\ ~past.late => ~radio.ble /\ ~radio.tutk

(***************************************************************************)
(* A stop, once begun, ends: the router thread is joined although a        *)
(* command may be waiting for a camera or restart the radio, or a client   *)
(* be late with its request (but not one that never sends it).             *)
(***************************************************************************)
ControlStops == phase = "dark" ~> phase = "off"

\* What holds of the box at every moment: it does what its settings say, and they stay as acknowledged.
ControlSafe == ControlTypeOK /\ RemoteMatches /\ UploaderFollows /\ ComesUpClosed /\ AcknowledgedStays /\ StopsDark
=============================================================================
