------------------------------- MODULE Upgrade -------------------------------
(***************************************************************************)
(* Firmware upgrades and the events of the box: the upgrade of the NVR     *)
(* itself (app/ota/nvr_ota.c: a flag and one detached thread), the upgrade *)
(* session of components/nop (services/server/server_request.c: one handle *)
(* with one joinable thread), and the events of buttons and SD cards       *)
(* (services/camera/svc_system_events.c: a barrier like that of the event  *)
(* hub, on a thread of the firmware).                                      *)
(*                                                                         *)
(* nvr_ota_start may be called by several threads, nop_ota_start by one at *)
(* a time.  Percentages are left out.                                      *)
(***************************************************************************)
EXTENDS Integers, FiniteSets

CONSTANTS
  Caller,  \* threads that may call nvr_ota_start
  Job,     \* names for the threads of nvr_ota.c that exist at one time
  Event    \* threads on which the firmware delivers its events

UpgradeAssumption == IsFiniteSet(Job)

VARIABLES
  busy,    \* g_busy
  shown,   \* g_state
  caller,  \* the callers between the flag and the thread
  job,     \* the threads; result is what the last of them came to (history)
  sess,    \* the session of nop_ota: running, joinable, status, its caller and its thread
  handle,  \* the handle of the system events: attached, stopping, in_flight, freed
  event    \* where the deliveries of events are

upVars == <<busy, shown, caller, job, sess, handle, event>>
nvrVars == <<busy, shown, caller, job>>

UpInit ==
  /\ busy = FALSE /\ shown = "idle"
  /\ caller = [c \in Caller |-> "idle"]
  /\ job = [at |-> [j \in Job |-> "none"], result |-> "idle"]
  /\ sess = [running |-> FALSE, joinable |-> FALSE, status |-> "idle", at |-> "idle", thread |-> "none"]
  /\ handle = [attached |-> FALSE, stopping |-> FALSE, inFlight |-> 0, at |-> "none"]
  /\ event = [e \in Event |-> "idle"]

-----------------------------------------------------------------------------
(* nvr_ota.c *)

\* nvr_ota_start: -2 while another upgrade runs.
Claim(c) ==
  /\ caller[c] = "idle" /\ ~busy /\ busy' = TRUE
  /\ caller' = [caller EXCEPT ![c] = "create"] /\ UNCHANGED <<shown, job, sess, handle, event>>

Create(c) ==
  /\ caller[c] = "create" /\ caller' = [caller EXCEPT ![c] = "idle"]
  /\ \E j \in Job : job.at[j] = "none" /\ job' = [job EXCEPT !.at[j] = "begin"]
  /\ UNCHANGED <<busy, shown, sess, handle, event>>

CreateFails(c) ==
  /\ caller[c] = "create" /\ caller' = [caller EXCEPT ![c] = "idle"]
  /\ busy' = FALSE /\ UNCHANGED <<shown, job, sess, handle, event>>

\* A thread goes on to at, and has set the state before.
Goes(j, at, state) ==
  /\ job' = [job EXCEPT !.at[j] = at, !.result = IF at = "out" THEN state ELSE @]
  /\ shown' = state /\ UNCHANGED <<busy, caller, sess, handle, event>>

Begin(j) == job.at[j] = "begin" /\ Goes(j, "open", "downloading")
\* bug: an early return forgets the flag
OpenFailsReturns(j) ==
  /\ job.at[j] = "open" /\ job' = [job EXCEPT !.at[j] = "none", !.result = "failed"]
  /\ shown' = "failed" /\ UNCHANGED <<busy, caller, sess, handle, event>>
OpenFails(j) == job.at[j] = "open" /\ Goes(j, "out", "failed")
Progress(j) == job.at[j] = "open" /\ Goes(j, "fetch", "downloading")
FetchFails(j) == job.at[j] = "fetch" /\ Goes(j, "out", "failed")
Fetched(j) == job.at[j] = "fetch" /\ Goes(j, "verify", "verifying")
Update(j) == job.at[j] = "verify" /\ Goes(j, "update", "updating")

\* The updater has returned, whatever it returned, or there is none.
Done(j) == job.at[j] \in {"verify", "update"} /\ Goes(j, "out", "done")

Out(j) ==
  /\ job.at[j] = "out" /\ job' = [job EXCEPT !.at[j] = "none"]
  /\ busy' = FALSE /\ UNCHANGED <<shown, caller, sess, handle, event>>

Works(j) == Begin(j) \/ OpenFails(j) \/ Progress(j) \/ FetchFails(j) \/ Fetched(j) \/ Update(j) \/ Done(j) \/ Out(j)

-----------------------------------------------------------------------------
(* The session of server_request.c. *)

Session(s) == sess' = s /\ UNCHANGED <<nvrVars, handle, event>>

\* nop_ota_start: the check, and the join of the thread before.
SessionStart == sess.at = "idle" /\ ~sess.running /\ Session([sess EXCEPT !.at = "reap"])
SessionReap ==
  /\ sess.at = "reap" /\ (sess.joinable => sess.thread = "over")
  /\ \/ Session([sess EXCEPT !.joinable = FALSE, !.thread = "none", !.at = "tell"])
     \/ Session([sess EXCEPT !.joinable = FALSE, !.thread = "none", !.at = "idle"])
SessionTell == sess.at = "tell" /\ Session([sess EXCEPT !.status = "downloading", !.at = "flag"])
SessionFlag == sess.at = "flag" /\ Session([sess EXCEPT !.running = TRUE, !.at = "create"])
SessionCreate == sess.at = "create" /\ Session([sess EXCEPT !.thread = "fetch", !.at = "made"])
SessionCreateFails == sess.at = "create" /\ Session([sess EXCEPT !.status = "failed", !.at = "unflag"])
SessionUnflag == sess.at = "unflag" /\ Session([sess EXCEPT !.running = FALSE, !.at = "idle"])
SessionMade == sess.at = "made" /\ Session([sess EXCEPT !.joinable = TRUE, !.at = "idle"])

\* ota_thread: the answer, the status, the flag.
SessionEnd == sess.thread = "fetch" /\ \E s \in {"failed", "nothing", "downloaded"} : Session([sess EXCEPT !.status = s, !.thread = "told"])
SessionOver == sess.thread = "told" /\ Session([sess EXCEPT !.running = FALSE, !.thread = "over"])

\* bug: the handle is freed under its thread
DestroyAtOnce == sess.at = "idle" /\ Session([sess EXCEPT !.at = "gone"])
\* nop_ota_destroy joins.
SessionDestroy ==
  /\ sess.at = "idle" /\ (sess.joinable => sess.thread = "over")
  /\ Session([sess EXCEPT !.joinable = FALSE, !.thread = "none", !.at = "gone"])

SessionNext ==
  \/ SessionStart \/ SessionReap \/ SessionTell \/ SessionFlag \/ SessionCreate \/ SessionCreateFails
  \/ SessionUnflag \/ SessionMade \/ SessionEnd \/ SessionOver \/ SessionDestroy

-----------------------------------------------------------------------------
(* svc_system_events.c *)

Handle(h) == handle' = h /\ UNCHANGED <<nvrVars, sess>>

EventsStart ==
  /\ handle.at \in {"none", "freed"} /\ \A e \in Event : event[e] = "idle"
  /\ Handle([attached |-> TRUE, stopping |-> FALSE, inFlight |-> 0, at |-> "live"]) /\ UNCHANGED event

\* The firmware calls the sink that is attached.
Delivered(e) == event[e] = "idle" /\ handle.attached /\ event' = [event EXCEPT ![e] = "called"] /\ Handle(handle)

Refused(e) == event[e] = "called" /\ handle.at # "freed" /\ handle.stopping /\ event' = [event EXCEPT ![e] = "idle"] /\ Handle(handle)
Enter(e) ==
  /\ event[e] = "called" /\ handle.at # "freed" /\ ~handle.stopping
  /\ event' = [event EXCEPT ![e] = "work"] /\ Handle([handle EXCEPT !.inFlight = @ + 1])
\* The identity is saved, then the device is reset; or the card is looked at.
Acts(e) == event[e] = "work" /\ event' = [event EXCEPT ![e] = "leave"] /\ Handle(handle)
Leave(e) == event[e] = "leave" /\ event' = [event EXCEPT ![e] = "idle"] /\ Handle([handle EXCEPT !.inFlight = @ - 1])

\* nop_system_events_stop: detach, refuse, wait, free.
Detach == handle.at = "live" /\ Handle([handle EXCEPT !.attached = FALSE, !.at = "detached"]) /\ UNCHANGED event
Refuse == handle.at = "detached" /\ Handle([handle EXCEPT !.stopping = TRUE, !.at = "waiting"]) /\ UNCHANGED event
FreeHandle == handle.at = "waiting" /\ handle.inFlight = 0 /\ Handle([handle EXCEPT !.at = "freed"]) /\ UNCHANGED event

\* A delivery that has not reached the lock when the handle is freed: what it does then is undefined.
Stray(e) == event[e] = "called" /\ handle.at = "freed" /\ event' = [event EXCEPT ![e] = "idle"] /\ Handle(handle)

Deliveries(e) == Refused(e) \/ Enter(e) \/ Acts(e) \/ Leave(e) \/ Stray(e)
Stopping == Refuse \/ FreeHandle

UpNext ==
  \/ \E c \in Caller : Claim(c) \/ Create(c) \/ CreateFails(c)
  \/ \E j \in Job : Works(j)
  \/ SessionNext
  \/ EventsStart \/ Detach \/ Stopping \/ \E e \in Event : Delivered(e) \/ Deliveries(e)

\* Threads run; the download has a timeout, and the updater returns.
UpFairness ==
  /\ \A c \in Caller : WF_upVars(Create(c) \/ CreateFails(c))
  /\ \A j \in Job : WF_upVars(Works(j))
  /\ WF_upVars(SessionEnd \/ SessionOver) /\ WF_upVars(Stopping)
  /\ \A e \in Event : WF_upVars(Deliveries(e))

UpSpec == UpInit /\ [][UpNext]_upVars /\ UpFairness

-----------------------------------------------------------------------------
(* Properties. *)

\* The upgrade, the session of the request server and the system events.
UpTypeOK ==
  /\ busy \in BOOLEAN /\ shown \in {"idle", "downloading", "verifying", "updating", "done", "failed"}
  /\ \A c \in Caller : caller[c] \in {"idle", "create"}
  /\ sess.status \in {"idle", "downloading", "failed", "nothing", "downloaded"}
  /\ handle.inFlight = Cardinality({e \in Event : event[e] \in {"work", "leave"}})

(***************************************************************************)
(* nvr_ota.c: however the requests come, at most one thread writes the     *)
(* staged image or runs the updater.                                       *)
(***************************************************************************)
OneImageAtATime == Cardinality({j \in Job : job.at[j] # "none"}) <= 1

(***************************************************************************)
(* What is shown when no upgrade is in progress is how the last one ended: *)
(* a thread says its last word before the next one may begin.              *)
(***************************************************************************)
ShowsTheLast == ~busy => shown = job.result

(***************************************************************************)
(* An upgrade ends, and the next one is accepted.                          *)
(***************************************************************************)
NotBusyForEver == busy ~> ~busy

(***************************************************************************)
(* server_request.c: a session that is not running does not say that it    *)
(* is downloading: a poll for the end of the download finds it.            *)
(***************************************************************************)
SessionSettles == sess.at = "idle" /\ ~sess.running => sess.status # "downloading"

(***************************************************************************)
(* The thread of a session never runs on after its handle is gone, nor     *)
(* beside a second one.                                                    *)
(***************************************************************************)
SessionOwnsThread == sess.at \in {"gone", "tell", "flag", "create"} => sess.thread = "none"

(***************************************************************************)
(* svc_system_events.c: an event that is being handled holds the handle.   *)
(* (One that has not reached the lock does not: Stray.)                    *)
(***************************************************************************)
HandledHoldsHandle == \A e \in Event : event[e] \in {"work", "leave"} => handle.at # "freed"

\* What holds of upgrades and their threads at every moment: one image, a true report, no thread on freed memory.
UpgradeSafe == UpTypeOK /\ OneImageAtATime /\ ShowsTheLast /\ SessionSettles /\ SessionOwnsThread /\ HandledHoldsHandle
=============================================================================
