----------------------------- MODULE CloudUpload -----------------------------
(***************************************************************************)
(* Cloud upload of event recordings: the upload states that rsdk_cloud.c   *)
(* keeps in meta.db, and the thread of cloud_uploader (uploader.c) that    *)
(* polls them, takes the video of an event from the recorder and posts it. *)
(*                                                                         *)
(* A call into SQLite is one step, and so is a request to the server.  An  *)
(* event is its number in the order of starttime; it is registered once.   *)
(* The video of an event is what rsdk_group_query finds of its 300 s:      *)
(* nothing while the recorder has the segment "open", then "some", nothing *)
(* once the chunks are "gone" (overwritten).  How much of the 300 s it is, *)
(* and the slices of an upload, are left out: an upload posts what the     *)
(* query found and does not come back for the rest.  The device has its    *)
(* token, and what ends the program in order is a restart like a crash.    *)
(* rsdk_cloud_event_add_seg and rsdk_cloud_on_reclaim have no caller.      *)
(***************************************************************************)
EXTENDS Integers, FiniteSets

CONSTANTS
  NEvents,    \* bound: events that are triggered
  Cap,        \* MAX_PENDING: events fetched by one poll
  MaxCrashes  \* bound: restarts of the program

ASSUME UploadAssumption == NEvents \in Nat /\ Cap \in Nat \ {0} /\ MaxCrashes \in Nat

Event == 1 .. NEvents
None == 0

VARIABLES
  doc,      \* $.state of each event in meta.db, which survives a crash
  updated,  \* $.updated of each event
  video,    \* what the recorder has of it
  setting,  \* cloud.switch in the settings database
  on,       \* up->sw_on
  accepted, \* does the server accept this device?
  pc,       \* the worker: "poll", "batch", or a step of process_event
  batch,    \* pend[i + 1 ..]: the events fetched, to be processed in order
  cur,      \* pend[i]
  refused,  \* history: the server refused, and nobody set the switch since
  crashes

docVars == <<doc, updated>>
env == <<video, setting, accepted>>
vars == <<docVars, env, on, pc, batch, cur, refused, crashes>>

State == {"none", "pending", "uploading", "done", "failed"}
Video == {"open", "some", "gone"}

Init ==
  /\ doc = [e \in Event |-> "none"]
  /\ updated = [e \in Event |-> "absent"]
  /\ video = [e \in Event |-> "open"]
  /\ setting \in BOOLEAN /\ on = setting
  /\ accepted \in BOOLEAN
  /\ pc = "poll" /\ batch = {} /\ cur = None
  /\ refused = FALSE /\ crashes = 0

-----------------------------------------------------------------------------
(* The other threads, the recorder, the user and the server.                *)

\* nvr_rec_trigger_event registers a new event, rsdk_cloud_event_begin.
Trigger(e) ==
  /\ doc[e] = "none" /\ \A f \in Event : f < e => doc[f] # "none"
  /\ doc' = [doc EXCEPT ![e] = "pending"]
  /\ UNCHANGED <<updated, env, on, pc, batch, cur, refused, crashes>>

\* The recorder closes a segment of the event ...
Close(e) ==
  /\ doc[e] # "none" /\ video[e] = "open"
  /\ video' = [video EXCEPT ![e] = "some"]
  /\ UNCHANGED <<docVars, setting, accepted, on, pc, batch, cur, refused, crashes>>

\* ... or overwrites its chunks.
Overwrite(e) ==
  /\ video[e] = "some"
  /\ video' = [video EXCEPT ![e] = "gone"]
  /\ UNCHANGED <<docVars, setting, accepted, on, pc, batch, cur, refused, crashes>>

\* A setting cloud.* changes, and on_settings_change passes the switch on.
SetSwitch(b) ==
  /\ setting' = b /\ on' = b
  /\ refused' = FALSE
  /\ UNCHANGED <<docVars, video, accepted, pc, batch, cur, crashes>>

\* The contract of the device ends or is renewed.
Contract ==
  /\ accepted' = ~accepted
  /\ UNCHANGED <<docVars, video, setting, on, pc, batch, cur, refused, crashes>>

\* The program dies and starts again.
Restart ==
  /\ crashes < MaxCrashes
  /\ crashes' = crashes + 1
  /\ on' = setting
  /\ pc' = "poll" /\ batch' = {} /\ cur' = None
  /\ refused' = FALSE
  /\ UNCHANGED <<docVars, env>>

-----------------------------------------------------------------------------
(* The worker.                                                              *)

\* An event left "uploading" for long.  set_state stores strftime's text in
\* $.updated, and in SQLite a text is never less than a number.
Stale(e) == doc[e] = "uploading" /\ updated[e] = "absent"

\* bug: all but running events are fetched
AnyState == {e \in Event : doc[e] \notin {"none", "uploading"}}
\* rsdk_cloud_enumerate_pending, but for its order and limit.
Pending == {e \in Event : doc[e] \in {"pending", "failed"} \/ Stale(e)}

\* ORDER BY ts LIMIT Cap
Oldest(S) == {e \in S : Cardinality({f \in S : f <= e}) <= Cap}

Poll ==
  /\ pc = "poll" /\ on /\ Pending # {}
  /\ batch' = Oldest(Pending)
  /\ pc' = "batch"
  /\ UNCHANGED <<docVars, env, on, cur, refused, crashes>>

\* rsdk_cloud_set_state
SetState(e, s) ==
  /\ doc' = [doc EXCEPT ![e] = s]
  /\ updated' = [updated EXCEPT ![e] = "text"]

Take ==
  /\ pc = "batch"
  /\ \E e \in batch :
       /\ \A f \in batch : e <= f
       /\ SetState(e, "uploading")
       /\ cur' = e /\ batch' = batch \ {e}
  /\ pc' = "query"
  /\ UNCHANGED <<env, on, refused, crashes>>

BatchEnds ==
  /\ pc = "batch" /\ batch = {}
  /\ pc' = "poll"
  /\ UNCHANGED <<docVars, env, on, batch, cur, refused, crashes>>

\* process_event returns, with the event in state s; the loop goes on.
Finish(s) ==
  /\ SetState(cur, s)
  /\ pc' = "batch" /\ cur' = None
  /\ UNCHANGED <<env, on, batch, refused, crashes>>

\* bug: the event stays "uploading" when there is no segment
QueryForgets ==
  /\ pc = "query"
  /\ IF video[cur] # "some"
     THEN pc' = "batch" /\ cur' = None /\ UNCHANGED <<docVars, env, on, batch, refused, crashes>>
     ELSE /\ pc' = "url"
          /\ UNCHANGED <<docVars, env, on, batch, cur, refused, crashes>>
\* The segments of the event's time are looked up, rsdk_group_query.
Query ==
  /\ pc = "query"
  /\ IF video[cur] # "some"
     THEN Finish("failed")
     ELSE /\ pc' = "url"
          /\ UNCHANGED <<docVars, env, on, batch, cur, refused, crashes>>

\* vsaas_get_url: no answer, or one without a url
UrlFails == pc = "url" /\ Finish("failed")

\* The server refuses the device ...
UrlRefused ==
  /\ pc = "url" /\ ~accepted
  /\ SetState(cur, "failed")
  /\ pc' = "refused" /\ cur' = None
  /\ UNCHANGED <<env, on, batch, refused, crashes>>

\* bug: the loop goes on after a refusal
ForceOffGoesOn ==
  /\ pc = "refused"
  /\ on' = FALSE /\ refused' = TRUE
  /\ pc' = "batch"
  /\ UNCHANGED <<docVars, env, batch, cur, crashes>>
\* ... and the switch is turned off, whoever set it since, and the loop left.
ForceOff ==
  /\ pc = "refused"
  /\ on' = FALSE /\ refused' = TRUE
  /\ pc' = "poll" /\ batch' = {}
  /\ UNCHANGED <<docVars, env, cur, crashes>>

UrlOk ==
  /\ pc = "url" /\ accepted
  /\ pc' = "post"
  /\ UNCHANGED <<docVars, env, on, batch, cur, refused, crashes>>

PostFails == pc = "post" /\ Finish("failed")

\* All slices are posted.
PostOk == pc = "post" /\ Finish("done")

Worker == \/ Poll \/ Take \/ BatchEnds \/ Query
          \/ UrlFails \/ UrlRefused \/ ForceOff \/ UrlOk \/ PostFails \/ PostOk

Next ==
  \/ \E e \in Event : Trigger(e) \/ Close(e) \/ Overwrite(e)
  \/ \E b \in BOOLEAN : SetSwitch(b)
  \/ Contract \/ Restart
  \/ Worker

Spec == Init /\ [][Next]_vars

(***************************************************************************)
(* The thread of the worker is scheduled and the recorder comes to the end *)
(* of a chunk.  The network works every now and then: it does not fail for *)
(* ever just when a request is under way.                                  *)
(***************************************************************************)
Fairness == /\ WF_vars(Worker) /\ SF_vars(UrlOk) /\ SF_vars(PostOk)
            /\ \A e \in Event : WF_vars(Close(e))
FairSpec == Spec /\ Fairness

-----------------------------------------------------------------------------
(* Properties. *)

\* The queue of events, the uploader's thread and its switch.
TypeOK ==
  /\ doc \in [Event -> State]
  /\ updated \in [Event -> {"absent", "text"}]
  /\ video \in [Event -> Video]
  /\ setting \in BOOLEAN /\ on \in BOOLEAN /\ accepted \in BOOLEAN /\ refused \in BOOLEAN
  /\ pc \in {"poll", "batch", "query", "url", "post", "refused"}
  /\ batch \subseteq Event
  /\ cur \in Event \cup {None}
  /\ crashes \in 0 .. MaxCrashes

Abandoned(e) == doc[e] = "uploading" /\ cur # e

(***************************************************************************)
(* Every way out of process_event settles the state of its event: an event *)
(* is "uploading" while the worker works on it, or because a crash stopped *)
(* the worker just then.                                                   *)
(***************************************************************************)
UploadingIsHeld ==
  /\ cur # None => doc[cur] = "uploading"
  /\ Cardinality({e \in Event : Abandoned(e)}) <= crashes

(***************************************************************************)
(* rsdk_cloud.h "done" is final: an event that was uploaded is not taken   *)
(* up again, although the worker goes by a list fetched long before.       *)
(***************************************************************************)
DoneStays == [][\A e \in Event : doc[e] = "done" => doc'[e] = "done"]_vars

(***************************************************************************)
(* uploader.c:163 "the server refuses: forced off": from then on nothing   *)
(* is requested until somebody sets the switch or the program restarts.    *)
(***************************************************************************)
RefusalStops == refused => pc = "poll" /\ ~on

\* The inductive invariant behind these three: the worker's list is current,
\* it holds an event while it processes one, and none is enumerated as stale.
BatchOK == \A e \in batch : doc[e] \in {"pending", "failed"}
CurOK == cur # None <=> pc \in {"query", "url", "post"}
StampedOK == \A e \in Event : doc[e] = "uploading" => updated[e] = "text"

IInv == TypeOK /\ UploadingIsHeld /\ RefusalStops /\ BatchOK /\ CurOK /\ StampedOK

(***************************************************************************)
(* While the switch is on and the server accepts the device, an event that *)
(* waits is uploaded in the end, failed attempts notwithstanding, unless   *)
(* its video is overwritten.  It may wait for ever behind Cap older events *)
(* without video: these fail, stay and fill every poll.                    *)
(***************************************************************************)
Hopeless == {e \in Event : doc[e] \in {"pending", "failed", "uploading"} /\ video[e] = "gone"}
Uploads ==
  <>[](on /\ accepted)
    => \A e \in Event :
         doc[e] \in {"pending", "failed"}
           ~> \/ doc[e] = "done"
              \/ video[e] = "gone" \/ Cardinality(Hopeless) >= Cap
              \/ Abandoned(e)

(***************************************************************************)
(* rsdk_cloud.h:74: rsdk_cloud_enumerate_pending "also returns UPLOADING   *)
(* older than this (crash recovery)", and the worker asks for 300 s: an    *)
(* event that a crash left "uploading" is taken up again.                  *)
(***************************************************************************)
Recovers ==
  <>[](on /\ accepted) => \A e \in Event : Abandoned(e) ~> ~Abandoned(e)
=============================================================================
