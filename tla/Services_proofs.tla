---------------------------- MODULE Services_proofs ----------------------------
(***************************************************************************)
(* Proofs about the services of MCServices: CloudUpload of its own         *)
(* specification, for any number of events and restarts and any limit of a *)
(* poll; the others of their part of the box, for all that its assumption  *)
(* lets the constants be.  Each has an invariant of its own, of which no   *)
(* step of another part changes a variable.                                *)
(***************************************************************************)
EXTENDS MCServices, FiniteSetTheorems, TLAPS

(***************************************************************************)
(* CloudUpload.                                                            *)
(***************************************************************************)
Left == {e \in Event : Abandoned(e)}

LEMMA NoneIsNoEvent == None \notin Event
BY DEF None, Event

LEMMA LeftFinite == IsFiniteSet(Left) /\ Cardinality(Left) \in Nat
<1>1. IsFiniteSet(Event)
  BY FS_Interval, UploadAssumption DEF Event, UploadAssumption
<1> QED
  BY <1>1, FS_Subset, FS_CardinalityType DEF Left

\* No step but a restart leaves an event behind.
LEMMA LeftShrinks ==
  ASSUME UploadingIsHeld, TypeOK, Left' \subseteq Left, crashes' = crashes,
         cur' # None => doc'[cur'] = "uploading"
  PROVE  UploadingIsHeld'
<1>1. Cardinality(Left') <= Cardinality(Left) /\ Cardinality(Left') \in Nat
  BY LeftFinite, FS_Subset, FS_CardinalityType
<1>2. Cardinality(Left) <= crashes
  BY DEF UploadingIsHeld, Left
<1>3. Cardinality(Left') <= crashes'
  BY <1>1, <1>2, LeftFinite DEF TypeOK
<1> QED
  BY <1>3 DEF UploadingIsHeld, Left

LEMMA RestartHeld ==
  ASSUME IInv, Restart
  PROVE  UploadingIsHeld'
<1>1. Left' \subseteq Left \cup {cur} /\ cur' = None /\ crashes' = crashes + 1
  BY DEF Left, Abandoned, Restart, docVars
<1>2. /\ IsFiniteSet(Left \cup {cur})
      /\ \/ Cardinality(Left \cup {cur}) = Cardinality(Left)
         \/ Cardinality(Left \cup {cur}) = Cardinality(Left) + 1
  BY LeftFinite, FS_AddElement
<1>3. Cardinality(Left') <= Cardinality(Left \cup {cur}) /\ Cardinality(Left') \in Nat
  BY <1>1, <1>2, FS_Subset, FS_CardinalityType
<1>4. Cardinality(Left \cup {cur}) \in Nat
  BY <1>2, FS_CardinalityType
<1>5. Cardinality(Left) <= crashes /\ crashes \in Nat
  BY UploadAssumption DEF IInv, UploadingIsHeld, Left, TypeOK, UploadAssumption
<1>6. Cardinality(Left') <= crashes'
  BY <1>1, <1>2, <1>3, <1>4, <1>5, LeftFinite
<1> QED
  BY <1>1, <1>6 DEF UploadingIsHeld, Left

-----------------------------------------------------------------------------
(* Steps that leave the worker and the states of the events alone.          *)

LEMMA QuietIInv ==
  ASSUME IInv, TypeOK', UNCHANGED <<docVars, pc, batch, cur, crashes>>, RefusalStops'
  PROVE  IInv'
<1>1. doc' = doc /\ updated' = updated /\ pc' = pc /\ batch' = batch /\ cur' = cur
      /\ crashes' = crashes
  BY DEF docVars
<1>2. UploadingIsHeld'
  BY <1>1 DEF IInv, UploadingIsHeld, Abandoned
<1> QED
  BY <1>1, <1>2 DEF IInv, BatchOK, CurOK, StampedOK

LEMMA EnvIInv ==
  ASSUME IInv,
         \/ \E e \in Event : Close(e) \/ Overwrite(e)
         \/ \E b \in BOOLEAN : SetSwitch(b)
         \/ Contract
  PROVE  IInv'
<1>1. TypeOK'
  BY DEF IInv, TypeOK, Close, Overwrite, SetSwitch, Contract, docVars, Video
<1>2. RefusalStops'
  BY DEF IInv, RefusalStops, Close, Overwrite, SetSwitch, Contract
<1>3. UNCHANGED <<docVars, pc, batch, cur, crashes>>
  BY DEF Close, Overwrite, SetSwitch, Contract
<1> QED
  BY <1>1, <1>2, <1>3, QuietIInv

LEMMA TriggerIInv ==
  ASSUME IInv, NEW e \in Event, Trigger(e)
  PROVE  IInv'
<1>1. /\ doc[e] = "none" /\ doc' = [doc EXCEPT ![e] = "pending"]
      /\ UNCHANGED <<updated, on, pc, batch, cur, refused, crashes, video, setting, accepted>>
  BY DEF Trigger, env
<1>2. doc \in [Event -> State] /\ TypeOK /\ batch \subseteq Event
  BY DEF IInv, TypeOK
<1>3. doc'[e] = "pending" /\ \A f \in Event : f # e => doc'[f] = doc[f]
  BY <1>1, <1>2
<1>4. TypeOK'
  BY <1>1, <1>2 DEF TypeOK, State
<1>5. Left' \subseteq Left
  BY <1>1, <1>3 DEF Left, Abandoned
<1>6. cur' # None => doc'[cur'] = "uploading"
  BY <1>1, <1>2, <1>3 DEF IInv, UploadingIsHeld, TypeOK
<1>7. UploadingIsHeld'
  BY <1>1, <1>2, <1>5, <1>6, LeftShrinks DEF IInv
<1>8. BatchOK'
  BY <1>1, <1>2, <1>3 DEF IInv, BatchOK
<1>9. StampedOK'
  BY <1>1, <1>3 DEF IInv, StampedOK
<1> QED
  BY <1>1, <1>4, <1>7, <1>8, <1>9 DEF IInv, RefusalStops, CurOK

LEMMA RestartIInv ==
  ASSUME IInv, Restart
  PROVE  IInv'
<1>1. /\ UNCHANGED <<doc, updated, video, setting, accepted>> /\ on' = setting
      /\ crashes < MaxCrashes /\ crashes' = crashes + 1 /\ refused' = FALSE
      /\ pc' = "poll" /\ batch' = {} /\ cur' = None
  BY DEF Restart, docVars, env
<1>2. crashes' \in 0 .. MaxCrashes
  BY <1>1, UploadAssumption DEF IInv, TypeOK, UploadAssumption
<1>3. TypeOK'
  BY <1>1, <1>2, Zenon DEF IInv, TypeOK
<1> QED
  BY <1>1, <1>3, RestartHeld DEF IInv, RefusalStops, BatchOK, CurOK, StampedOK

-----------------------------------------------------------------------------
(* The steps of the worker.                                                 *)

LEMMA PollIInv ==
  ASSUME IInv, Poll
  PROVE  IInv'
<1>1. /\ UNCHANGED <<doc, updated, video, setting, accepted, on, cur, refused, crashes>>
      /\ pc = "poll" /\ on /\ pc' = "batch" /\ batch' = Oldest(Pending)
  BY DEF Poll, docVars, env
<1>2. \A e \in Pending : e \in Event /\ doc[e] \in {"pending", "failed"}
  BY DEF Pending, Stale, IInv, StampedOK
<1>3. Oldest(Pending) \subseteq Pending
  BY DEF Oldest
<1>4. TypeOK' /\ BatchOK'
  BY <1>1, <1>2, <1>3 DEF IInv, TypeOK, BatchOK
<1>5. UploadingIsHeld'
  BY <1>1 DEF IInv, UploadingIsHeld, Abandoned
<1> QED
  BY <1>1, <1>4, <1>5 DEF IInv, RefusalStops, CurOK, StampedOK

LEMMA TakeIInv ==
  ASSUME IInv, Take
  PROVE  IInv'
<1>1. PICK e \in batch : SetState(e, "uploading") /\ cur' = e /\ batch' = batch \ {e}
  BY DEF Take
<1>2. /\ UNCHANGED <<video, setting, accepted, on, refused, crashes>>
      /\ pc = "batch" /\ pc' = "query"
  BY DEF Take, env
<1>3. /\ TypeOK /\ batch \subseteq Event /\ e \in Event /\ cur = None
      /\ doc \in [Event -> State] /\ updated \in [Event -> {"absent", "text"}]
  BY <1>1, <1>2 DEF IInv, TypeOK, CurOK
<1>4. /\ doc' = [doc EXCEPT ![e] = "uploading"]
      /\ updated' = [updated EXCEPT ![e] = "text"]
  BY <1>1 DEF SetState
<1>5. /\ doc'[e] = "uploading" /\ updated'[e] = "text"
      /\ \A f \in Event : f # e => doc'[f] = doc[f] /\ updated'[f] = updated[f]
  BY <1>3, <1>4
<1>6. TypeOK'
  BY <1>1, <1>2, <1>3, <1>4 DEF TypeOK, State
<1>7. Left' \subseteq Left
  BY <1>1, <1>3, <1>5, NoneIsNoEvent DEF Left, Abandoned
<1>8. UploadingIsHeld'
  BY <1>1, <1>2, <1>3, <1>5, <1>7, LeftShrinks DEF IInv
<1>9. BatchOK' /\ StampedOK'
  BY <1>1, <1>3, <1>5 DEF IInv, BatchOK, StampedOK
<1> QED
  BY <1>1, <1>2, <1>3, <1>6, <1>8, <1>9, NoneIsNoEvent DEF IInv, RefusalStops, CurOK

\* The event in hand is settled, and the worker goes to p.
LEMMA SettledIInv ==
  ASSUME IInv, NEW s \in {"failed", "done"}, NEW p \in {"batch", "refused"},
         pc \in {"query", "url", "post"}, SetState(cur, s), pc' = p, cur' = None,
         UNCHANGED <<env, on, batch, refused, crashes>>
  PROVE  IInv'
<1>1. UNCHANGED <<video, setting, accepted, on, batch, refused, crashes>>
  BY DEF env
<1>2. /\ TypeOK /\ batch \subseteq Event /\ cur \in Event
      /\ doc \in [Event -> State] /\ updated \in [Event -> {"absent", "text"}]
  BY DEF IInv, TypeOK, CurOK
<1>3. /\ doc' = [doc EXCEPT ![cur] = s]
      /\ updated' = [updated EXCEPT ![cur] = "text"]
  BY DEF SetState
<1>4. /\ doc'[cur] = s /\ updated'[cur] = "text"
      /\ \A f \in Event : f # cur => doc'[f] = doc[f] /\ updated'[f] = updated[f]
  BY <1>2, <1>3
<1>5. TypeOK'
  BY <1>1, <1>2, <1>3 DEF TypeOK, State
<1>6. Left' \subseteq Left
  BY <1>2, <1>4 DEF Left, Abandoned
<1>7. UploadingIsHeld'
  BY <1>1, <1>2, <1>6, LeftShrinks DEF IInv
<1>8. cur \notin batch
  BY <1>2, NoneIsNoEvent DEF IInv, BatchOK, UploadingIsHeld
<1>9. BatchOK' /\ StampedOK'
  BY <1>1, <1>2, <1>4, <1>8 DEF IInv, BatchOK, StampedOK
<1> QED
  BY <1>1, <1>5, <1>7, <1>9 DEF IInv, RefusalStops, CurOK

\* The worker moves on, with the event it has.
LEMMA MovesOnIInv ==
  ASSUME IInv, NEW p \in {"poll", "batch", "url", "post"}, pc' = p, pc \notin {"poll", "refused"},
         p \in {"url", "post"} <=> pc \in {"query", "url", "post"},
         UNCHANGED <<docVars, env, on, batch, cur, refused, crashes>>
  PROVE  IInv'
<1>1. UNCHANGED <<doc, updated, video, setting, accepted, on, batch, cur, refused, crashes>>
  BY DEF docVars, env
<1>2. TypeOK'
  BY <1>1 DEF IInv, TypeOK
<1>3. UploadingIsHeld'
  BY <1>1 DEF IInv, UploadingIsHeld, Abandoned
<1> QED
  BY <1>1, <1>2, <1>3 DEF IInv, RefusalStops, BatchOK, CurOK, StampedOK

LEMMA FinishIInv ==
  ASSUME IInv, NEW s \in {"failed", "done"}, pc \in {"query", "url", "post"}, Finish(s)
  PROVE  IInv'
BY SettledIInv DEF Finish

LEMMA QueryIInv ==
  ASSUME IInv, Query
  PROVE  IInv'
<1>1. CASE video[cur] # "some"
  BY <1>1, FinishIInv DEF Query
<1>2. CASE video[cur] = "some"
  BY <1>2, MovesOnIInv DEF Query
<1> QED
  BY <1>1, <1>2

LEMMA ForceOffIInv ==
  ASSUME IInv, ForceOff
  PROVE  IInv'
<1>1. /\ UNCHANGED <<doc, updated, video, setting, accepted, cur, crashes>>
      /\ pc = "refused" /\ on' = FALSE /\ refused' = TRUE /\ pc' = "poll" /\ batch' = {}
  BY DEF ForceOff, docVars, env
<1>2. TypeOK'
  BY <1>1 DEF IInv, TypeOK
<1>3. UploadingIsHeld'
  BY <1>1 DEF IInv, UploadingIsHeld, Abandoned
<1> QED
  BY <1>1, <1>2, <1>3 DEF IInv, RefusalStops, BatchOK, CurOK, StampedOK

LEMMA WorkerIInv ==
  ASSUME IInv, Worker
  PROVE  IInv'
<1>1. CASE Poll
  BY <1>1, PollIInv
<1>2. CASE Take
  BY <1>2, TakeIInv
<1>3. CASE BatchEnds
  BY <1>3, MovesOnIInv DEF BatchEnds
<1>4. CASE Query
  BY <1>4, QueryIInv
<1>5. CASE UrlFails
  BY <1>5, FinishIInv DEF UrlFails
<1>6. CASE UrlRefused
  BY <1>6, SettledIInv DEF UrlRefused
<1>7. CASE ForceOff
  BY <1>7, ForceOffIInv
<1>8. CASE UrlOk
  BY <1>8, MovesOnIInv DEF UrlOk
<1>9. CASE PostFails
  BY <1>9, FinishIInv DEF PostFails
<1>10. CASE PostOk
  BY <1>10, FinishIInv DEF PostOk
<1> QED
  BY <1>1, <1>2, <1>3, <1>4, <1>5, <1>6, <1>7, <1>8, <1>9, <1>10 DEF Worker

-----------------------------------------------------------------------------
(* The theorems.                                                            *)

LEMMA InitIInv == Init => IInv
<1> SUFFICES ASSUME Init PROVE IInv
  OBVIOUS
<1>1. TypeOK
  <2>1. crashes \in 0 .. MaxCrashes
    BY UploadAssumption DEF Init, UploadAssumption
  <2> QED
    BY <2>1, Zenon DEF Init, TypeOK, State, Video
<1>2. Left = {}
  BY DEF Init, Left, Abandoned
<1>3. UploadingIsHeld
  BY <1>2, FS_EmptySet DEF Init, UploadingIsHeld, Left
<1> QED
  BY <1>1, <1>3 DEF Init, IInv, RefusalStops, BatchOK, CurOK, StampedOK

LEMMA NextIInv == IInv /\ [Next]_vars => IInv'
<1> SUFFICES ASSUME IInv, [Next]_vars PROVE IInv'
  OBVIOUS
<1>1. CASE \E e \in Event : Trigger(e)
  BY <1>1, TriggerIInv
<1>2. CASE \/ \E e \in Event : Close(e) \/ Overwrite(e)
           \/ \E b \in BOOLEAN : SetSwitch(b)
           \/ Contract
  BY <1>2, EnvIInv
<1>3. CASE Restart
  BY <1>3, RestartIInv
<1>4. CASE Worker
  BY <1>4, WorkerIInv
<1>5. CASE UNCHANGED vars
  <2>1. UNCHANGED <<docVars, env, on, pc, batch, cur, refused, crashes>>
    BY <1>5 DEF vars
  <2>2. UNCHANGED <<doc, updated, video, setting, accepted>>
    BY <2>1 DEF docVars, env
  <2> QED
    BY <2>1, <2>2, QuietIInv DEF IInv, TypeOK, RefusalStops
<1> QED
  BY <1>1, <1>2, <1>3, <1>4, <1>5 DEF Next

(***************************************************************************)
(* The uploader keeps its inductive invariant: its list is current, and it *)
(* holds an event exactly while process_event runs.                        *)
(***************************************************************************)
THEOREM CloudInvariant == Spec => []IInv
<1> QED
  BY InitIInv, NextIInv, PTL DEF Spec

(***************************************************************************)
(* An event is "uploading" while it is worked on; a restart leaves at most *)
(* one behind (the returns of process_event, uploader.c:50-144).           *)
(***************************************************************************)
THEOREM NothingLeftUploading == Spec => []UploadingIsHeld
<1>1. IInv => UploadingIsHeld
  BY DEF IInv
<1> QED
  BY <1>1, CloudInvariant, PTL

(***************************************************************************)
(* After the server's refusal nothing is requested until the switch is set *)
(* or the program restarts (uploader.c:163-166).                           *)
(***************************************************************************)
THEOREM RefusalIsFinal == Spec => []RefusalStops
<1>1. IInv => RefusalStops
  BY DEF IInv
<1> QED
  BY <1>1, CloudInvariant, PTL

LEMMA DoneStep ==
  ASSUME IInv, [Next]_vars, NEW e \in Event, doc[e] = "done"
  PROVE  doc'[e] = "done"
<1>1. doc \in [Event -> State] /\ batch \subseteq Event
  BY DEF IInv, TypeOK
<1>2. CASE \E f \in Event : Trigger(f)
  BY <1>1, <1>2 DEF Trigger
<1>3. CASE Take
  <2>1. PICK f \in batch : doc' = [doc EXCEPT ![f] = "uploading"]
    BY <1>3 DEF Take, SetState
  <2>2. e # f
    BY <2>1 DEF IInv, BatchOK
  <2> QED
    BY <1>1, <2>1, <2>2
<1>4. CASE \E s \in State : SetState(cur, s) /\ pc \in {"query", "url", "post"}
  <2>1. PICK s \in State : doc' = [doc EXCEPT ![cur] = s]
    BY <1>4 DEF SetState
  <2>2. e # cur
    BY <1>4 DEF IInv, CurOK, UploadingIsHeld
  <2> QED
    BY <1>1, <2>1, <2>2
<1>5. CASE UNCHANGED doc
  BY <1>5
<1>6. \/ \E f \in Event : Trigger(f)
      \/ Take
      \/ \E s \in State : SetState(cur, s) /\ pc \in {"query", "url", "post"}
      \/ UNCHANGED doc
  BY DEF Next, Worker, Close, Overwrite, SetSwitch, Contract, Restart, Poll, BatchEnds, Query,
         UrlFails, UrlRefused, ForceOff, UrlOk, PostFails, PostOk, Finish, State, vars, docVars
<1> QED
  BY <1>2, <1>3, <1>4, <1>5, <1>6

(***************************************************************************)
(* An event that was uploaded is never taken up again, by the list of an   *)
(* old poll or after a restart.                                            *)
(***************************************************************************)
THEOREM DoneIsFinal == Spec => DoneStays
<1>1. IInv /\ [Next]_vars => [\A e \in Event : doc[e] = "done" => doc'[e] = "done"]_vars
  BY DoneStep
<1> QED
  BY <1>1, CloudInvariant, PTL DEF Spec, DoneStays

-----------------------------------------------------------------------------
(***************************************************************************)
(* AppControl.  Until the main thread has applied the remote access the    *)
(* radio is anybody's; from then on it is what the settings say, unless an *)
(* apply that has read them is still on its way, or the other thread is    *)
(* about to read them again.                                               *)
(***************************************************************************)
Stage == [at : {"idle", "read", "tutk", "ble"}, eff : BOOLEAN]

ControlTyped ==
  /\ db \in [seeded : BOOLEAN, owner : Owner \cup {Unbound}, admin : BOOLEAN,
             remote : BOOLEAN, cloud : BOOLEAN, name : Control!Name]
  /\ phase \in {"off", "seeding", "opened", "routed", "made", "switched", "cloud", "reset",
                "owner", "applying", "up", "dark", "drained", "closing", "stopped"}
  /\ subs \subseteq {"cloud.", "nop_owner", "service.remote_access"}
  /\ radio \in [ble : BOOLEAN, tutk : BOOLEAN]
  /\ uploader \in [on : BOOLEAN, switch : BOOLEAN, token : Owner \cup {Unbound}]
  /\ apply \in [Control!Thread -> Stage]
  /\ router \in {"none", "idle", "reading", "applying", "forwarding"}
  /\ past \in [overlap : BOOLEAN, missed : BOOLEAN, asked : BOOLEAN, late : BOOLEAN, name : Control!Name]

\* Who applies when, and who listens from when on.
ControlPlaces ==
  /\ \A t \in Control!Thread : apply[t].at = "idle" => apply[t] = Control!Resting
  /\ phase \in {"off", "seeding", "opened", "stopped"} => router = "none"
  /\ phase # "applying" => apply["main"] = Control!Resting
  /\ router # "applying" => apply["router"] = Control!Resting
  /\ phase \in {"owner", "applying", "up"} => "nop_owner" \in subs
  /\ phase \in {"applying", "up"} => "service.remote_access" \in subs
  /\ uploader.on => phase \in {"made", "switched", "cloud", "reset", "owner", "applying", "up", "dark"}
  /\ uploader.on => phase \in {"made", "switched"} \/ "cloud." \in subs
  /\ "nop_owner" \in subs \/ "service.remote_access" \in subs => phase \notin {"off", "seeding", "opened", "routed", "made", "switched", "cloud"}

\* An apply that has read the settings is right, or the other thread is about to read them.
OnItsWay(t) ==
  apply[t].at \in {"tutk", "ble"} =>
    /\ apply[Control!Other(t)].at \in {"idle", "read"}
    /\ apply[Control!Other(t)].at = "idle" =>
         /\ apply[t].eff = Control!Effective(db)
         /\ apply[t].at = "ble" => (radio.tutk => apply[t].eff)

ControlRadio ==
  phase \in {"applying", "up"} /\ ~past.overlap =>
    /\ OnItsWay("main") /\ OnItsWay("router")
    /\ apply["main"].at = "idle" /\ apply["router"].at = "idle" =>
         radio.ble = Control!Effective(db) /\ (radio.tutk => Control!Effective(db))

ControlUploads ==
  uploader.on /\ ~past.missed =>
    /\ uploader.token = db.owner
    /\ phase # "made" => uploader.switch = db.cloud

ControlUnasked ==
  ~past.asked =>
    /\ router # "applying" /\ ~past.overlap
    /\ phase \in {"reset", "owner", "applying", "up"} /\ db.admin /\ db.owner = Unbound => ~db.remote

ControlSeeded ==
  /\ db.name = past.name
  /\ ~db.seeded => db.name = "default"
  /\ phase \notin {"off", "seeding"} => db.seeded
  /\ phase = "seeding" => ~db.seeded

ControlDark ==
  phase \in {"dark", "drained", "closing", "stopped"} /\ ~past.late =>
    ~radio.ble /\ ~radio.tutk /\ apply["router"].at = "idle"

ControlInv ==
  /\ ControlTyped /\ ControlPlaces /\ ControlRadio /\ ControlUploads /\ ControlUnasked
  /\ ControlSeeded /\ ControlDark

LEMMA ControlInitInv == ASSUME Control!ControlInit PROVE ControlInv
<1>1. ControlTyped
  BY DEF Control!ControlInit, ControlTyped, Control!Blank, Control!NoUploader, Control!Fresh, Control!Resting,
         Control!Name, Control!Thread, Stage
<1>2. ControlPlaces /\ ControlRadio /\ ControlUploads /\ ControlUnasked /\ ControlDark
  BY DEF Control!ControlInit, ControlPlaces, ControlRadio, ControlUploads, ControlUnasked, ControlDark,
         Control!NoUploader, Control!Fresh, Control!Resting, Control!Thread
<1>3. ControlSeeded
  BY DEF Control!ControlInit, ControlSeeded, Control!Blank, Control!Fresh
<1> QED
  BY <1>1, <1>2, <1>3 DEF ControlInv

LEMMA ControlOpens ==
  ASSUME ControlInv, Control!Open PROVE ControlInv'
<1> USE DEF ControlInv, ControlTyped
<1>1. ControlTyped'
  BY DEF Control!Open, Control!Reaches, Control!Fresh, Stage, Control!Thread, Control!Name, Control!Resting
<1>2. ControlPlaces'
  BY DEF Control!Open, Control!Reaches, Control!Fresh, ControlPlaces, Control!Thread, Control!Resting
<1>3. ControlRadio'
  BY DEF Control!Open, Control!Reaches, Control!Fresh, ControlRadio, ControlPlaces, OnItsWay, Stage,
     Control!Thread, Control!Resting, Control!Other, Control!Effective
<1>4. ControlUploads' /\ ControlUnasked' /\ ControlSeeded'
  BY DEF Control!Open, Control!Reaches, Control!Fresh, ControlUploads, ControlUnasked, ControlSeeded,
     ControlPlaces, Control!Thread, Control!Resting, Stage
<1>5. ControlDark'
  BY DEF Control!Open, Control!Reaches, Control!Fresh, ControlDark, ControlPlaces, Control!Thread,
     Control!Resting, Stage
<1> QED
  BY <1>1, <1>2, <1>3, <1>4, <1>5

LEMMA ControlSeeds ==
  ASSUME ControlInv, Control!Seed PROVE ControlInv'
<1> USE DEF ControlInv, ControlTyped
<1>1. ControlTyped'
  BY ZenonT(90) DEF Control!Seed, Control!Reaches, Control!Name
<1>2. ControlPlaces'
  BY DEF Control!Seed, Control!Reaches, ControlPlaces, Control!Thread, Control!Resting
<1>3. ControlRadio'
  BY DEF Control!Seed, Control!Reaches, ControlRadio, ControlPlaces, OnItsWay, Stage, Control!Thread, Control!Resting,
         Control!Other, Control!Effective
<1>4. ControlUploads' /\ ControlUnasked' /\ ControlSeeded'
  BY DEF Control!Seed, Control!Reaches, ControlUploads, ControlUnasked, ControlSeeded, ControlPlaces, Control!Thread,
         Control!Resting, Stage
<1>5. ControlDark'
  BY DEF Control!Seed, Control!Reaches, ControlDark, ControlPlaces, Control!Thread, Control!Resting, Stage
<1> QED
  BY <1>1, <1>2, <1>3, <1>4, <1>5

LEMMA ControlRoutes ==
  ASSUME ControlInv, Control!StartRouter PROVE ControlInv'
<1> USE DEF ControlInv, ControlTyped
<1>1. ControlTyped'
  BY DEF Control!StartRouter, Control!Reaches, Stage, Control!Thread, Control!Name, Control!Resting
<1>2. ControlPlaces'
  BY DEF Control!StartRouter, Control!Reaches, ControlPlaces, Control!Thread, Control!Resting
<1>3. ControlRadio'
  BY DEF Control!StartRouter, Control!Reaches, ControlRadio, ControlPlaces, OnItsWay, Stage, Control!Thread,
     Control!Resting, Control!Other, Control!Effective
<1>4. ControlUploads' /\ ControlUnasked' /\ ControlSeeded'
  BY DEF Control!StartRouter, Control!Reaches, ControlUploads, ControlUnasked, ControlSeeded, ControlPlaces,
     Control!Thread, Control!Resting, Stage
<1>5. ControlDark'
  BY DEF Control!StartRouter, Control!Reaches, ControlDark, ControlPlaces, Control!Thread, Control!Resting, Stage
<1> QED
  BY <1>1, <1>2, <1>3, <1>4, <1>5

LEMMA ControlNoCloud ==
  ASSUME ControlInv, Control!NoCloud PROVE ControlInv'
<1> USE DEF ControlInv, ControlTyped
<1>1. ControlTyped'
  BY DEF Control!NoCloud, Control!Reaches, Stage, Control!Thread, Control!Name, Control!Resting
<1>2. ControlPlaces'
  BY DEF Control!NoCloud, Control!Reaches, ControlPlaces, Control!Thread, Control!Resting
<1>3. ControlRadio'
  BY DEF Control!NoCloud, Control!Reaches, ControlRadio, ControlPlaces, OnItsWay, Stage, Control!Thread,
     Control!Resting, Control!Other, Control!Effective
<1>4. ControlUploads' /\ ControlUnasked' /\ ControlSeeded'
  BY DEF Control!NoCloud, Control!Reaches, ControlUploads, ControlUnasked, ControlSeeded, ControlPlaces,
     Control!Thread, Control!Resting, Stage
<1>5. ControlDark'
  BY DEF Control!NoCloud, Control!Reaches, ControlDark, ControlPlaces, Control!Thread, Control!Resting, Stage
<1> QED
  BY <1>1, <1>2, <1>3, <1>4, <1>5

LEMMA ControlUploader ==
  ASSUME ControlInv, Control!StartUploader PROVE ControlInv'
<1> USE DEF ControlInv, ControlTyped
<1>1. ControlTyped'
  BY DEF Control!StartUploader, Control!Reaches, Stage, Control!Thread, Control!Name, Control!Resting
<1>2. ControlPlaces'
  BY DEF Control!StartUploader, Control!Reaches, ControlPlaces, Control!Thread, Control!Resting
<1>3. ControlRadio'
  BY DEF Control!StartUploader, Control!Reaches, ControlRadio, ControlPlaces, OnItsWay, Stage, Control!Thread,
     Control!Resting, Control!Other, Control!Effective
<1>4. ControlUploads' /\ ControlUnasked' /\ ControlSeeded'
  BY DEF Control!StartUploader, Control!Reaches, ControlUploads, ControlUnasked, ControlSeeded, ControlPlaces,
     Control!Thread, Control!Resting, Stage
<1>5. ControlDark'
  BY DEF Control!StartUploader, Control!Reaches, ControlDark, ControlPlaces, Control!Thread, Control!Resting, Stage
<1> QED
  BY <1>1, <1>2, <1>3, <1>4, <1>5

LEMMA ControlSwitch ==
  ASSUME ControlInv, Control!SetSwitch PROVE ControlInv'
<1> USE DEF ControlInv, ControlTyped
<1>1. ControlTyped'
  BY DEF Control!SetSwitch, Control!Reaches, Stage, Control!Thread, Control!Name, Control!Resting
<1>2. ControlPlaces'
  BY DEF Control!SetSwitch, Control!Reaches, ControlPlaces, Control!Thread, Control!Resting
<1>3. ControlRadio'
  BY DEF Control!SetSwitch, Control!Reaches, ControlRadio, ControlPlaces, OnItsWay, Stage, Control!Thread,
     Control!Resting, Control!Other, Control!Effective
<1>4. ControlUploads' /\ ControlUnasked' /\ ControlSeeded'
  BY DEF Control!SetSwitch, Control!Reaches, ControlUploads, ControlUnasked, ControlSeeded, ControlPlaces,
     Control!Thread, Control!Resting, Stage
<1>5. ControlDark'
  BY DEF Control!SetSwitch, Control!Reaches, ControlDark, ControlPlaces, Control!Thread, Control!Resting, Stage
<1> QED
  BY <1>1, <1>2, <1>3, <1>4, <1>5

LEMMA ControlFollowsCloud ==
  ASSUME ControlInv, Control!FollowCloud PROVE ControlInv'
<1> USE DEF ControlInv, ControlTyped
<1>1. ControlTyped'
  BY DEF Control!FollowCloud, Control!Reaches, Stage, Control!Thread, Control!Name, Control!Resting
<1>2. ControlPlaces'
  BY DEF Control!FollowCloud, Control!Reaches, ControlPlaces, Control!Thread, Control!Resting
<1>3. ControlRadio'
  BY DEF Control!FollowCloud, Control!Reaches, ControlRadio, ControlPlaces, OnItsWay, Stage, Control!Thread,
     Control!Resting, Control!Other, Control!Effective
<1>4. ControlUploads' /\ ControlUnasked' /\ ControlSeeded'
  BY DEF Control!FollowCloud, Control!Reaches, ControlUploads, ControlUnasked, ControlSeeded, ControlPlaces,
     Control!Thread, Control!Resting, Stage
<1>5. ControlDark'
  BY DEF Control!FollowCloud, Control!Reaches, ControlDark, ControlPlaces, Control!Thread, Control!Resting, Stage
<1> QED
  BY <1>1, <1>2, <1>3, <1>4, <1>5

LEMMA ControlResets ==
  ASSUME ControlInv, Control!ResetRemote PROVE ControlInv'
<1> USE DEF ControlInv, ControlTyped
<1>1. ControlTyped'
  <2>1. db' = [db EXCEPT !.remote = db.remote /\ ~(db.owner = Unbound /\ db.admin)]
    BY DEF Control!ResetRemote
  <2>2. (db.remote /\ ~(db.owner = Unbound /\ db.admin)) \in BOOLEAN
    OBVIOUS
  <2>3. db' \in [seeded : BOOLEAN, owner : Owner \cup {Unbound}, admin : BOOLEAN,
                remote : BOOLEAN, cloud : BOOLEAN, name : Control!Name]
    BY <2>1, <2>2
  <2>4. phase' = "reset" /\ UNCHANGED <<subs, radio, uploader, apply, router, past>>
    BY DEF Control!ResetRemote, Control!Reaches
  <2> QED
    BY <2>3, <2>4
<1>2. ControlPlaces'
  BY DEF Control!ResetRemote, Control!Reaches, ControlPlaces, Control!Thread, Control!Resting
<1>3. ControlRadio'
  BY DEF Control!ResetRemote, Control!Reaches, ControlRadio, ControlPlaces, OnItsWay, Stage, Control!Thread,
     Control!Resting, Control!Other, Control!Effective
<1>4. ControlUploads' /\ ControlUnasked' /\ ControlSeeded'
  BY DEF Control!ResetRemote, Control!Reaches, ControlUploads, ControlUnasked, ControlSeeded, ControlPlaces,
     Control!Thread, Control!Resting, Stage
<1>5. ControlDark'
  BY DEF Control!ResetRemote, Control!Reaches, ControlDark, ControlPlaces, Control!Thread, Control!Resting, Stage
<1> QED
  BY <1>1, <1>2, <1>3, <1>4, <1>5

LEMMA ControlFollowsOwner ==
  ASSUME ControlInv, Control!FollowOwner PROVE ControlInv'
<1> USE DEF ControlInv, ControlTyped
<1>1. ControlTyped'
  BY DEF Control!FollowOwner, Control!Reaches, Stage, Control!Thread, Control!Name, Control!Resting
<1>2. ControlPlaces'
  BY DEF Control!FollowOwner, Control!Reaches, ControlPlaces, Control!Thread, Control!Resting
<1>3. ControlRadio'
  BY DEF Control!FollowOwner, Control!Reaches, ControlRadio, ControlPlaces, OnItsWay, Stage, Control!Thread,
     Control!Resting, Control!Other, Control!Effective
<1>4. ControlUploads' /\ ControlUnasked' /\ ControlSeeded'
  BY DEF Control!FollowOwner, Control!Reaches, ControlUploads, ControlUnasked, ControlSeeded, ControlPlaces,
     Control!Thread, Control!Resting, Stage
<1>5. ControlDark'
  BY DEF Control!FollowOwner, Control!Reaches, ControlDark, ControlPlaces, Control!Thread, Control!Resting, Stage
<1> QED
  BY <1>1, <1>2, <1>3, <1>4, <1>5

LEMMA ControlFollowsRemote ==
  ASSUME ControlInv, Control!FollowRemote PROVE ControlInv'
<1> USE DEF ControlInv, ControlTyped
<1>1. ControlTyped'
  BY DEF Control!FollowRemote, Control!Reaches, Stage, Control!Thread, Control!Name, Control!Resting
<1>2. ControlPlaces'
  BY DEF Control!FollowRemote, Control!Reaches, ControlPlaces, Control!Thread, Control!Resting
<1>3. ControlRadio'
  BY DEF Control!FollowRemote, Control!Reaches, ControlRadio, ControlPlaces, OnItsWay, Stage, Control!Thread,
     Control!Resting, Control!Other, Control!Effective
<1>4. ControlUploads' /\ ControlUnasked' /\ ControlSeeded'
  BY DEF Control!FollowRemote, Control!Reaches, ControlUploads, ControlUnasked, ControlSeeded, ControlPlaces,
     Control!Thread, Control!Resting, Stage
<1>5. ControlDark'
  BY DEF Control!FollowRemote, Control!Reaches, ControlDark, ControlPlaces, Control!Thread, Control!Resting, Stage
<1> QED
  BY <1>1, <1>2, <1>3, <1>4, <1>5

LEMMA ControlStarted ==
  ASSUME ControlInv, Control!Started PROVE ControlInv'
<1> USE DEF ControlInv, ControlTyped
<1>1. ControlTyped'
  BY DEF Control!Started, Control!Reaches, Stage, Control!Thread, Control!Name, Control!Resting
<1>2. ControlPlaces'
  <2>1. apply["main"] = Control!Resting
    BY DEF Control!Started, Stage, Control!Resting, Control!Thread, ControlPlaces
  <2> QED
    BY <2>1 DEF Control!Started, Control!Reaches, ControlPlaces
<1>3. ControlRadio'
  BY DEF Control!Started, Control!Reaches, ControlRadio, ControlPlaces, OnItsWay, Stage, Control!Thread,
     Control!Resting, Control!Other, Control!Effective
<1>4. ControlUploads' /\ ControlUnasked' /\ ControlSeeded'
  BY DEF Control!Started, Control!Reaches, ControlUploads, ControlUnasked, ControlSeeded, ControlPlaces,
     Control!Thread, Control!Resting, Stage
<1>5. ControlDark'
  BY DEF Control!Started, Control!Reaches, ControlDark, ControlPlaces, Control!Thread, Control!Resting, Stage
<1> QED
  BY <1>1, <1>2, <1>3, <1>4, <1>5

LEMMA ControlStopsRemote ==
  ASSUME ControlInv, Control!StopRemote PROVE ControlInv'
<1> USE DEF ControlInv, ControlTyped
<1>1. ControlTyped'
  <2>1. past' = [past EXCEPT !.late = apply["router"].at # "idle"]
    BY DEF Control!StopRemote
  <2>2. (apply["router"].at # "idle") \in BOOLEAN
    OBVIOUS
  <2> QED
    BY <2>1, <2>2, ZenonT(60) DEF Control!StopRemote, Control!Reaches
<1>2. ControlPlaces'
  BY DEF Control!StopRemote, Control!Reaches, ControlPlaces, Control!Thread, Control!Resting
<1>3. ControlRadio'
  BY DEF Control!StopRemote, Control!Reaches, ControlRadio, ControlPlaces, OnItsWay, Stage, Control!Thread,
     Control!Resting, Control!Other, Control!Effective
<1>4. ControlUploads' /\ ControlUnasked' /\ ControlSeeded'
  BY DEF Control!StopRemote, Control!Reaches, ControlUploads, ControlUnasked, ControlSeeded, ControlPlaces,
     Control!Thread, Control!Resting, Stage
<1>5. ControlDark'
  BY DEF Control!StopRemote, Control!Reaches, ControlDark, ControlPlaces, Control!Thread, Control!Resting, Stage
<1> QED
  BY <1>1, <1>2, <1>3, <1>4, <1>5

LEMMA ControlStopsUploader ==
  ASSUME ControlInv, Control!StopUploader PROVE ControlInv'
<1> USE DEF ControlInv, ControlTyped
<1>1. ControlTyped'
  BY DEF Control!StopUploader, Control!Reaches, Control!NoUploader, Stage, Control!Thread, Control!Name,
     Control!Resting
<1>2. ControlPlaces'
  BY DEF Control!StopUploader, Control!Reaches, Control!NoUploader, ControlPlaces, Control!Thread, Control!Resting
<1>3. ControlRadio'
  BY DEF Control!StopUploader, Control!Reaches, Control!NoUploader, ControlRadio, ControlPlaces, OnItsWay, Stage,
     Control!Thread, Control!Resting, Control!Other, Control!Effective
<1>4. ControlUploads' /\ ControlUnasked' /\ ControlSeeded'
  BY DEF Control!StopUploader, Control!Reaches, Control!NoUploader, ControlUploads, ControlUnasked, ControlSeeded,
     ControlPlaces, Control!Thread, Control!Resting, Stage
<1>5. ControlDark'
  BY DEF Control!StopUploader, Control!Reaches, Control!NoUploader, ControlDark, ControlPlaces, Control!Thread,
     Control!Resting, Stage
<1> QED
  BY <1>1, <1>2, <1>3, <1>4, <1>5

LEMMA ControlStopsRouter ==
  ASSUME ControlInv, Control!StopRouter PROVE ControlInv'
<1> USE DEF ControlInv, ControlTyped
<1>1. ControlTyped'
  BY DEF Control!StopRouter, Control!Reaches, Stage, Control!Thread, Control!Name, Control!Resting
<1>2. ControlPlaces'
  BY DEF Control!StopRouter, Control!Reaches, ControlPlaces, Control!Thread, Control!Resting
<1>3. ControlRadio'
  BY DEF Control!StopRouter, Control!Reaches, ControlRadio, ControlPlaces, OnItsWay, Stage, Control!Thread,
     Control!Resting, Control!Other, Control!Effective
<1>4. ControlUploads' /\ ControlUnasked' /\ ControlSeeded'
  BY DEF Control!StopRouter, Control!Reaches, ControlUploads, ControlUnasked, ControlSeeded, ControlPlaces,
     Control!Thread, Control!Resting, Stage
<1>5. ControlDark'
  BY DEF Control!StopRouter, Control!Reaches, ControlDark, ControlPlaces, Control!Thread, Control!Resting, Stage
<1> QED
  BY <1>1, <1>2, <1>3, <1>4, <1>5

LEMMA ControlClosesListener ==
  ASSUME ControlInv, Control!CloseListener PROVE ControlInv'
<1> USE DEF ControlInv, ControlTyped
<1>1. ControlTyped'
  BY DEF Control!CloseListener, Control!Reaches, Stage, Control!Thread, Control!Name, Control!Resting
<1>2. ControlPlaces'
  BY DEF Control!CloseListener, Control!Reaches, ControlPlaces, Control!Thread, Control!Resting
<1>3. ControlRadio'
  BY DEF Control!CloseListener, Control!Reaches, ControlRadio, ControlPlaces, OnItsWay, Stage, Control!Thread,
     Control!Resting, Control!Other, Control!Effective
<1>4. ControlUploads' /\ ControlUnasked' /\ ControlSeeded'
  BY DEF Control!CloseListener, Control!Reaches, ControlUploads, ControlUnasked, ControlSeeded, ControlPlaces,
     Control!Thread, Control!Resting, Stage
<1>5. ControlDark'
  BY DEF Control!CloseListener, Control!Reaches, ControlDark, ControlPlaces, Control!Thread, Control!Resting, Stage
<1> QED
  BY <1>1, <1>2, <1>3, <1>4, <1>5

LEMMA ControlEnds ==
  ASSUME ControlInv, Control!Exit \/ Control!PowerFails PROVE ControlInv'
<1> USE DEF ControlInv, ControlTyped
<1>1. ControlTyped'
  <2>1. Control!Ends /\ UNCHANGED <<db, past>>
    BY DEF Control!Exit, Control!PowerFails
  <2>2. apply' \in [Control!Thread -> Stage]
    BY <2>1 DEF Control!Ends, Stage, Control!Resting
  <2>3. uploader' \in [on : BOOLEAN, switch : BOOLEAN, token : Owner \cup {Unbound}]
    BY <2>1 DEF Control!Ends, Control!NoUploader
  <2>4. radio' \in [ble : BOOLEAN, tutk : BOOLEAN] /\ phase' = "off" /\ router' = "none" /\ subs' = {}
    BY <2>1 DEF Control!Ends
  <2> QED
    BY <2>1, <2>2, <2>3, <2>4
<1>2. ControlPlaces'
  BY DEF Control!Exit, Control!PowerFails, Control!Ends, Control!NoUploader, ControlPlaces, Control!Thread
<1>3. ControlRadio'
  BY DEF Control!Exit, Control!PowerFails, Control!Reaches, Control!Ends, Control!NoUploader, ControlRadio,
     ControlPlaces, OnItsWay, Stage, Control!Thread, Control!Resting, Control!Other, Control!Effective
<1>4. ControlUploads' /\ ControlUnasked' /\ ControlSeeded'
  BY DEF Control!Exit, Control!PowerFails, Control!Reaches, Control!Ends, Control!NoUploader, ControlUploads,
     ControlUnasked, ControlSeeded, ControlPlaces, Control!Thread, Control!Resting, Stage
<1>5. ControlDark'
  BY DEF Control!Exit, Control!PowerFails, Control!Reaches, Control!Ends, Control!NoUploader, ControlDark,
     ControlPlaces, Control!Thread, Control!Resting, Stage
<1> QED
  BY <1>1, <1>2, <1>3, <1>4, <1>5

LEMMA ControlProvisions ==
  ASSUME ControlInv, Control!Provision PROVE ControlInv'
<1> USE DEF ControlInv, ControlTyped
<1>1. ControlTyped'
  BY ZenonT(60) DEF Control!Provision
<1>2. ControlPlaces'
  BY DEF Control!Provision, Control!Reaches, ControlPlaces, Control!Thread, Control!Resting
<1>3. ControlRadio'
  BY DEF Control!Provision, Control!Reaches, ControlRadio, ControlPlaces, OnItsWay, Stage, Control!Thread,
     Control!Resting, Control!Other, Control!Effective
<1>4. ControlUploads' /\ ControlUnasked' /\ ControlSeeded'
  BY DEF Control!Provision, Control!Reaches, ControlUploads, ControlUnasked, ControlSeeded, ControlPlaces,
     Control!Thread, Control!Resting, Stage
<1>5. ControlDark'
  BY DEF Control!Provision, Control!Reaches, ControlDark, ControlPlaces, Control!Thread, Control!Resting, Stage
<1> QED
  BY <1>1, <1>2, <1>3, <1>4, <1>5

LEMMA ControlAccepts ==
  ASSUME ControlInv, Control!Accept \/ Control!ReadsNothing PROVE ControlInv'
<1> USE DEF ControlInv, ControlTyped
<1>1. ControlTyped'
  BY DEF Control!Accept, Control!ReadsNothing, Control!Reaches, Stage, Control!Thread, Control!Name, Control!Resting
<1>2. ControlPlaces'
  BY DEF Control!Accept, Control!ReadsNothing, Control!Reaches, ControlPlaces, Control!Thread, Control!Resting
<1>3. ControlRadio'
  BY DEF Control!Accept, Control!ReadsNothing, Control!Reaches, ControlRadio, ControlPlaces, OnItsWay, Stage,
     Control!Thread, Control!Resting, Control!Other, Control!Effective
<1>4. ControlUploads' /\ ControlUnasked' /\ ControlSeeded'
  BY DEF Control!Accept, Control!ReadsNothing, Control!Reaches, ControlUploads, ControlUnasked, ControlSeeded,
     ControlPlaces, Control!Thread, Control!Resting, Stage
<1>5. ControlDark'
  BY DEF Control!Accept, Control!ReadsNothing, Control!Reaches, ControlDark, ControlPlaces, Control!Thread,
     Control!Resting, Stage
<1> QED
  BY <1>1, <1>2, <1>3, <1>4, <1>5

LEMMA ControlAnswers ==
  ASSUME ControlInv, Control!Answer \/ Control!Forward \/ Control!Forwarded PROVE ControlInv'
<1> USE DEF ControlInv, ControlTyped
<1>1. ControlTyped'
  BY DEF Control!Answer, Control!Forward, Control!Forwarded, Control!Reaches, Control!Reading, Stage,
     Control!Thread, Control!Name, Control!Resting
<1>2. ControlPlaces'
  <2>1. router' = "idle" \/ router' = "forwarding"
    BY DEF Control!Answer, Control!Forward, Control!Forwarded
  <2>2. apply["router"] = Control!Resting
    BY DEF Control!Answer, Control!Forward, Control!Forwarded, Control!Reading, ControlPlaces, Stage,
       Control!Resting, Control!Thread
  <2> QED
    BY <2>1, <2>2 DEF Control!Answer, Control!Forward, Control!Forwarded, Control!Reading, ControlPlaces
<1>3. ControlRadio'
  BY DEF Control!Answer, Control!Forward, Control!Forwarded, Control!Reaches, Control!Reading, ControlRadio,
     ControlPlaces, OnItsWay, Stage, Control!Thread, Control!Resting, Control!Other, Control!Effective
<1>4. ControlUploads' /\ ControlUnasked' /\ ControlSeeded'
  BY DEF Control!Answer, Control!Forward, Control!Forwarded, Control!Reaches, Control!Reading, ControlUploads,
     ControlUnasked, ControlSeeded, ControlPlaces, Control!Thread, Control!Resting, Stage
<1>5. ControlDark'
  BY DEF Control!Answer, Control!Forward, Control!Forwarded, Control!Reaches, Control!Reading, ControlDark,
     ControlPlaces, Control!Thread, Control!Resting, Stage
<1> QED
  BY <1>1, <1>2, <1>3, <1>4, <1>5

LEMMA ControlReadsSettings ==
  ASSUME ControlInv, NEW t \in Control!Thread, Control!ApplyRead(t) PROVE ControlInv'
<1> USE DEF ControlInv, ControlTyped
<1>1. ControlTyped'
  <2>1. apply' = [apply EXCEPT ![t] = [at |-> "tutk", eff |-> Control!Effective(db)]]
    BY DEF Control!ApplyRead
  <2>2. Control!Effective(db) \in BOOLEAN
    BY DEF Control!Effective
  <2>3. [at |-> "tutk", eff |-> Control!Effective(db)] \in Stage
    BY <2>2 DEF Stage
  <2>4. past' \in [overlap : BOOLEAN, missed : BOOLEAN, asked : BOOLEAN, late : BOOLEAN, name : Control!Name]
    BY DEF Control!ApplyRead
  <2> QED
    BY <2>1, <2>3, <2>4 DEF Control!ApplyRead
<1>2. ControlPlaces'
  <2>1. apply[t] # Control!Resting
    BY DEF Control!ApplyRead, Control!Resting
  <2>2. (t = "main" /\ phase = "applying") \/ (t = "router" /\ router = "applying")
    BY <2>1 DEF ControlPlaces, Control!Thread
  <2>3. \A u \in Control!Thread : u # t => apply'[u] = apply[u]
    BY DEF Control!ApplyRead
  <2> QED
    BY <2>2, <2>3 DEF Control!ApplyRead, ControlPlaces, Control!Thread
<1>3. ControlRadio'
  BY DEF Control!ApplyRead, Control!Other, Control!Effective, ControlRadio, ControlPlaces, OnItsWay, Stage,
     Control!Thread, Control!Resting, Control!Other, Control!Effective
<1>4. ControlUploads' /\ ControlUnasked' /\ ControlSeeded'
  BY DEF Control!ApplyRead, Control!Other, Control!Effective, ControlUploads, ControlUnasked, ControlSeeded,
     ControlPlaces, Control!Thread, Control!Resting, Stage
<1>5. ControlDark'
  BY DEF Control!ApplyRead, Control!Other, Control!Effective, ControlDark, ControlPlaces, Control!Thread,
     Control!Resting, Stage
<1> QED
  BY <1>1, <1>2, <1>3, <1>4, <1>5

LEMMA ControlTutk ==
  ASSUME ControlInv, NEW t \in Control!Thread, Control!ApplyTutk(t) PROVE ControlInv'
<1> USE DEF ControlInv, ControlTyped
<1>1. ControlTyped'
  BY DEF Control!ApplyTutk, Stage, Control!Thread, Control!Name, Control!Resting
<1>2. ControlPlaces'
  <2>1. apply[t] # Control!Resting
    BY DEF Control!ApplyTutk, Control!Resting
  <2>2. (t = "main" /\ phase = "applying") \/ (t = "router" /\ router = "applying")
    BY <2>1 DEF ControlPlaces, Control!Thread
  <2>3. \A u \in Control!Thread : u # t => apply'[u] = apply[u]
    BY DEF Control!ApplyTutk
  <2> QED
    BY <2>2, <2>3 DEF Control!ApplyTutk, ControlPlaces, Control!Thread
<1>3. ControlRadio'
  BY DEF Control!ApplyTutk, ControlRadio, ControlPlaces, OnItsWay, Stage, Control!Thread, Control!Resting,
         Control!Other, Control!Effective
<1>4. ControlUploads' /\ ControlUnasked' /\ ControlSeeded'
  BY DEF Control!ApplyTutk, ControlUploads, ControlUnasked, ControlSeeded, ControlPlaces, Control!Thread,
         Control!Resting, Stage
<1>5. ControlDark'
  BY DEF Control!ApplyTutk, ControlDark, ControlPlaces, Control!Thread, Control!Resting, Stage
<1> QED
  BY <1>1, <1>2, <1>3, <1>4, <1>5

LEMMA ControlBle ==
  ASSUME ControlInv, NEW t \in Control!Thread, Control!ApplyBle(t) PROVE ControlInv'
<1> USE DEF ControlInv, ControlTyped
<1>1. ControlTyped'
  BY DEF Control!ApplyBle, Stage, Control!Thread, Control!Name, Control!Resting
<1>2. ControlPlaces'
  BY DEF Control!ApplyBle, ControlPlaces, Control!Thread, Control!Resting
<1>3. ControlRadio'
  BY DEF Control!ApplyBle, ControlRadio, ControlPlaces, OnItsWay, Stage, Control!Thread, Control!Resting,
         Control!Other, Control!Effective
<1>4. ControlUploads' /\ ControlUnasked' /\ ControlSeeded'
  BY DEF Control!ApplyBle, ControlUploads, ControlUnasked, ControlSeeded, ControlPlaces, Control!Thread,
         Control!Resting, Stage
<1>5. ControlDark'
  BY DEF Control!ApplyBle, ControlDark, ControlPlaces, Control!Thread, Control!Resting, Stage
<1> QED
  BY <1>1, <1>2, <1>3, <1>4, <1>5

LEMMA ControlSetsOwner ==
  ASSUME ControlInv, NEW o \in Owner \cup {Unbound}, Control!SetOwner(o) PROVE ControlInv'
<1> USE DEF ControlInv, ControlTyped
<1>1. ControlTyped'
  <2>1. Control!Write("nop_owner", [db EXCEPT !.owner = o])
    BY DEF Control!SetOwner
  <2>2. db' = [db EXCEPT !.owner = o] /\ UNCHANGED <<phase, subs, radio>>
    BY <2>1 DEF Control!Write
  <2>3. past' \in [overlap : BOOLEAN, missed : BOOLEAN, asked : BOOLEAN, late : BOOLEAN, name : Control!Name]
    BY <2>1 DEF Control!Write, Control!Asked
  <2>4. apply' \in [Control!Thread -> Stage] /\ router' \in {"none", "idle", "reading", "applying", "forwarding"}
    BY <2>1 DEF Control!Write, Control!Told, Stage, Control!Thread
  <2>5. db' \in [seeded : BOOLEAN, owner : Owner \cup {Unbound}, admin : BOOLEAN,
                remote : BOOLEAN, cloud : BOOLEAN, name : Control!Name]
    BY <2>2
  <2>6. uploader' \in [on : BOOLEAN, switch : BOOLEAN, token : Owner \cup {Unbound}]
    BY <2>1, <2>5 DEF Control!Write, Control!Told
  <2> QED
    BY <2>2, <2>3, <2>4, <2>5, <2>6
<1>2. ControlPlaces'
  <2>1. Control!Write("nop_owner", [db EXCEPT !.owner = o])
    BY DEF Control!SetOwner
  <2>2. router = "reading" /\ UNCHANGED <<phase, subs, radio>> /\ uploader'.on = uploader.on
    BY <2>1 DEF Control!Write, Control!Told, Control!Reading
  <2>3. apply'["main"] = apply["main"]
    BY <2>1 DEF Control!Write, Control!Told, Control!Thread
  <2>4. \/ router' = "idle" /\ apply' = apply
        \/ router' = "applying" /\ apply'["router"].at = "read" /\ "nop_owner" \in subs
    BY <2>1 DEF Control!Write, Control!Told, Control!Thread, Stage
  <2>5. phase' \notin {"off", "seeding", "opened", "stopped"}
    BY <2>2 DEF ControlPlaces
  <2>6. \A t \in Control!Thread : apply'[t].at = "idle" => apply'[t] = Control!Resting
    BY <2>3, <2>4 DEF ControlPlaces, Control!Thread
  <2>7. /\ phase' # "applying" => apply'["main"] = Control!Resting
        /\ router' # "applying" => apply'["router"] = Control!Resting
    BY <2>2, <2>3, <2>4 DEF ControlPlaces
  <2> QED
    BY <2>2, <2>5, <2>6, <2>7 DEF ControlPlaces
<1>3. ControlRadio'
  BY DEF Control!SetOwner, Control!Write, Control!Reading, Control!Told, Control!Asked, Control!Missed,
     Control!Stopping, ControlRadio, ControlPlaces, OnItsWay, Stage, Control!Thread, Control!Resting, Control!Other,
     Control!Effective
<1>4. ControlUploads' /\ ControlUnasked' /\ ControlSeeded'
  BY DEF Control!SetOwner, Control!Write, Control!Reading, Control!Told, Control!Asked, Control!Missed,
     Control!Stopping, ControlUploads, ControlUnasked, ControlSeeded, ControlPlaces, Control!Thread, Control!Resting,
     Stage
<1>5. ControlDark'
  BY DEF Control!SetOwner, Control!Write, Control!Reading, Control!Told, Control!Asked, Control!Missed,
     Control!Stopping, ControlDark, ControlPlaces, Control!Thread, Control!Resting, Stage
<1> QED
  BY <1>1, <1>2, <1>3, <1>4, <1>5

LEMMA ControlSetsRemote ==
  ASSUME ControlInv, NEW b \in BOOLEAN, Control!SetRemote(b) PROVE ControlInv'
<1> USE DEF ControlInv, ControlTyped
<1>1. ControlTyped'
  <2>1. Control!Write("service.remote_access", [db EXCEPT !.remote = b])
    BY DEF Control!SetRemote
  <2>2. db' = [db EXCEPT !.remote = b] /\ UNCHANGED <<phase, subs, radio>>
    BY <2>1 DEF Control!Write
  <2>3. past' \in [overlap : BOOLEAN, missed : BOOLEAN, asked : BOOLEAN, late : BOOLEAN, name : Control!Name]
    BY <2>1 DEF Control!Write, Control!Asked
  <2>4. apply' \in [Control!Thread -> Stage] /\ router' \in {"none", "idle", "reading", "applying", "forwarding"}
    BY <2>1 DEF Control!Write, Control!Told, Stage, Control!Thread
  <2>5. db' \in [seeded : BOOLEAN, owner : Owner \cup {Unbound}, admin : BOOLEAN,
                remote : BOOLEAN, cloud : BOOLEAN, name : Control!Name]
    BY <2>2
  <2>6. uploader' \in [on : BOOLEAN, switch : BOOLEAN, token : Owner \cup {Unbound}]
    BY <2>1, <2>5 DEF Control!Write, Control!Told
  <2> QED
    BY <2>2, <2>3, <2>4, <2>5, <2>6
<1>2. ControlPlaces'
  <2>1. Control!Write("service.remote_access", [db EXCEPT !.remote = b])
    BY DEF Control!SetRemote
  <2>2. router = "reading" /\ UNCHANGED <<phase, subs, radio>> /\ uploader'.on = uploader.on
    BY <2>1 DEF Control!Write, Control!Told, Control!Reading
  <2>3. apply'["main"] = apply["main"]
    BY <2>1 DEF Control!Write, Control!Told, Control!Thread
  <2>4. \/ router' = "idle" /\ apply' = apply
        \/ router' = "applying" /\ apply'["router"].at = "read" /\ "service.remote_access" \in subs
    BY <2>1 DEF Control!Write, Control!Told, Control!Thread, Stage
  <2>5. phase' \notin {"off", "seeding", "opened", "stopped"}
    BY <2>2 DEF ControlPlaces
  <2>6. \A t \in Control!Thread : apply'[t].at = "idle" => apply'[t] = Control!Resting
    BY <2>3, <2>4 DEF ControlPlaces, Control!Thread
  <2>7. /\ phase' # "applying" => apply'["main"] = Control!Resting
        /\ router' # "applying" => apply'["router"] = Control!Resting
    BY <2>2, <2>3, <2>4 DEF ControlPlaces
  <2> QED
    BY <2>2, <2>5, <2>6, <2>7 DEF ControlPlaces
<1>3. ControlRadio'
  BY DEF Control!SetRemote, Control!Write, Control!Reading, Control!Told, Control!Asked, Control!Missed,
     Control!Stopping, ControlRadio, ControlPlaces, OnItsWay, Stage, Control!Thread, Control!Resting, Control!Other,
     Control!Effective
<1>4. ControlUploads' /\ ControlUnasked' /\ ControlSeeded'
  BY DEF Control!SetRemote, Control!Write, Control!Reading, Control!Told, Control!Asked, Control!Missed,
     Control!Stopping, ControlUploads, ControlUnasked, ControlSeeded, ControlPlaces, Control!Thread, Control!Resting,
     Stage
<1>5. ControlDark'
  BY DEF Control!SetRemote, Control!Write, Control!Reading, Control!Told, Control!Asked, Control!Missed,
     Control!Stopping, ControlDark, ControlPlaces, Control!Thread, Control!Resting, Stage
<1> QED
  BY <1>1, <1>2, <1>3, <1>4, <1>5

LEMMA ControlSetsCloud ==
  ASSUME ControlInv, NEW b \in BOOLEAN, Control!SetCloud(b) PROVE ControlInv'
<1> USE DEF ControlInv, ControlTyped
<1>1. ControlTyped'
  BY ZenonT(90) DEF Control!SetCloud, Control!Write, Control!Reading, Control!Told, Control!Asked, Control!Missed,
     Control!Stopping, Stage, Control!Thread, Control!Name, Control!Resting
<1>2. ControlPlaces'
  BY DEF Control!SetCloud, Control!Write, Control!Reading, Control!Told, Control!Asked, Control!Missed,
     Control!Stopping, ControlPlaces, Control!Thread, Control!Resting
<1>3. ControlRadio'
  BY DEF Control!SetCloud, Control!Write, Control!Reading, Control!Told, Control!Asked, Control!Missed,
     Control!Stopping, ControlRadio, ControlPlaces, OnItsWay, Stage, Control!Thread, Control!Resting, Control!Other,
     Control!Effective
<1>4. ControlUploads' /\ ControlUnasked' /\ ControlSeeded'
  BY DEF Control!SetCloud, Control!Write, Control!Reading, Control!Told, Control!Asked, Control!Missed,
     Control!Stopping, ControlUploads, ControlUnasked, ControlSeeded, ControlPlaces, Control!Thread, Control!Resting,
     Stage
<1>5. ControlDark'
  BY DEF Control!SetCloud, Control!Write, Control!Reading, Control!Told, Control!Asked, Control!Missed,
     Control!Stopping, ControlDark, ControlPlaces, Control!Thread, Control!Resting, Stage
<1> QED
  BY <1>1, <1>2, <1>3, <1>4, <1>5

LEMMA ControlSetsName ==
  ASSUME ControlInv, NEW n \in Control!Name, Control!SetName(n) PROVE ControlInv'
<1> USE DEF ControlInv, ControlTyped
<1>1. ControlTyped'
  BY ZenonT(60) DEF Control!SetName, Control!Reading, Control!Stopping, Stage, Control!Thread, Control!Name, Control!Resting
<1>2. ControlPlaces'
  BY DEF Control!SetName, Control!Reading, Control!Stopping, ControlPlaces, Control!Thread, Control!Resting
<1>3. ControlRadio'
  BY DEF Control!SetName, Control!Reading, Control!Stopping, ControlRadio, ControlPlaces, OnItsWay, Stage,
     Control!Thread, Control!Resting, Control!Other, Control!Effective
<1>4. ControlUploads' /\ ControlUnasked' /\ ControlSeeded'
  BY DEF Control!SetName, Control!Reading, Control!Stopping, ControlUploads, ControlUnasked, ControlSeeded,
     ControlPlaces, Control!Thread, Control!Resting, Stage
<1>5. ControlDark'
  BY DEF Control!SetName, Control!Reading, Control!Stopping, ControlDark, ControlPlaces, Control!Thread,
     Control!Resting, Stage
<1> QED
  BY <1>1, <1>2, <1>3, <1>4, <1>5

LEMMA ControlStutters ==
  ASSUME ControlInv, UNCHANGED controlVars PROVE ControlInv'
<1> USE DEF ControlInv, ControlTyped
<1>1. ControlTyped'
  BY DEF controlVars, Stage, Control!Thread, Control!Name, Control!Resting
<1>2. ControlPlaces'
  BY DEF controlVars, ControlPlaces, Control!Thread, Control!Resting
<1>3. ControlRadio'
  BY DEF controlVars, ControlRadio, ControlPlaces, OnItsWay, Stage, Control!Thread, Control!Resting,
         Control!Other, Control!Effective
<1>4. ControlUploads' /\ ControlUnasked' /\ ControlSeeded'
  BY DEF controlVars, ControlUploads, ControlUnasked, ControlSeeded, ControlPlaces, Control!Thread,
         Control!Resting, Stage
<1>5. ControlDark'
  BY DEF controlVars, ControlDark, ControlPlaces, Control!Thread, Control!Resting, Stage
<1> QED
  BY <1>1, <1>2, <1>3, <1>4, <1>5


LEMMA ControlStep == ASSUME ControlInv, Control!ControlNext PROVE ControlInv'
<1>1. CASE Control!Open \/ Control!Boot
  BY <1>1, ControlOpens, ControlSeeds, ControlRoutes, ControlNoCloud, ControlUploader, ControlSwitch,
     ControlFollowsCloud, ControlResets, ControlFollowsOwner, ControlFollowsRemote, ControlStarted, Zenon
     DEF Control!Boot
<1>2. CASE Control!StopRemote \/ Control!Halt \/ Control!PowerFails \/ Control!Provision
  BY <1>2, ControlStopsRemote, ControlStopsUploader, ControlClosesListener, ControlStopsRouter, ControlEnds,
     ControlProvisions, Zenon DEF Control!Halt
<1>3. CASE Control!Accept \/ Control!ReadsNothing \/ Control!Commands \/ Control!Answer \/ Control!Forwarded
  BY <1>3, ControlAccepts, ControlAnswers, ControlSetsOwner, ControlSetsRemote, ControlSetsCloud, ControlSetsName,
     Zenon DEF Control!Commands
<1>4. CASE \E t \in Control!Thread : Control!Applies(t)
  BY <1>4, ControlReadsSettings, ControlTutk, ControlBle, Zenon DEF Control!Applies
<1> QED
  BY <1>1, <1>2, <1>3, <1>4, Zenon DEF Control!ControlNext

LEMMA ControlIsSafe == ASSUME ControlInv PROVE Control!ControlSafe
<1> USE DEF ControlInv
<1>1. Control!ControlTypeOK
  BY DEF ControlTyped, ControlPlaces, Control!ControlTypeOK
<1>2. Control!RemoteMatches
  BY DEF ControlTyped, ControlPlaces, ControlRadio, Control!RemoteMatches, Control!Settled, Control!Resting
<1>3. Control!UploaderFollows
  BY DEF ControlUploads, Control!UploaderFollows, Control!Settled
<1>4. Control!ComesUpClosed
  BY <1>2 DEF ControlTyped, ControlUnasked, Control!ComesUpClosed, Control!RemoteMatches, Control!Settled,
              Control!Effective
<1>5. Control!AcknowledgedStays /\ Control!StopsDark
  BY DEF ControlSeeded, ControlDark, Control!AcknowledgedStays, Control!StopsDark
<1> QED
  BY <1>1, <1>2, <1>3, <1>4, <1>5 DEF Control!ControlSafe

(***************************************************************************)
(* nvr_app.c, nvr_settings.c: the radios and the uploader follow the       *)
(* settings, and these are what was last acknowledged, for any owners, any *)
(* commands during start and stop, and any failures of power.              *)
(***************************************************************************)
THEOREM SettingsAreFollowed == BoxSpec => []ControlSafe
<1>1. BoxInit => ControlInv
  BY ControlInitInv, Zenon DEF BoxInit
<1>2. ControlInv /\ [BoxNext]_boxVars => ControlInv'
  <2> SUFFICES ASSUME ControlInv, [BoxNext]_boxVars PROVE ControlInv'
    OBVIOUS
  <2>1. CASE UNCHANGED controlVars
    BY <2>1, ControlStutters, Zenon
  <2>2. CASE Control!ControlNext
    BY <2>2, ControlStep, Zenon
  <2> QED
    BY <2>1, <2>2, Zenon DEF BoxNext, boxVars
<1>3. ControlInv => ControlSafe
  BY ControlIsSafe, Zenon DEF ControlSafe
<1> QED
  BY <1>1, <1>2, <1>3, PTL DEF BoxSpec

-----------------------------------------------------------------------------
(***************************************************************************)
(* Upgrade.  The flag g_busy has one holder, a caller on its way to        *)
(* pthread_create or the thread it created; the thread of a session is     *)
(* joined before the next one or the end; an event that is being handled   *)
(* is counted by the handle.                                               *)
(***************************************************************************)
Told == {"idle", "downloading", "verifying", "updating", "done", "failed"}
Handled == {e \in Delivery : event[e] \in {"work", "leave"}}

UpTyped ==
  /\ busy \in BOOLEAN /\ shown \in Told
  /\ caller \in [Caller -> {"idle", "create"}]
  /\ job \in [at : [Job -> {"none", "begin", "open", "fetch", "verify", "update", "out"}], result : Told]
  /\ sess \in [running : BOOLEAN, joinable : BOOLEAN, status : {"idle", "downloading", "failed", "nothing", "downloaded"},
               at : {"idle", "reap", "tell", "flag", "create", "unflag", "made", "gone"},
               thread : {"none", "fetch", "told", "over"}]
  /\ handle \in [attached : BOOLEAN, stopping : BOOLEAN, inFlight : Nat,
                 at : {"none", "live", "detached", "waiting", "freed"}]
  /\ event \in [Delivery -> {"idle", "called", "work", "leave"}]

UpHeld ==
  /\ ~busy => (\A c \in Caller : caller[c] = "idle") /\ (\A j \in Job : job.at[j] = "none")
  /\ \A c, d \in Caller : caller[c] = "create" /\ caller[d] = "create" => c = d
  /\ \A j, k \in Job : job.at[j] # "none" /\ job.at[k] # "none" => j = k
  /\ \A c \in Caller, j \in Job : caller[c] = "create" => job.at[j] = "none"

UpShown ==
  /\ (\A j \in Job : job.at[j] = "none") => shown = job.result
  /\ \A j \in Job : job.at[j] = "out" => shown = job.result

UpSession ==
  /\ sess.thread # "none" => sess.at \in {"idle", "reap", "made"}
  /\ sess.thread # "none" => sess.joinable \/ sess.at = "made"
  /\ sess.thread \in {"fetch", "told"} => sess.running
  /\ sess.thread \in {"told", "over"} => sess.status # "downloading"
  /\ sess.at \in {"tell", "flag", "create", "unflag", "gone"} => ~sess.joinable
  /\ sess.at \in {"create", "unflag"} => sess.running
  /\ sess.at = "made" => sess.thread # "none"
  /\ sess.at = "unflag" => sess.status = "failed"
  /\ ~sess.running /\ sess.at # "flag" => sess.status # "downloading"

UpHandle ==
  /\ handle.attached => handle.at = "live"
  /\ handle.at = "none" => \A e \in Delivery : event[e] = "idle"
  /\ handle.at = "freed" => Handled = {}
  /\ IsFiniteSet(Handled) /\ handle.inFlight = Cardinality(Handled)

UpInv == UpTyped /\ UpHeld /\ UpShown /\ UpSession /\ UpHandle

\* An instance has its own Cardinality.
LEMMA UpCard == \A S : Up!Cardinality(S) = Cardinality(S)
BY DEF Up!Cardinality, Cardinality

LEMMA UpInitInv == ASSUME Up!UpInit PROVE UpInv
<1>1. UpTyped
  BY DEF Up!UpInit, UpTyped, Told
<1>2. UpHeld /\ UpShown /\ UpSession
  BY DEF Up!UpInit, UpHeld, UpShown, UpSession
<1>3. Handled = {}
  BY DEF Up!UpInit, Handled
<1>4. UpHandle
  BY <1>3, FS_EmptySet DEF Up!UpInit, UpHandle
<1> QED
  BY <1>1, <1>2, <1>4 DEF UpInv

LEMMA UpClaims ==
  ASSUME UpInv, NEW c \in Caller, Up!Claim(c) \/ Up!CreateFails(c)
  PROVE  UpInv'
<1> USE DEF UpInv
<1>0. UNCHANGED <<sess, handle, event>>
  BY DEF Up!Claim, Up!CreateFails
<1>1. UpTyped'
  <2>1. caller' \in [Caller -> {"idle", "create"}] /\ busy' \in BOOLEAN /\ UNCHANGED <<shown, job>>
    BY DEF UpTyped, Up!Claim, Up!CreateFails
  <2> QED
    BY <1>0, <2>1 DEF UpTyped
<1>2. UpHeld'
  BY DEF UpTyped, UpHeld, Up!Claim, Up!CreateFails
<1>3. UpShown'
  BY DEF UpTyped, UpHeld, UpShown, Up!Claim, Up!CreateFails
<1>4. UpSession' /\ UpHandle'
  BY <1>0 DEF UpSession, UpHandle, Handled
<1> QED
  BY <1>1, <1>2, <1>3, <1>4

LEMMA UpCreates ==
  ASSUME UpInv, NEW c \in Caller, Up!Create(c)
  PROVE  UpInv'
<1> USE DEF UpInv
<1>0. UNCHANGED <<sess, handle, event>>
  BY DEF Up!Create
<1>1. UpTyped'
  BY <1>0 DEF UpTyped, Told, Up!Create
<1>2. UpHeld'
  BY DEF UpTyped, UpHeld, Up!Create
<1>3. UpShown'
  BY DEF UpTyped, UpHeld, UpShown, Up!Create
<1>4. UpSession' /\ UpHandle'
  BY <1>0 DEF UpSession, UpHandle, Handled
<1> QED
  BY <1>1, <1>2, <1>3, <1>4

LEMMA UpGoes ==
  ASSUME UpInv, NEW j \in Job, job.at[j] # "none",
         NEW a \in {"open", "fetch", "verify", "update", "out"}, NEW s \in Told, Up!Goes(j, a, s)
  PROVE  UpInv'
<1> USE DEF UpInv
<1>0. UNCHANGED <<busy, caller, sess, handle, event>> /\ shown' = s
  BY DEF Up!Goes
<1>1. job' = [job EXCEPT !.at[j] = a, !.result = IF a = "out" THEN s ELSE job.result]
  BY DEF Up!Goes
<1>2. /\ job'.at = [job.at EXCEPT ![j] = a] /\ job'.result = IF a = "out" THEN s ELSE job.result
      /\ job' \in [at : [Job -> {"none", "begin", "open", "fetch", "verify", "update", "out"}], result : Told]
  BY <1>1 DEF UpTyped
<1>3. UpTyped'
  BY <1>0, <1>2 DEF UpTyped
<1>4. job.at \in [Job -> {"none", "begin", "open", "fetch", "verify", "update", "out"}]
  BY DEF UpTyped
<1>5. \A k \in Job : job'.at[k] # "none" <=> job.at[k] # "none"
  BY <1>2, <1>4
<1>6. UpHeld'
  BY <1>0, <1>5 DEF UpHeld
<1>7. UpShown'
  <2>1. \A k \in Job : k # j => job'.at[k] = "none"
    BY <1>5 DEF UpHeld
  <2>2. job'.at[j] = a
    BY <1>2, <1>4
  <2>3. a = "out" => job'.result = shown'
    BY <1>0, <1>2
  <2>4. \A k \in Job : job'.at[k] = "out" => k = j
    BY <2>1
  <2> QED
    BY <2>2, <2>3, <2>4 DEF UpShown
<1>8. UpSession' /\ UpHandle'
  BY <1>0 DEF UpSession, UpHandle, Handled
<1> QED
  BY <1>3, <1>6, <1>7, <1>8

LEMMA UpOut ==
  ASSUME UpInv, NEW j \in Job, Up!Out(j)
  PROVE  UpInv'
<1> USE DEF UpInv
<1>0. UNCHANGED <<shown, caller, sess, handle, event>> /\ busy' = FALSE
  BY DEF Up!Out
<1>1. job' = [job EXCEPT !.at[j] = "none"] /\ job.at[j] = "out"
  BY DEF Up!Out
<1>2. /\ job'.at = [job.at EXCEPT ![j] = "none"] /\ job'.result = job.result
      /\ job' \in [at : [Job -> {"none", "begin", "open", "fetch", "verify", "update", "out"}], result : Told]
  BY <1>1 DEF UpTyped
<1>3. job.at \in [Job -> {"none", "begin", "open", "fetch", "verify", "update", "out"}]
  BY DEF UpTyped
<1>4. \A k \in Job : job'.at[k] = "none"
  BY <1>1, <1>2, <1>3 DEF UpHeld
<1>5. \A c \in Caller : caller[c] = "idle"
  BY <1>1 DEF UpHeld, UpTyped
<1>6. UpTyped' /\ UpHeld'
  <2>1. UpTyped'
    <3>1. busy' \in BOOLEAN
      BY Zenon DEF Up!Out
    <3>2. UNCHANGED <<shown, caller, sess, handle, event>>
      BY <1>0
    <3> QED
      BY <1>2, <3>1, <3>2 DEF UpTyped
  <2>2. UpHeld'
    <3>1. \A c \in Caller : caller'[c] = "idle"
      BY <1>0, <1>5
    <3> QED
      BY <1>4, <3>1 DEF UpHeld
  <2> QED
    BY <2>1, <2>2
<1>8. UpShown'
  <2>1. shown' = job'.result
    BY <1>0, <1>1, <1>2 DEF UpShown
  <2> QED
    BY <2>1 DEF UpShown
<1>7. UpSession' /\ UpHandle'
  BY <1>0 DEF UpSession, UpHandle, Handled
<1> QED
  BY <1>6, <1>7, <1>8

LEMMA UpWorks == ASSUME UpInv, NEW j \in Job, Up!Works(j) PROVE UpInv'
<1>1. CASE Up!Out(j)
  BY <1>1, UpOut, Zenon
<1>2. CASE ~Up!Out(j)
  <2>1. \E a \in {"open", "fetch", "verify", "update", "out"}, s \in Told : Up!Goes(j, a, s)
    BY <1>2 DEF Up!Works, Up!Begin, Up!OpenFails, Up!Progress, Up!FetchFails, Up!Fetched, Up!Update, Up!Done, Told
  <2>2. job.at[j] # "none"
    BY <1>2 DEF Up!Works, Up!Begin, Up!OpenFails, Up!Progress, Up!FetchFails, Up!Fetched, Up!Update, Up!Done
  <2> QED
    BY <2>1, <2>2, UpGoes, Zenon
<1> QED
  BY <1>1, <1>2

LEMMA UpSessionStep ==
  ASSUME UpInv, Up!SessionNext
  PROVE  UpInv'
<1> USE DEF UpInv
<1> DEFINE SessType == [running : BOOLEAN, joinable : BOOLEAN, status : {"idle", "downloading", "failed", "nothing", "downloaded"},
               at : {"idle", "reap", "tell", "flag", "create", "unflag", "made", "gone"},
               thread : {"none", "fetch", "told", "over"}]
<1>0. UNCHANGED <<busy, shown, caller, job, handle, event>>
  BY DEF Up!SessionNext, Up!SessionStart, Up!SessionReap, Up!SessionTell, Up!SessionFlag, Up!SessionCreate,
     Up!SessionCreateFails, Up!SessionUnflag, Up!SessionMade, Up!SessionEnd, Up!SessionOver, Up!SessionDestroy,
     Up!Session, Up!nvrVars
<1>1. UpHeld' /\ UpShown' /\ UpHandle'
  BY <1>0 DEF UpHeld, UpShown, UpHandle, Handled
<1>2. sess \in SessType
  BY DEF UpTyped
<1>3. sess' \in SessType /\ UpSession'
  <2>1. CASE Up!SessionStart
    BY <1>2, <2>1 DEF UpSession, Up!SessionStart, Up!Session
  <2>2. CASE Up!SessionReap
    BY <1>2, <2>2 DEF UpSession, Up!SessionReap, Up!Session
  <2>3. CASE Up!SessionTell \/ Up!SessionFlag
    BY <1>2, <2>3 DEF UpSession, Up!SessionTell, Up!SessionFlag, Up!Session
  <2>4. CASE Up!SessionCreate
    BY <1>2, <2>4 DEF UpSession, Up!SessionCreate, Up!Session
  <2>5. CASE Up!SessionCreateFails
    BY <1>2, <2>5 DEF UpSession, Up!SessionCreateFails, Up!Session
  <2>6. CASE Up!SessionUnflag
    BY <1>2, <2>6 DEF UpSession, Up!SessionUnflag, Up!Session
  <2>7. CASE Up!SessionMade
    BY <1>2, <2>7 DEF UpSession, Up!SessionMade, Up!Session
  <2>8. CASE Up!SessionEnd
    BY <1>2, <2>8 DEF UpSession, Up!SessionEnd, Up!Session
  <2>9. CASE Up!SessionOver
    BY <1>2, <2>9 DEF UpSession, Up!SessionOver, Up!Session
  <2>10. CASE Up!SessionDestroy
    BY <1>2, <2>10 DEF UpSession, Up!SessionDestroy, Up!Session
  <2> QED
    BY <2>1, <2>2, <2>3, <2>4, <2>5, <2>6, <2>7, <2>8, <2>9, <2>10 DEF Up!SessionNext
<1>4. UpTyped'
  BY <1>0, <1>3 DEF UpTyped
<1> QED
  BY <1>1, <1>3, <1>4

\* A delivery that begins or ends its work is counted on or off.
LEMMA UpCounted ==
  ASSUME UpInv, NEW e \in Delivery, NEW s \in {"idle", "called", "work", "leave"},
         event' = [event EXCEPT ![e] = s]
  PROVE  /\ event' \in [Delivery -> {"idle", "called", "work", "leave"}]
         /\ s \in {"work", "leave"} => Handled' = Handled \cup {e}
         /\ s \notin {"work", "leave"} => Handled' = Handled \ {e}
BY DEF UpInv, UpTyped, Handled

LEMMA UpDelivers ==
  ASSUME UpInv, NEW e \in Delivery, Up!Delivered(e) \/ Up!Deliveries(e)
  PROVE  UpInv'
<1> USE DEF UpInv
<1>0. UNCHANGED <<busy, shown, caller, job, sess>>
  BY DEF Up!Delivered, Up!Deliveries, Up!Refused, Up!Enter, Up!Acts, Up!Leave, Up!Stray, Up!Handle, Up!nvrVars
<1>1. UpHeld' /\ UpShown' /\ UpSession'
  BY <1>0 DEF UpHeld, UpShown, UpSession
<1>2. IsFiniteSet(Handled) /\ handle.inFlight = Cardinality(Handled) /\ handle \in
        [attached : BOOLEAN, stopping : BOOLEAN, inFlight : Nat, at : {"none", "live", "detached", "waiting", "freed"}]
  BY DEF UpHandle, UpTyped
<1>3. CASE Up!Delivered(e) \/ Up!Refused(e) \/ Up!Stray(e)
  <2>1. PICK s \in {"idle", "called"} : event' = [event EXCEPT ![e] = s]
    BY <1>3 DEF Up!Delivered, Up!Refused, Up!Stray
  <2>2. handle' = handle /\ e \notin Handled /\ event[e] \in {"idle", "called"}
    BY <1>3 DEF Up!Delivered, Up!Refused, Up!Stray, Up!Handle, Handled
  <2>3. Handled' = Handled /\ event' \in [Delivery -> {"idle", "called", "work", "leave"}]
    <3>1. s \in {"idle", "called", "work", "leave"} /\ s \notin {"work", "leave"}
      OBVIOUS
    <3>2. Handled' = Handled \ {e} /\ event' \in [Delivery -> {"idle", "called", "work", "leave"}]
      BY <2>1, <3>1, UpCounted, Zenon
    <3> QED
      BY <2>2, <3>2
  <2>4. UpTyped'
    BY <1>0, <2>2, <2>3 DEF UpTyped
  <2>5. handle.at = "none" => ~handle.attached /\ s = "idle"
    BY <1>3, <2>1, <2>2 DEF UpHandle, UpTyped, Up!Delivered, Up!Refused, Up!Stray
  <2>6. UpHandle'
    BY <2>1, <2>2, <2>3, <2>5 DEF UpHandle, UpTyped
  <2> QED
    BY <1>1, <2>4, <2>6
<1>4. CASE Up!Enter(e)
  <2>1. /\ event' = [event EXCEPT ![e] = "work"] /\ handle' = [handle EXCEPT !.inFlight = @ + 1]
        /\ e \notin Handled /\ handle.at # "freed" /\ handle.at # "none"
    BY <1>4 DEF Up!Enter, Up!Handle, Handled, UpHandle
  <2>2. Handled' = Handled \cup {e} /\ event' \in [Delivery -> {"idle", "called", "work", "leave"}]
    BY <2>1, UpCounted
  <2>3. IsFiniteSet(Handled') /\ Cardinality(Handled') = handle.inFlight + 1
    BY <1>2, <2>1, <2>2, FS_AddElement
  <2>4. UpTyped'
    BY <1>0, <1>2, <2>1, <2>2 DEF UpTyped
  <2>5. UpHandle'
    BY <1>2, <2>1, <2>3 DEF UpHandle
  <2> QED
    BY <1>1, <2>4, <2>5
<1>5. CASE Up!Acts(e)
  <2>1. event' = [event EXCEPT ![e] = "leave"] /\ handle' = handle /\ e \in Handled
    BY <1>5 DEF Up!Acts, Up!Handle, Handled
  <2>2. Handled' = Handled /\ event' \in [Delivery -> {"idle", "called", "work", "leave"}]
    <3>1. Handled' = Handled \cup {e} /\ event' \in [Delivery -> {"idle", "called", "work", "leave"}]
      BY <2>1, UpCounted, Zenon
    <3> QED
      BY <2>1, <3>1
  <2>3. handle.at # "none"
    BY <2>1 DEF UpHandle, Handled
  <2>4. UpTyped' /\ UpHandle'
    BY <1>0, <1>2, <2>1, <2>2, <2>3 DEF UpTyped, UpHandle
  <2> QED
    BY <1>1, <2>4
<1>6. CASE Up!Leave(e)
  <2>1. event' = [event EXCEPT ![e] = "idle"] /\ handle' = [handle EXCEPT !.inFlight = @ - 1] /\ e \in Handled
    BY <1>6 DEF Up!Leave, Up!Handle, Handled
  <2>2. Handled' = Handled \ {e} /\ event' \in [Delivery -> {"idle", "called", "work", "leave"}]
    BY <2>1, UpCounted
  <2>3. /\ IsFiniteSet(Handled') /\ Cardinality(Handled') = handle.inFlight - 1
        /\ Cardinality(Handled') \in Nat
    BY <1>2, <2>1, <2>2, FS_RemoveElement, FS_CardinalityType
  <2>4. handle.at # "none" /\ handle.at # "freed"
    BY <2>1 DEF UpHandle, Handled
  <2>5. handle' \in [attached : BOOLEAN, stopping : BOOLEAN, inFlight : Nat,
                     at : {"none", "live", "detached", "waiting", "freed"}] /\ handle'.inFlight = handle.inFlight - 1
        /\ handle'.at = handle.at /\ handle'.attached = handle.attached
    BY <1>2, <2>1, <2>3
  <2>6. UpTyped'
    BY <1>0, <2>2, <2>5 DEF UpTyped
  <2>7. UpHandle'
    BY <2>3, <2>4, <2>5 DEF UpHandle
  <2> QED
    BY <1>1, <2>6, <2>7
<1> QED
  BY <1>3, <1>4, <1>5, <1>6 DEF Up!Deliveries

LEMMA UpHandles ==
  ASSUME UpInv, Up!EventsStart \/ Up!Detach \/ Up!Stopping
  PROVE  UpInv'
<1> USE DEF UpInv
<1>0. UNCHANGED <<busy, shown, caller, job, sess, event>>
  BY DEF Up!EventsStart, Up!Detach, Up!Stopping, Up!Refuse, Up!FreeHandle, Up!Handle, Up!nvrVars
<1>1. UpHeld' /\ UpShown' /\ UpSession' /\ Handled' = Handled
  BY <1>0 DEF UpHeld, UpShown, UpSession, Handled
<1> DEFINE HandleType == [attached : BOOLEAN, stopping : BOOLEAN, inFlight : Nat,
                           at : {"none", "live", "detached", "waiting", "freed"}]
<1>h. handle \in HandleType
  BY DEF UpTyped
<1>2. UpTyped'
  <2>1. CASE Up!EventsStart
    <3>1. handle' \in HandleType
      BY <2>1 DEF Up!EventsStart, Up!Handle
    <3> QED
      BY <1>0, <3>1 DEF UpTyped
  <2>2. CASE Up!Detach \/ Up!Stopping
    <3>1. handle' \in HandleType
      BY <1>h, <2>2 DEF Up!Detach, Up!Stopping, Up!Refuse, Up!FreeHandle, Up!Handle
    <3> QED
      BY <1>0, <3>1 DEF UpTyped
  <2> QED
    BY <2>1, <2>2
<1>3. CASE Up!EventsStart
  <2>1. Handled = {} /\ handle'.at = "live" /\ handle'.inFlight = 0
    BY <1>3 DEF Up!EventsStart, Up!Handle, Handled
  <2> QED
    BY <1>1, <1>2, <2>1, FS_EmptySet DEF UpHandle
<1>4. CASE Up!Detach \/ Up!Refuse
  <2>1. /\ handle'.inFlight = handle.inFlight /\ handle'.at \notin {"none", "freed"}
        /\ handle'.attached => handle'.at = "live"
    BY <1>h, <1>4 DEF UpHandle, Up!Detach, Up!Refuse, Up!Handle
  <2> QED
    BY <1>1, <1>2, <2>1 DEF UpHandle
<1>5. CASE Up!FreeHandle
  <2>1. Handled = {}
    BY <1>5, FS_EmptySet DEF UpHandle, Up!FreeHandle
  <2>2. handle' = [handle EXCEPT !.at = "freed"] /\ handle.at = "waiting"
    BY <1>5 DEF Up!FreeHandle, Up!Handle
  <2>3. UpHandle'
    BY <1>1, <2>1, <2>2 DEF UpHandle, UpTyped
  <2> QED
    BY <1>1, <1>2, <2>3
<1> QED
  BY <1>3, <1>4, <1>5 DEF Up!Stopping

LEMMA UpStep == ASSUME UpInv, Up!UpNext PROVE UpInv'
BY UpClaims, UpCreates, UpWorks, UpSessionStep, UpDelivers, UpHandles, Zenon DEF Up!UpNext

LEMMA UpIsSafe == ASSUME UpInv PROVE Up!UpgradeSafe
<1> USE DEF UpInv
<1>1. Up!UpTypeOK
  BY UpCard DEF UpTyped, UpHandle, Handled, Told, Up!UpTypeOK
<1>2. Up!OneImageAtATime
  <2>1. CASE {j \in Job : job.at[j] # "none"} = {}
    BY <2>1, FS_EmptySet, UpCard DEF Up!OneImageAtATime
  <2>2. CASE {j \in Job : job.at[j] # "none"} # {}
    <3>1. PICK k \in Job : {j \in Job : job.at[j] # "none"} = {k}
      BY <2>2 DEF UpHeld
    <3> QED
      <4>1. Cardinality({k}) = 1
        BY FS_Singleton
      <4>2. Up!Cardinality({k}) = Cardinality({k})
        BY UpCard, Zenon
      <4> QED
        BY <3>1, <4>1, <4>2 DEF Up!OneImageAtATime
  <2> QED
    BY <2>1, <2>2
<1>3. Up!ShowsTheLast /\ Up!SessionSettles /\ Up!SessionOwnsThread
  BY DEF UpTyped, UpHeld, UpShown, UpSession, Up!ShowsTheLast, Up!SessionSettles, Up!SessionOwnsThread
<1>4. Up!HandledHoldsHandle
  BY DEF UpHandle, Handled, Up!HandledHoldsHandle
<1> QED
  BY <1>1, <1>2, <1>3, <1>4 DEF Up!UpgradeSafe

(***************************************************************************)
(* nvr_ota.c, server_request.c, svc_system_events.c: one image at a time,  *)
(* a true report, and no thread that outlives what it works on, for any    *)
(* callers, threads and failures.                                          *)
(***************************************************************************)
THEOREM UpgradesAreSafe == BoxSpec => []UpgradeSafe
<1>1. BoxInit => UpInv
  BY UpInitInv, Zenon DEF BoxInit
<1>2. UpInv /\ [BoxNext]_boxVars => UpInv'
  <2> SUFFICES ASSUME UpInv, [BoxNext]_boxVars PROVE UpInv'
    OBVIOUS
  <2>1. CASE UNCHANGED upVars
    BY <2>1 DEF upVars, UpInv, UpTyped, UpHeld, UpShown, UpSession, UpHandle, Handled
  <2>2. CASE Up!UpNext
    BY <2>2, UpStep, Zenon
  <2> QED
    BY <2>1, <2>2, Zenon DEF BoxNext, boxVars
<1>3. UpInv => UpgradeSafe
  BY UpIsSafe, Zenon DEF UpgradeSafe
<1> QED
  BY <1>1, <1>2, <1>3, PTL DEF BoxSpec

-----------------------------------------------------------------------------
(***************************************************************************)
(* Alerts.  What burns and sounds is what the linkage thinks; a publisher  *)
(* is inside the linkage only while it is attached; and the last push, if  *)
(* no bell rang since, is the last one of all.                             *)
(***************************************************************************)
AlTyped ==
  /\ lit \in [Lamp -> BOOLEAN] /\ lightLeft \in [Lamp -> 0 .. Hold] /\ alarm \in [Lamp -> BOOLEAN]
  /\ lamps \in [Lamp -> [light : BOOLEAN, siren : BOOLEAN]]
  /\ linkage \in {"off", "on", "joining", "unsubscribing", "detached", "safe"}
  /\ alertPub \in [Publisher -> [at : {"idle", "light", "push", "policy"}, chan : Alert!Reported,
                                 kind : Alert!Kind, age : 0 .. Delay]]
  /\ sent \in [each : [Lamp -> [Alert!Kind -> 0 .. Alert!Old]], last : 0 .. Alert!Old]
  /\ plain \in [age : 0 .. Alert!Old, rung : BOOLEAN, spaced : BOOLEAN]

AlLamps == \A c \in Lamp : /\ lamps[c].light <=> lit[c]
                           /\ lamps[c].siren <=> alarm[c]
                           /\ alarm[c] => lit[c]

AlStopped ==
  /\ linkage \in {"off", "safe", "detached"} => \A p \in Publisher : alertPub[p].at # "light"
  /\ linkage \in {"off", "safe"} => \A c \in Lamp : ~lit[c] /\ ~alarm[c]

AlSpaced == plain.spaced /\ (plain.rung \/ sent.last = plain.age)

AlInv == AlTyped /\ AlLamps /\ AlStopped /\ AlSpaced

LEMMA AlConstants ==
  /\ 0 \in Lamp /\ Hold \in Nat /\ Silent \in Nat /\ Gap \in Nat /\ Delay \in Nat /\ Alert!Old \in Nat
  /\ Delay <= Alert!Old /\ 0 \in Alert!Reported /\ \A c : Alert!Index(c) \in Lamp
BY BoxAssumption DEF Alert!AlertsAssumption, Alert!Old, Alert!Reported, Alert!Index

LEMMA AlInitInv == ASSUME Alert!AlertsInit PROVE AlInv
<1>1. AlTyped
  <2>1. Alert!Quiet \in [at : {"idle", "light", "push", "policy"}, chan : Alert!Reported, kind : Alert!Kind, age : 0 .. Delay]
    BY AlConstants DEF Alert!Quiet, Alert!Kind
  <2>2. [c \in Lamp |-> [k \in Alert!Kind |-> Alert!Old]] \in [Lamp -> [Alert!Kind -> 0 .. Alert!Old]]
    BY AlConstants
  <2> QED
    BY AlConstants, <2>1, <2>2 DEF Alert!AlertsInit, AlTyped
<1>2. AlLamps /\ AlStopped /\ AlSpaced
  BY DEF Alert!AlertsInit, AlLamps, AlStopped, AlSpaced, Alert!Quiet
<1> QED
  BY <1>1, <1>2 DEF AlInv

LEMMA AlPublishes ==
  ASSUME AlInv, NEW p \in Publisher, NEW c \in Alert!Reported, NEW k \in Alert!Kind, Alert!Publish(p, c, k)
  PROVE  AlInv'
<1> USE DEF AlInv
<1>0. UNCHANGED <<lit, lightLeft, alarm, lamps, linkage, sent, plain>>
  BY DEF Alert!Publish, Alert!lightVars, Alert!pushVars
<1>1. PICK a \in {"light", "push"} :
        /\ alertPub' = [alertPub EXCEPT ![p] = [at |-> a, chan |-> c, kind |-> k, age |-> 0]]
        /\ a = "light" => linkage \in {"on", "joining", "unsubscribing"}
  BY DEF Alert!Publish, Alert!Attached
<1>2. AlTyped'
  BY <1>0, <1>1, AlConstants DEF AlTyped
<1>3. AlLamps' /\ AlSpaced'
  BY <1>0 DEF AlLamps, AlSpaced
<1>4. AlStopped'
  BY <1>0, <1>1 DEF AlStopped, AlTyped
<1> QED
  BY <1>2, <1>3, <1>4

LEMMA AlLights ==
  ASSUME AlInv, NEW p \in Publisher, Alert!LightSink(p)
  PROVE  AlInv'
<1> USE DEF AlInv
<1> DEFINE c == Alert!Index(alertPub[p].chan)
           warns == alertPub[p].kind # "ring" /\ ~alarm[c]
<1>0. UNCHANGED <<alarm, linkage, sent, plain>> /\ alertPub[p].at = "light" /\ c \in Lamp
  BY AlConstants DEF Alert!LightSink, Alert!pushVars
<1>1. /\ alertPub' = [alertPub EXCEPT ![p].at = "push"]
      /\ lit' = [lit EXCEPT ![c] = lit[c] \/ warns]
      /\ lightLeft' = [lightLeft EXCEPT ![c] = IF warns THEN Hold ELSE lightLeft[c]]
      /\ lamps' = [lamps EXCEPT ![c].light = lamps[c].light \/ warns]
  BY DEF Alert!LightSink
<1> HIDE DEF c, warns
<1>2. alertPub' \in [Publisher -> [at : {"idle", "light", "push", "policy"}, chan : Alert!Reported,
                                   kind : Alert!Kind, age : 0 .. Delay]]
  BY <1>1, SMTT(60) DEF AlTyped
<1>a. (lit[c] \/ warns) \in BOOLEAN /\ (lamps[c].light \/ warns) \in BOOLEAN
  BY Zenon
<1>3. /\ lit' \in [Lamp -> BOOLEAN] /\ lightLeft' \in [Lamp -> 0 .. Hold]
      /\ lamps' \in [Lamp -> [light : BOOLEAN, siren : BOOLEAN]]
  <2>1. lit' \in [Lamp -> BOOLEAN]
    BY <1>0, <1>1, <1>a DEF AlTyped
  <2>2. lightLeft' \in [Lamp -> 0 .. Hold]
    BY <1>0, <1>1, AlConstants DEF AlTyped
  <2>3. lamps' \in [Lamp -> [light : BOOLEAN, siren : BOOLEAN]]
    BY <1>0, <1>1, <1>a, ZenonT(60) DEF AlTyped
  <2> QED
    BY <2>1, <2>2, <2>3
<1>4. AlTyped'
  BY <1>0, <1>2, <1>3 DEF AlTyped
<1>5. AlLamps'
  BY <1>0, <1>1 DEF AlTyped, AlLamps
<1>6. AlStopped' /\ AlSpaced'
  BY <1>0 DEF AlStopped, AlSpaced
<1> QED
  BY <1>4, <1>5, <1>6

\* A publisher that is not in the linkage goes on, or is done, and nothing else changes.
LEMMA AlGoesOn ==
  ASSUME AlInv, UNCHANGED <<lit, lightLeft, alarm, lamps, linkage, sent, plain>>,
         alertPub' \in [Publisher -> [at : {"idle", "light", "push", "policy"}, chan : Alert!Reported,
                                      kind : Alert!Kind, age : 0 .. Delay]],
         \A q \in Publisher : alertPub'[q].at = "light" => alertPub[q].at = "light"
  PROVE  AlInv'
BY DEF AlInv, AlTyped, AlLamps, AlStopped, AlSpaced

LEMMA AlClock ==
  ASSUME AlInv, NEW p \in Publisher, Alert!PushClock(p) \/ Alert!PushDropped(p)
  PROVE  AlInv'
<1>1. UNCHANGED <<lit, lightLeft, alarm, lamps, linkage, sent, plain>>
  BY DEF Alert!PushClock, Alert!PushDropped, Alert!lightVars, Alert!pushVars
<1>2. /\ alertPub' \in [Publisher -> [at : {"idle", "light", "push", "policy"}, chan : Alert!Reported,
                                      kind : Alert!Kind, age : 0 .. Delay]]
      /\ \A q \in Publisher : alertPub'[q].at = "light" => alertPub[q].at = "light"
  <2>1. CASE Alert!PushClock(p)
    <3>1. alertPub' = [alertPub EXCEPT ![p] = [alertPub[p] EXCEPT !.at = "policy", !.age = 0]]
      BY <2>1 DEF Alert!PushClock, AlInv, AlTyped
    <3>2. [alertPub[p] EXCEPT !.at = "policy", !.age = 0] \in
            [at : {"idle", "light", "push", "policy"}, chan : Alert!Reported, kind : Alert!Kind, age : 0 .. Delay]
      <4>1. alertPub[p] \in
              [at : {"idle", "light", "push", "policy"}, chan : Alert!Reported, kind : Alert!Kind, age : 0 .. Delay]
        BY DEF AlInv, AlTyped
      <4>2. 0 \in 0 .. Delay
        BY AlConstants
      <4> QED
        BY <4>1, <4>2
    <3> QED
      BY <3>1, <3>2 DEF AlInv, AlTyped
  <2>2. CASE Alert!PushDropped(p)
    BY <2>2, AlConstants DEF Alert!PushDropped, Alert!Quiet, Alert!Kind, AlInv, AlTyped
  <2> QED
    BY <2>1, <2>2
<1> QED
  BY <1>1, <1>2, AlGoesOn

LEMMA AlSends ==
  ASSUME AlInv, NEW p \in Publisher, Alert!PushSend(p)
  PROVE  AlInv'
<1> USE DEF AlInv
<1> DEFINE e == alertPub[p]
           i == Alert!Index(e.chan)
<1>0. UNCHANGED <<lit, lightLeft, alarm, lamps, linkage>> /\ Alert!Allows(e)
  BY DEF Alert!PushSend, Alert!lightVars
<1>1. e.age \in 0 .. Delay /\ e.age \in 0 .. Alert!Old /\ e.kind \in Alert!Kind /\ i \in Lamp
  BY AlConstants DEF AlTyped
<1>2. /\ sent' = [each |-> [sent.each EXCEPT ![i][e.kind] = e.age], last |-> e.age]
      /\ alertPub' = [alertPub EXCEPT ![p] = Alert!Quiet]
  BY DEF Alert!PushSend
<1>3. plain' = IF e.kind = "ring" THEN [plain EXCEPT !.rung = TRUE]
               ELSE [age |-> e.age, rung |-> FALSE,
                     spaced |-> plain.rung \/ plain.age = Alert!Old \/ Alert!Apart(e.age, plain.age) >= Gap]
  BY DEF Alert!PushSend
<1> HIDE DEF i, e
<1>4. AlSpaced' /\ plain' \in [age : 0 .. Alert!Old, rung : BOOLEAN, spaced : BOOLEAN]
  <2>1. CASE e.kind = "ring"
    BY <1>3, <2>1 DEF AlSpaced, AlTyped
  <2>2. CASE e.kind # "ring"
    <3>1. sent.last = Alert!Old \/ ~(Alert!Elapsed(e.age, sent.last) < Gap)
      BY <1>0, <2>2 DEF Alert!Allows, Alert!InWindow
    <3>2. sent.last \in 0 .. Alert!Old /\ plain.age \in 0 .. Alert!Old /\ plain.rung \in BOOLEAN
      BY DEF AlTyped
    <3>3. plain.rung \/ plain.age = Alert!Old \/ Alert!Apart(e.age, plain.age) >= Gap
      BY <1>1, <3>1, <3>2, AlConstants DEF AlSpaced, Alert!Elapsed, Alert!Apart
    <3>4. plain' = [age |-> e.age, rung |-> FALSE, spaced |-> TRUE]
      BY <1>3, <2>2, <3>3
    <3> QED
      BY <1>1, <1>2, <3>4 DEF AlSpaced
  <2> QED
    BY <2>1, <2>2
<1>5. sent' \in [each : [Lamp -> [Alert!Kind -> 0 .. Alert!Old]], last : 0 .. Alert!Old]
  BY <1>1, <1>2 DEF AlTyped
<1>6. /\ alertPub' \in [Publisher -> [at : {"idle", "light", "push", "policy"}, chan : Alert!Reported,
                                      kind : Alert!Kind, age : 0 .. Delay]]
      /\ \A q \in Publisher : alertPub'[q].at = "light" => alertPub[q].at = "light"
  BY <1>2, AlConstants DEF Alert!Quiet, Alert!Kind, AlTyped
<1>7. AlTyped'
  BY <1>0, <1>4, <1>5, <1>6 DEF AlTyped
<1>8. AlLamps' /\ AlStopped'
  BY <1>0, <1>6 DEF AlLamps, AlStopped
<1> QED
  BY <1>4, <1>7, <1>8

LEMMA AlLinkage ==
  ASSUME AlInv, Alert!LinkageStart \/ Alert!StopFlag \/ Alert!StopJoined \/ Alert!StopUnsubscribed
  PROVE  AlInv'
<1> USE DEF AlInv
<1>0. UNCHANGED <<lit, lightLeft, alarm, lamps, alertPub, sent, plain>>
  BY DEF Alert!LinkageStart, Alert!StopFlag, Alert!StopJoined, Alert!StopUnsubscribed, Alert!lightVars, Alert!pushVars
<1>1. AlTyped'
  BY <1>0 DEF AlTyped, Alert!LinkageStart, Alert!StopFlag, Alert!StopJoined, Alert!StopUnsubscribed
<1>2. AlLamps' /\ AlSpaced'
  BY <1>0 DEF AlLamps, AlSpaced
<1>3. AlStopped'
  BY <1>0 DEF AlStopped, Alert!LinkageStart, Alert!StopFlag, Alert!StopJoined, Alert!StopUnsubscribed, Alert!Barrier
<1> QED
  BY <1>1, <1>2, <1>3

LEMMA AlPanics ==
  ASSUME AlInv, NEW c \in Lamp, NEW b \in BOOLEAN, Alert!Panic(c, b)
  PROVE  AlInv'
<1> USE DEF AlInv
<1>0. UNCHANGED <<linkage, alertPub, sent, plain>> /\ linkage = "on"
  BY DEF Alert!Panic, Alert!pushVars
<1>1. AlTyped'
  BY <1>0, AlConstants DEF AlTyped, Alert!Panic
<1>2. AlLamps'
  BY DEF AlTyped, AlLamps, Alert!Panic
<1>3. AlStopped' /\ AlSpaced'
  BY <1>0 DEF AlStopped, AlSpaced
<1> QED
  BY <1>1, <1>2, <1>3

LEMMA AlSweeps ==
  ASSUME AlInv, Alert!Sweep \/ Alert!StopSafe
  PROVE  AlInv'
<1> USE DEF AlInv
<1>0. UNCHANGED <<alertPub, sent, plain>>
  BY DEF Alert!Sweep, Alert!StopSafe, Alert!pushVars
<1>1. CASE Alert!Sweep
  <2>1. UNCHANGED <<lightLeft, alarm, linkage>> /\ linkage \in {"on", "joining"}
    BY <1>1 DEF Alert!Sweep
  <2>2. /\ lit' = [c \in Lamp |-> lit[c] /\ ~Alert!Due(c)]
        /\ lamps' = [c \in Lamp |-> [lamps[c] EXCEPT !.light = lamps[c].light /\ ~Alert!Due(c)]]
    BY <1>1 DEF Alert!Sweep
  <2>3. lit' \in [Lamp -> BOOLEAN]
    BY <2>2, Zenon DEF AlTyped
  <2>4. lamps' \in [Lamp -> [light : BOOLEAN, siren : BOOLEAN]]
    BY <2>2, ZenonT(60) DEF AlTyped
  <2>5. AlTyped'
    BY <1>0, <2>1, <2>3, <2>4 DEF AlTyped
  <2>6. AlLamps'
    BY <2>1, <2>2 DEF AlTyped, AlLamps, Alert!Due
  <2> QED
    BY <1>0, <2>1, <2>5, <2>6 DEF AlStopped, AlSpaced
<1>2. CASE Alert!StopSafe
  <2>1. /\ lit' = [c \in Lamp |-> FALSE] /\ alarm' = [c \in Lamp |-> FALSE] /\ lightLeft' = [c \in Lamp |-> 0]
        /\ linkage = "detached" /\ linkage' = "safe"
    BY <1>2 DEF Alert!StopSafe
  <2>2. lamps' = [c \in Lamp |-> IF lit[c] \/ alarm[c] THEN [light |-> FALSE, siren |-> FALSE] ELSE lamps[c]]
    BY <1>2 DEF Alert!StopSafe
  <2>3. AlTyped'
    BY <1>0, <2>1, <2>2, AlConstants DEF AlTyped
  <2>4. AlLamps'
    BY <2>1, <2>2 DEF AlTyped, AlLamps
  <2>5. AlStopped' /\ AlSpaced'
    BY <1>0, <2>1 DEF AlStopped, AlSpaced
  <2> QED
    BY <2>3, <2>4, <2>5
<1> QED
  BY <1>1, <1>2

LEMMA AlPasses == ASSUME AlInv, Alert!Pass PROVE AlInv'
<1> USE DEF AlInv
<1>0. UNCHANGED <<lit, alarm, lamps, linkage>>
  BY DEF Alert!Pass
<1>1. \A a \in 0 .. Alert!Old : Alert!Older(a) \in 0 .. Alert!Old
  BY AlConstants DEF Alert!Older
<1>2. lightLeft' \in [Lamp -> 0 .. Hold]
  BY AlConstants DEF Alert!Pass, AlTyped
<1>3. /\ alertPub' \in [Publisher -> [at : {"idle", "light", "push", "policy"}, chan : Alert!Reported,
                                      kind : Alert!Kind, age : 0 .. Delay]]
      /\ \A q \in Publisher : alertPub'[q].at = "light" => alertPub[q].at = "light"
  <2>1. alertPub' = [q \in Publisher |-> IF alertPub[q].at = "policy" THEN [alertPub[q] EXCEPT !.age = alertPub[q].age + 1]
                                          ELSE alertPub[q]]
    BY DEF Alert!Pass
  <2>2. \A q \in Publisher : alertPub[q].at = "policy" => alertPub[q].age + 1 \in 0 .. Delay
    BY AlConstants DEF Alert!Pass, AlTyped
  <2> QED
    BY <2>1, <2>2 DEF AlTyped
<1>4. /\ sent'.last = Alert!Older(sent.last)
      /\ sent' \in [each : [Lamp -> [Alert!Kind -> 0 .. Alert!Old]], last : 0 .. Alert!Old]
  BY <1>1 DEF Alert!Pass, AlTyped
<1>5. /\ plain' = [plain EXCEPT !.age = Alert!Older(plain.age)]
      /\ plain' \in [age : 0 .. Alert!Old, rung : BOOLEAN, spaced : BOOLEAN]
  BY <1>1 DEF Alert!Pass, AlTyped
<1>6. AlTyped'
  BY <1>0, <1>2, <1>3, <1>4, <1>5 DEF AlTyped
<1>7. AlSpaced'
  BY <1>4, <1>5 DEF AlSpaced, AlTyped
<1>8. AlLamps' /\ AlStopped'
  BY <1>0, <1>3 DEF AlLamps, AlStopped
<1> QED
  BY <1>6, <1>7, <1>8

LEMMA AlStep == ASSUME AlInv, Alert!AlertsNext PROVE AlInv'
BY AlPublishes, AlLights, AlClock, AlSends, AlLinkage, AlPanics, AlSweeps, AlPasses, Zenon
   DEF Alert!AlertsNext, Alert!Serve, Alert!Stop

LEMMA AlIsSafe == ASSUME AlInv PROVE Alert!AlertsSafe
<1> USE DEF AlInv
<1>1. Alert!AlertsTypeOK
  BY DEF AlTyped, AlLamps, Alert!AlertsTypeOK
<1>2. Alert!SafeWhenStopped /\ Alert!PanicHolds /\ Alert!PushesSpaced
  BY DEF AlLamps, AlStopped, AlSpaced, Alert!SafeWhenStopped, Alert!PanicHolds, Alert!PushesSpaced
<1> QED
  BY <1>1, <1>2 DEF Alert!AlertsSafe

(***************************************************************************)
(* svc_light_linkage.c, svc_push.c: dark after a stop, a panic is not cut  *)
(* short, pushes keep their distance, for any lamps, publishers and times. *)
(***************************************************************************)
THEOREM AlertsAreSafe == BoxSpec => []AlertsSafe
<1>1. BoxInit => AlInv
  BY AlInitInv, Zenon DEF BoxInit
<1>2. AlInv /\ [BoxNext]_boxVars => AlInv'
  <2> SUFFICES ASSUME AlInv, [BoxNext]_boxVars PROVE AlInv'
    OBVIOUS
  <2>1. CASE UNCHANGED alertsVars
    BY <2>1 DEF alertsVars, AlInv, AlTyped, AlLamps, AlStopped, AlSpaced
  <2>2. CASE Alert!AlertsNext
    BY <2>2, AlStep, Zenon
  <2> QED
    BY <2>1, <2>2, Zenon DEF BoxNext, boxVars
<1>3. AlInv => AlertsSafe
  BY AlIsSafe, Zenon DEF AlertsSafe
<1> QED
  BY <1>1, <1>2, <1>3, PTL DEF BoxSpec

-----------------------------------------------------------------------------
(***************************************************************************)
(* NopServer.  A connection is at one place: it waits to be accepted or    *)
(* one thread serves it.  The requests of a connection that is open are    *)
(* numbered through, from the answers that are not taken yet over the one  *)
(* that is run to those that are not read yet; and as many are under way   *)
(* as have timed out, and the one that is waited for.                      *)
(***************************************************************************)
Served == [at : {"select", "read", "run", "over"}, who : Peer \cup {Server!Nobody}, no : Int,
           req : Seq(STRING), step : Nat, done : Seq(STRING), news : BOOLEAN]
Request == [no : Int, req : Requests]
Reply == [no : Int, news : BOOLEAN]
Connection == [at : {"closed", "open", "hung"}, on : Server!Transport, asked : Nat, waits : BOOLEAN,
               in : Seq(Request), out : Seq(Reply), late : Nat, shift : SUBSET Int]

SvTyped ==
  /\ thread \in [Server!Transport -> Served] /\ backlog \in [Server!Transport -> Seq(Peer)]
  /\ wire \in [Peer -> Connection] /\ bits \in BOOLEAN /\ owed \in BOOLEAN

SvSound(h) ==
  /\ h.at \in {"read", "run"} <=> h.who \in Peer
  /\ h.step <= Len(h.req)
  /\ h.at = "read" => h.step = 0 /\ h.done = <<>>
  /\ h.at = "run" => h.done = SubSeq(h.req, 1, h.step)

SvPlaces ==
  /\ \A t, u \in Server!Transport : thread[t].who \in Peer /\ thread[t].who = thread[u].who => t = u
  /\ \A t, u \in Server!Transport : \A i \in DOMAIN backlog[u] : backlog[u][i] # thread[t].who
  /\ \A t, u \in Server!Transport : \A i \in DOMAIN backlog[t], j \in DOMAIN backlog[u] :
       backlog[t][i] = backlog[u][j] => t = u /\ i = j

Waits(w) == IF w.waits THEN 1 ELSE 0
Runs(k) == IF \E t \in Server!Transport : thread[t].who = k /\ thread[t].at = "run" THEN 1 ELSE 0

SvAnswers(w) ==
  /\ w.at = "closed" => w = Server!Unconnected
  /\ w.asked <= Asks /\ w.late + Waits(w) <= w.asked /\ w.shift \subseteq {w.late}
  /\ \A i \in DOMAIN w.out : w.out[i].no = w.asked - w.late - Waits(w) + i

SvFlow(w, r) ==
  w.at = "open" =>
    /\ \A i \in DOMAIN w.in : w.in[i].no = w.asked - Len(w.in) + i
    /\ Len(w.out) + r + Len(w.in) = w.late + Waits(w)

SvUnderWay(k) ==
  /\ SvFlow(wire[k], Runs(k))
  /\ wire[k].at = "open" => \A t \in Server!Transport : thread[t].who = k /\ thread[t].at = "run" =>
       thread[t].no = wire[k].asked - Len(wire[k].in)

SvInv ==
  /\ SvTyped
  /\ \A t \in Server!Transport : SvSound(thread[t])
  /\ SvPlaces
  /\ \A k \in Peer : SvAnswers(wire[k]) /\ SvUnderWay(k)
  /\ Server!EventKept

LEMMA SvConstants ==
  /\ Asks \in Nat \ {0} /\ Requests \subseteq Seq(STRING) /\ Server!Nobody \notin Peer
  /\ Server!Unconnected \in Connection /\ SvAnswers(Server!Unconnected)
<1>1. Asks \in Nat \ {0} /\ Requests \subseteq Seq(STRING) /\ Server!Nobody \notin Peer
  BY BoxAssumption DEF Server!ServerAssumption
<1>2. <<>> \in Seq(Request) /\ <<>> \in Seq(Reply)
  OBVIOUS
<1> QED
  BY <1>1, <1>2 DEF Server!Unconnected, Connection, Server!Transport, SvAnswers, Waits

LEMMA SvAt ==
  ASSUME NEW p \in {"select", "over"}
  PROVE  Server!At(p) \in Served /\ Server!At(p).at = p /\ Server!At(p).who = Server!Nobody
         /\ Server!At(p).step = 0 /\ Server!At(p).req = <<>>
<1>1. <<>> \in Seq(STRING)
  OBVIOUS
<1> QED
  BY <1>1 DEF Server!At, Served

LEMMA SvCounts ==
  /\ \A k : Runs(k) \in {0, 1}
  /\ \A w : Waits(w) \in {0, 1} /\ (w.waits => Waits(w) = 1) /\ (~w.waits => Waits(w) = 0)
BY DEF Runs, Waits

LEMMA SvInitInv == ASSUME Server!ServerInit PROVE SvInv
<1>1. /\ thread = [t \in Server!Transport |-> Server!At("select")]
      /\ backlog = [t \in Server!Transport |-> <<>>]
      /\ wire = [k \in Peer |-> Server!Unconnected] /\ bits = FALSE /\ owed = FALSE
  BY DEF Server!ServerInit
<1>2. SvTyped
  <2>1. Server!At("select") \in Served
    BY SvAt
  <2>2. <<>> \in Seq(Peer) /\ Server!Unconnected \in Connection
    BY SvConstants
  <2> QED
    BY <1>1, <2>1, <2>2 DEF SvTyped
<1>3. \A t \in Server!Transport : SvSound(thread[t])
  BY <1>1, SvAt, SvConstants DEF SvSound
<1>4. SvPlaces
  BY <1>1, SvAt, SvConstants DEF SvPlaces
<1>5. \A k \in Peer : SvAnswers(wire[k]) /\ SvUnderWay(k)
  BY <1>1, SvConstants DEF SvUnderWay, SvFlow, Server!Unconnected
<1>6. Server!EventKept
  BY <1>1 DEF Server!EventKept
<1> QED
  BY <1>2, <1>3, <1>4, <1>5, <1>6 DEF SvInv

\* A client changes its own connection.
LEMMA SvWire ==
  ASSUME SvInv, NEW k \in Peer, NEW w \in Connection, wire' = [wire EXCEPT ![k] = w],
         UNCHANGED <<thread, backlog, bits>>, owed' \in BOOLEAN,
         SvAnswers(w), SvUnderWay(k)', Server!EventKept'
  PROVE  SvInv'
<1> USE DEF SvInv
<1>1. SvTyped'
  BY DEF SvTyped
<1>2. (\A t \in Server!Transport : SvSound(thread[t])') /\ SvPlaces'
  BY DEF SvSound, SvPlaces
<1>3. \A j \in Peer : SvAnswers(wire'[j])
  BY DEF SvTyped
<1>4. \A j \in Peer : SvUnderWay(j)'
  <2> SUFFICES ASSUME NEW j \in Peer, j # k PROVE SvUnderWay(j)'
    OBVIOUS
  <2>1. wire'[j] = wire[j] /\ Runs(j)' = Runs(j)
    BY DEF SvTyped, Runs
  <2> QED
    BY <2>1 DEF SvUnderWay
<1> QED
  BY <1>1, <1>2, <1>3, <1>4

\* A request is put behind the others; the first answer is taken.
LEMMA SvAskMore ==
  ASSUME NEW w \in Connection, NEW v, NEW m \in Request, NEW r \in Nat, SvAnswers(w), SvFlow(w, r),
         w.at = "open", ~w.waits, w.asked < Asks, m.no = w.asked + 1,
         v = [w EXCEPT !.asked = w.asked + 1, !.waits = TRUE, !.shift = {}, !.in = Append(w.in, m)]
  PROVE  v \in Connection /\ SvAnswers(v) /\ SvFlow(v, r)
<1>1. /\ w.in \in Seq(Request) /\ w.out \in Seq(Reply) /\ w.asked \in Nat /\ w.late \in Nat
      /\ Len(w.in) \in Nat /\ Len(w.out) \in Nat
  BY DEF Connection
<1>2. /\ Append(w.in, m) \in Seq(Request) /\ Len(Append(w.in, m)) = Len(w.in) + 1
      /\ DOMAIN Append(w.in, m) = 1 .. Len(w.in) + 1
      /\ \A i \in 1 .. Len(w.in) : Append(w.in, m)[i] = w.in[i]
      /\ Append(w.in, m)[Len(w.in) + 1] = m
  BY <1>1
<1>0. v.waits = TRUE
  BY DEF Connection
<1>3. /\ v.at = w.at /\ v.asked = w.asked + 1 /\ v.in = Append(w.in, m) /\ v.out = w.out
      /\ v.late = w.late /\ v.shift = {}
  BY DEF Connection
<1>4. v \in Connection
  <2>1. w.asked + 1 \in Nat /\ {} \in SUBSET Int
    BY <1>1
  <2> QED
    BY <1>2, <2>1 DEF Connection
<1>5. Waits(w) = 0 /\ Waits(v) = 1
  BY <1>0, SvCounts, Zenon
<1>6. SvAnswers(v)
  <2>1. w.late <= w.asked /\ \A i \in DOMAIN w.out : w.out[i].no = w.asked - w.late - 0 + i
    BY <1>1, <1>5 DEF SvAnswers
  <2>2. w.asked + 1 <= Asks
    BY <1>1, SvConstants
  <2>3. \A i \in DOMAIN v.out : v.out[i].no = v.asked - v.late - Waits(v) + i
    BY <1>1, <1>3, <1>5, <2>1
  <2>4. v.late + Waits(v) <= v.asked /\ v.asked <= Asks
    BY <1>1, <1>3, <1>5, <2>1, <2>2
  <2> QED
    BY <1>3, <2>3, <2>4 DEF SvAnswers
<1>7. \A i \in DOMAIN v.in : v.in[i].no = v.asked - Len(v.in) + i
  <2>1. \A i \in 1 .. Len(w.in) : w.in[i].no = w.asked - Len(w.in) + i
    BY <1>1 DEF SvFlow
  <2> SUFFICES ASSUME NEW i \in 1 .. Len(w.in) + 1
               PROVE  v.in[i].no = v.asked - Len(v.in) + i
    BY <1>2, <1>3
  <2>2. CASE i \in 1 .. Len(w.in)
    BY <1>1, <1>2, <1>3, <2>1, <2>2
  <2>3. CASE i = Len(w.in) + 1
    BY <1>1, <1>2, <1>3, <2>3
  <2> QED
    BY <1>1, <2>2, <2>3
<1>8. Len(w.out) + r + Len(w.in) = w.late
  BY <1>1, <1>5 DEF SvFlow
<1>9. Len(v.out) + r + Len(v.in) = v.late + Waits(v)
  <2>1. Len(v.in) = Len(w.in) + 1 /\ Len(v.out) = Len(w.out)
    BY <1>2, <1>3
  <2>2. v.late = w.late
    BY <1>3
  <2>3. w.late \in Nat /\ Len(w.in) \in Nat /\ Len(w.out) \in Nat
    BY <1>1
  <2>4. Len(w.out) + r + (Len(w.in) + 1) = w.late + 1
    BY <1>8, <2>3
  <2> QED
    BY <1>5, <2>1, <2>2, <2>4
<1> QED
  BY <1>4, <1>6, <1>7, <1>9 DEF SvFlow

LEMMA SvTakeOne ==
  ASSUME NEW w \in Connection, NEW v, NEW r \in Nat, SvAnswers(w), SvFlow(w, r), w.waits, w.out # <<>>,
         v = [w EXCEPT !.waits = FALSE, !.out = Tail(w.out), !.shift = {w.asked - Head(w.out).no}]
  PROVE  v \in Connection /\ SvAnswers(v) /\ SvFlow(v, r)
<1>1. /\ w.in \in Seq(Request) /\ w.out \in Seq(Reply) /\ w.asked \in Nat /\ w.late \in Nat
      /\ Len(w.in) \in Nat /\ Len(w.out) \in Nat \ {0}
  BY DEF Connection
<1>2. /\ Tail(w.out) \in Seq(Reply) /\ Len(Tail(w.out)) = Len(w.out) - 1
      /\ DOMAIN Tail(w.out) = 1 .. Len(w.out) - 1
      /\ \A i \in 1 .. Len(w.out) - 1 : Tail(w.out)[i] = w.out[i + 1]
      /\ Head(w.out) = w.out[1] /\ w.out[1] \in Reply
  BY <1>1
<1>0. v.waits = FALSE
  BY DEF Connection
<1>3. /\ v.at = w.at /\ v.asked = w.asked /\ v.in = w.in /\ v.out = Tail(w.out)
      /\ v.late = w.late /\ v.shift = {w.asked - Head(w.out).no}
  BY DEF Connection
<1>4. v \in Connection
  <2>1. {w.asked - Head(w.out).no} \in SUBSET Int
    BY <1>1, <1>2 DEF Reply
  <2> QED
    BY <1>2, <2>1 DEF Connection
<1>5. Waits(w) = 1 /\ Waits(v) = 0
  BY <1>0, SvCounts, Zenon
<1>6. \A i \in 1 .. Len(w.out) : w.out[i].no = w.asked - w.late - 1 + i
  BY <1>1, <1>5 DEF SvAnswers
<1>7. w.asked - Head(w.out).no = w.late
  BY <1>1, <1>2, <1>6
<1>8. \A i \in DOMAIN v.out : v.out[i].no = v.asked - v.late - Waits(v) + i
  <2> SUFFICES ASSUME NEW i \in 1 .. Len(w.out) - 1 PROVE v.out[i].no = v.asked - v.late - Waits(v) + i
    BY <1>2, <1>3
  <2>1. i + 1 \in 1 .. Len(w.out)
    BY <1>1
  <2>2. w.out[i + 1].no = w.asked - w.late - 1 + (i + 1)
    BY <1>6, <2>1
  <2> QED
    BY <1>1, <1>2, <1>3, <1>5, <2>2, SMTT(60)
<1>9. SvAnswers(v)
  <2>1. w.at # "closed"
    BY DEF SvAnswers, Server!Unconnected
  <2>2. w.asked <= Asks /\ w.late + 1 <= w.asked
    BY <1>5 DEF SvAnswers
  <2> QED
    BY <1>1, <1>3, <1>5, <1>7, <1>8, <2>1, <2>2 DEF SvAnswers
<1>10. SvFlow(v, r)
  <2>1. Len(v.in) = Len(w.in) /\ Len(v.out) = Len(w.out) - 1
    BY <1>2, <1>3
  <2>2. w.at = "open" => /\ \A i \in DOMAIN w.in : w.in[i].no = w.asked - Len(w.in) + i
                         /\ Len(w.out) + r + Len(w.in) = w.late + 1
    BY <1>5 DEF SvFlow
  <2>3. w.at = "open" => Len(v.out) + r + Len(v.in) = v.late + Waits(v)
    <3>1. v.late = w.late
      BY <1>3
    <3>2. w.late \in Nat /\ Len(w.in) \in Nat /\ Len(w.out) \in Nat
      BY <1>1
    <3>3. w.at = "open" => (Len(w.out) - 1) + r + Len(w.in) = w.late + 0
      BY <2>2, <3>2, SMTT(60)
    <3> QED
      BY <1>5, <2>1, <3>1, <3>3
  <2>4. w.at = "open" => \A i \in DOMAIN v.in : v.in[i].no = v.asked - Len(v.in) + i
    BY <1>3, <2>2
  <2> QED
    BY <1>3, <2>3, <2>4 DEF SvFlow
<1> QED
  BY <1>4, <1>9, <1>10

\* The connection is told apart from its requests by what the threads do for it, which a client does not change.
LEMMA SvRunKept ==
  ASSUME SvInv, NEW k \in Peer, UNCHANGED thread, SvFlow(wire'[k], Runs(k)),
         wire'[k].at = "open" => wire[k].at = "open" /\ wire'[k].asked - Len(wire'[k].in) = wire[k].asked - Len(wire[k].in)
  PROVE  SvUnderWay(k)'
BY DEF SvInv, SvUnderWay, Runs

LEMMA SvAsks ==
  ASSUME SvInv, NEW k \in Peer, NEW r \in Requests, Server!Ask(k, r)
  PROVE  SvInv'
<1> DEFINE w == wire[k]
           m == [no |-> w.asked + 1, req |-> r]
           v == [w EXCEPT !.asked = w.asked + 1, !.waits = TRUE, !.shift = {}, !.in = Append(w.in, m)]
<1>1. /\ wire' = [wire EXCEPT ![k] = v] /\ UNCHANGED <<thread, backlog, bits, owed>>
      /\ w.at = "open" /\ ~w.waits /\ w.asked < (IF w.on = "http" THEN 1 ELSE Asks)
  BY DEF Server!Ask, Server!Wire
<1>2. w \in Connection /\ SvAnswers(w) /\ SvFlow(w, Runs(k)) /\ Runs(k) \in Nat
  BY SvCounts DEF SvInv, SvTyped, SvUnderWay
<1>3. m \in Request /\ m.no = w.asked + 1 /\ w.asked < Asks /\ w.asked \in Nat /\ w.in \in Seq(Request)
  BY <1>1, <1>2, SvConstants DEF Connection, Request
<1> HIDE DEF m
<1>4. v \in Connection /\ SvAnswers(v) /\ SvFlow(v, Runs(k))
  BY <1>1, <1>2, <1>3, SvAskMore, Zenon
<1>5. wire'[k] = v
  BY <1>1 DEF SvInv, SvTyped
<1>6. v.out = w.out /\ v.asked = w.asked + 1 /\ v.in = Append(w.in, m)
  BY <1>2 DEF Connection
<1> HIDE DEF v
<1>7. SvUnderWay(k)'
  <2>1. v.asked - Len(v.in) = w.asked - Len(w.in)
    BY <1>3, <1>6, SMTT(60)
  <2> HIDE DEF w
  <2> QED
    BY <1>1, <1>4, <1>5, <2>1, SvRunKept DEF w
<1>8. Server!EventKept'
  <2>1. \A j \in Peer : wire'[j].out = wire[j].out
    BY <1>1, <1>5, <1>6 DEF SvInv, SvTyped
  <2> QED
    BY <1>1, <2>1 DEF SvInv, Server!EventKept, Server!InWire
<1>9. owed' \in BOOLEAN
  BY <1>1 DEF SvInv, SvTyped
<1> QED
  BY <1>1, <1>4, <1>7, <1>8, <1>9, SvWire, Zenon

LEMMA SvTakes ==
  ASSUME SvInv, NEW k \in Peer, Server!Take(k)
  PROVE  SvInv'
<1> DEFINE w == wire[k]
           v == [w EXCEPT !.waits = FALSE, !.out = Tail(w.out), !.shift = {w.asked - Head(w.out).no}]
<1>1. /\ wire' = [wire EXCEPT ![k] = v] /\ UNCHANGED <<thread, backlog, bits>>
      /\ owed' = (owed /\ ~Head(w.out).news) /\ w.waits /\ w.out # <<>>
  BY DEF Server!Take, Server!Wire
<1>2. w \in Connection /\ SvAnswers(w) /\ SvFlow(w, Runs(k)) /\ Runs(k) \in Nat
  BY SvCounts DEF SvInv, SvTyped, SvUnderWay
<1>3. v \in Connection /\ SvAnswers(v) /\ SvFlow(v, Runs(k))
  BY <1>1, <1>2, SvTakeOne, Zenon
<1>4. wire'[k] = v
  BY <1>1 DEF SvInv, SvTyped
<1>5. v.out = Tail(w.out) /\ v.asked = w.asked /\ v.in = w.in /\ v.at = w.at
  BY <1>2 DEF Connection
<1> HIDE DEF v
<1>6. SvUnderWay(k)'
  BY <1>1, <1>3, <1>4, <1>5, SvRunKept
<1>7. Server!EventKept'
  <2>1. CASE Head(w.out).news
    BY <1>1, <2>1 DEF Server!EventKept
  <2>2. CASE ~Head(w.out).news
    <3>1. \A j \in Peer : Server!InWire(j) => Server!InWire(j)'
      <4> SUFFICES ASSUME NEW j \in Peer, Server!InWire(j) PROVE Server!InWire(j)'
        OBVIOUS
      <4>1. CASE j # k
        BY <1>1, <4>1 DEF Server!InWire, SvInv, SvTyped
      <4>2. CASE j = k
        <5>1. PICK i \in DOMAIN w.out : w.out[i].news
          BY <4>2 DEF Server!InWire
        <5>2. w.out \in Seq(Reply) /\ Len(w.out) \in Nat
          BY <1>2 DEF Connection
        <5>3. i \in 1 .. Len(w.out) /\ i # 1
          BY <1>1, <2>2, <5>1, <5>2
        <5>4. i - 1 \in DOMAIN Tail(w.out) /\ Tail(w.out)[i - 1] = w.out[i]
          BY <5>2, <5>3
        <5> QED
          BY <1>4, <1>5, <4>2, <5>1, <5>4 DEF Server!InWire
      <4> QED
        BY <4>1, <4>2
    <3> QED
      BY <1>1, <2>2, <3>1 DEF SvInv, Server!EventKept
  <2> QED
    BY <2>1, <2>2
<1>8. owed' \in BOOLEAN
  BY <1>1, Zenon
<1> QED
  BY <1>1, <1>3, <1>6, <1>7, <1>8, SvWire, Zenon

LEMMA SvTimesOut ==
  ASSUME SvInv, NEW k \in Peer, Server!TimesOut(k) \/ Server!HungUp(k)
  PROVE  SvInv'
<1> DEFINE w == wire[k]
<1>0. UNCHANGED <<thread, backlog, bits, owed>> /\ w.waits /\ w.out = <<>>
  BY DEF Server!TimesOut, Server!HungUp, Server!Wire
<1>1. w \in Connection /\ SvAnswers(w) /\ SvFlow(w, Runs(k)) /\ Runs(k) \in Nat
  BY SvCounts DEF SvInv, SvTyped, SvUnderWay
<1>2. w.late \in Nat /\ w.asked \in Nat /\ Waits(w) = 1 /\ w.late + 1 <= w.asked /\ w.at # "closed"
  <2>1. Waits(w) = 1
    BY <1>0, SvCounts, Zenon
  <2> QED
    BY <1>0, <1>1, <2>1 DEF Connection, SvAnswers, Server!Unconnected
<1> SUFFICES ASSUME NEW v \in Connection, wire' = [wire EXCEPT ![k] = v], SvAnswers(v), SvFlow(v, Runs(k)),
                    v.at = w.at, v.asked = w.asked, v.in = w.in, v.out = w.out
             PROVE  SvInv'
  <2>1. CASE Server!TimesOut(k)
    <3> DEFINE v == [w EXCEPT !.waits = FALSE, !.late = w.late + 1, !.shift = {}]
    <3>1. wire' = [wire EXCEPT ![k] = v]
      BY <2>1 DEF Server!TimesOut, Server!Wire
    <3>2. /\ v.at = w.at /\ v.asked = w.asked /\ v.in = w.in /\ v.out = w.out
          /\ v.late = w.late + 1 /\ v.shift = {}
      BY <1>1 DEF Connection
    <3>3. ~v.waits
      BY <1>1 DEF Connection
    <3>4. Waits(v) = 0
      BY <3>3, SvCounts, Zenon
    <3>5. v \in Connection
      <4>1. w.late + 1 \in Nat /\ {} \in SUBSET Int
        BY <1>2
      <4> QED
        BY <1>1, <4>1 DEF Connection
    <3> HIDE DEF v, w
    <3>6. SvAnswers(v)
      BY <1>0, <1>1, <1>2, <3>2, <3>4 DEF SvAnswers
    <3>7. SvFlow(v, Runs(k))
      <4>1. w.at = "open" => /\ \A i \in DOMAIN w.in : w.in[i].no = w.asked - Len(w.in) + i
                             /\ Len(w.out) + Runs(k) + Len(w.in) = w.late + 1
        BY <1>1, <1>2 DEF SvFlow
      <4>2. w.at = "open" => Len(v.out) + Runs(k) + Len(v.in) = v.late + Waits(v)
        BY <1>2, <3>2, <3>4, <4>1
      <4> QED
        BY <3>2, <4>1, <4>2 DEF SvFlow
    <3> QED
      BY <3>1, <3>2, <3>5, <3>6, <3>7
  <2>2. CASE Server!HungUp(k)
    <3> DEFINE v == [w EXCEPT !.waits = FALSE]
    <3>1. wire' = [wire EXCEPT ![k] = v] /\ w.at = "hung"
      BY <2>2 DEF Server!HungUp, Server!Wire
    <3>2. /\ v.at = w.at /\ v.asked = w.asked /\ v.in = w.in /\ v.out = w.out
          /\ v.late = w.late /\ v.shift = w.shift
      BY <1>1 DEF Connection
    <3>3. ~v.waits
      BY <1>1 DEF Connection
    <3>4. Waits(v) = 0
      BY <3>3, SvCounts, Zenon
    <3>5. v \in Connection
      BY <1>1 DEF Connection
    <3> HIDE DEF v, w
    <3>6. SvAnswers(v)
      BY <1>0, <1>1, <1>2, <3>2, <3>4 DEF SvAnswers
    <3>7. SvFlow(v, Runs(k))
      BY <3>1, <3>2 DEF SvFlow
    <3> QED
      BY <3>1, <3>2, <3>5, <3>6, <3>7
  <2> QED
    BY <2>1, <2>2
<1>3. wire'[k] = v
  BY DEF SvInv, SvTyped
<1>4. SvUnderWay(k)'
  BY <1>0, <1>3, SvRunKept
<1>5. Server!EventKept'
  <2>1. \A j \in Peer : wire'[j].out = wire[j].out
    BY <1>3 DEF SvInv, SvTyped
  <2> QED
    BY <1>0, <2>1 DEF SvInv, Server!EventKept, Server!InWire
<1>6. owed' \in BOOLEAN
  BY <1>0 DEF SvInv, SvTyped
<1> QED
  BY <1>0, <1>4, <1>5, <1>6, SvWire, Zenon

LEMMA SvCloses ==
  ASSUME SvInv, NEW k \in Peer, Server!Close(k)
  PROVE  SvInv'
<1> DEFINE v == Server!Unconnected
<1>1. /\ wire' = [wire EXCEPT ![k] = v] /\ owed' = (owed /\ ~Server!InWire(k))
      /\ UNCHANGED <<thread, backlog, bits>>
  BY DEF Server!Close
<1>2. v \in Connection /\ SvAnswers(v) /\ v.at = "closed" /\ wire'[k] = v
  BY <1>1, SvConstants DEF SvInv, SvTyped, Server!Unconnected
<1>3. SvUnderWay(k)'
  BY <1>2 DEF SvUnderWay, SvFlow
<1>4. Server!EventKept'
  <2>1. \A j \in Peer : j # k => (Server!InWire(j) => Server!InWire(j)')
    BY <1>1 DEF SvInv, SvTyped, Server!InWire
  <2> QED
    BY <1>1, <2>1 DEF SvInv, Server!EventKept
<1>5. owed' \in BOOLEAN
  BY <1>1, Zenon
<1> HIDE DEF v
<1> QED
  BY <1>1, <1>2, <1>3, <1>4, <1>5, SvWire, Zenon

\* A connection that waits is new there, and nothing is under way on it.
LEMMA SvConnects ==
  ASSUME SvInv, NEW k \in Peer, NEW t \in Server!Transport, Server!Connect(k, t)
  PROVE  SvInv'
<1> DEFINE v == [Server!Unconnected EXCEPT !.at = "open", !.on = t]
<1>1. /\ wire' = [wire EXCEPT ![k] = v] /\ backlog' = [backlog EXCEPT ![t] = Append(backlog[t], k)]
      /\ UNCHANGED <<thread, bits, owed>> /\ wire[k].at = "closed"
      /\ \A u \in Server!Transport : thread[u].who # k /\ \A i \in DOMAIN backlog[u] : backlog[u][i] # k
  BY DEF Server!Connect, Server!Waiting
<1>2. /\ v.at = "open" /\ v.asked = 0 /\ ~v.waits /\ v.in = <<>> /\ v.out = <<>> /\ v.late = 0 /\ v.shift = {}
      /\ v \in Connection
  <2> DEFINE u == Server!Unconnected
  <2>1. u \in Connection
    BY SvConstants
  <2>2. u.asked = 0 /\ u.in = <<>> /\ u.out = <<>> /\ u.late = 0 /\ u.shift = {}
    BY DEF Server!Unconnected
  <2>3. ~u.waits
    BY DEF Server!Unconnected
  <2> HIDE DEF u
  <2>4. v = [u EXCEPT !.at = "open", !.on = t]
    BY DEF u
  <2>5. v \in Connection
    BY <2>1, <2>4 DEF Connection
  <2>6. v.waits = u.waits
    BY <2>1, <2>4 DEF Connection
  <2>7. v.at = "open" /\ v.asked = 0 /\ v.in = <<>> /\ v.out = <<>> /\ v.late = 0 /\ v.shift = {}
    BY <2>1, <2>2, <2>4 DEF Connection
  <2> QED
    BY <2>3, <2>5, <2>6, <2>7
<1> HIDE DEF v
<1>3. wire'[k] = v /\ \A j \in Peer : j # k => wire'[j] = wire[j]
  BY <1>1 DEF SvInv, SvTyped
<1>4. /\ backlog' \in [Server!Transport -> Seq(Peer)]
      /\ \A u \in Server!Transport : u # t => backlog'[u] = backlog[u]
      /\ DOMAIN backlog'[t] = 1 .. Len(backlog[t]) + 1 /\ Len(backlog[t]) \in Nat
      /\ DOMAIN backlog[t] = 1 .. Len(backlog[t])
      /\ \A i \in 1 .. Len(backlog[t]) : backlog'[t][i] = backlog[t][i]
      /\ backlog'[t][Len(backlog[t]) + 1] = k
  BY <1>1 DEF SvInv, SvTyped
<1>5. SvTyped'
  BY <1>1, <1>2, <1>4 DEF SvInv, SvTyped
<1>6. \A u \in Server!Transport : \A i \in DOMAIN backlog'[u] :
        \/ i \in DOMAIN backlog[u] /\ backlog'[u][i] = backlog[u][i]
        \/ u = t /\ i = Len(backlog[t]) + 1 /\ backlog'[u][i] = k
  BY <1>4
<1>7. SvPlaces'
  <2>1. \A s, u \in Server!Transport : thread'[s].who \in Peer /\ thread'[s].who = thread'[u].who => s = u
    BY <1>1 DEF SvInv, SvPlaces
  <2>2. \A s, u \in Server!Transport : \A i \in DOMAIN backlog'[u] : backlog'[u][i] # thread'[s].who
    BY <1>1, <1>6 DEF SvInv, SvPlaces
  <2>3. ASSUME NEW s \in Server!Transport, NEW u \in Server!Transport,
               NEW i \in DOMAIN backlog'[s], NEW j \in DOMAIN backlog'[u], backlog'[s][i] = backlog'[u][j]
        PROVE  s = u /\ i = j
    BY <1>1, <1>6, <2>3 DEF SvInv, SvPlaces
  <2> QED
    BY <2>1, <2>2, <2>3 DEF SvPlaces
<1>8. \A u \in Server!Transport : SvSound(thread'[u])
  BY <1>1 DEF SvInv
<1>9. \A j \in Peer : SvAnswers(wire'[j]) /\ SvUnderWay(j)'
  <2>1. \A j \in Peer : Runs(j)' = Runs(j)
    BY <1>1 DEF Runs
  <2>2. ASSUME NEW j \in Peer, j # k PROVE SvAnswers(wire'[j]) /\ SvUnderWay(j)'
    BY <1>1, <1>3, <2>1, <2>2 DEF SvInv, SvUnderWay
  <2>3. Waits(v) = 0 /\ Runs(k) = 0
    BY <1>1, <1>2, SvCounts DEF Runs
  <2>4. SvAnswers(v)
    BY <1>2, <2>3, SvConstants DEF SvAnswers
  <2>5. SvFlow(v, 0)
    BY <1>2, <2>3 DEF SvFlow
  <2>6. SvUnderWay(k)'
    BY <1>1, <1>3, <2>1, <2>3, <2>5 DEF SvUnderWay
  <2> QED
    BY <1>3, <2>2, <2>4, <2>6
<1>10. Server!EventKept'
  <2>1. wire[k] = Server!Unconnected
    BY <1>1 DEF SvInv, SvAnswers
  <2>2. \A j \in Peer : wire'[j].out = wire[j].out
    BY <1>2, <1>3, <2>1 DEF Server!Unconnected
  <2> QED
    BY <1>1, <2>2 DEF SvInv, Server!EventKept, Server!InWire
<1> QED
  BY <1>5, <1>7, <1>8, <1>9, <1>10 DEF SvInv

\* A thread changes its own place, and what it does for its connection is over or goes on with the same request.
LEMMA SvMoves ==
  ASSUME SvInv, NEW t \in Server!Transport, NEW h \in Served, thread' = [thread EXCEPT ![t] = h],
         UNCHANGED <<backlog, wire>>, bits' \in BOOLEAN, owed' \in BOOLEAN, SvSound(h),
         \/ h.who = Server!Nobody /\ (thread[t].at = "run" => wire[thread[t].who].at # "open")
         \/ h.who = thread[t].who /\ h.at = "run" /\ thread[t].at = "run" /\ h.no = thread[t].no,
         Server!EventKept'
  PROVE  SvInv'
<1>1. SvTyped'
  BY DEF SvInv, SvTyped
<1>2. thread'[t] = h /\ \A u \in Server!Transport : u # t => thread'[u] = thread[u]
  BY DEF SvInv, SvTyped
<1>3. \A u \in Server!Transport : SvSound(thread'[u])
  BY <1>2 DEF SvInv
<1>4. SvPlaces'
  <2>1. \A i : \A u \in Server!Transport : i \in DOMAIN backlog[u] => backlog[u][i] # Server!Nobody
    BY SvConstants DEF SvInv, SvTyped
  <2> QED
    BY <1>2, <2>1, SvConstants DEF SvInv, SvPlaces
<1>5. ASSUME NEW k \in Peer PROVE SvUnderWay(k)'
  <2>1. SvUnderWay(k)
    BY DEF SvInv
  <2>2. CASE \A u \in Server!Transport : thread'[u].who = k /\ thread'[u].at = "run" <=> thread[u].who = k /\ thread[u].at = "run"
    <3>1. Runs(k)' = Runs(k)
      BY <2>2 DEF Runs
    <3>2. \A u \in Server!Transport : thread'[u].who = k /\ thread'[u].at = "run" => thread'[u].no = thread[u].no
      BY <1>2, SvConstants
    <3> QED
      BY <2>1, <2>2, <3>1, <3>2 DEF SvUnderWay
  <2>3. CASE wire[k].at # "open"
    BY <2>3 DEF SvUnderWay, SvFlow
  <2> QED
    BY <1>2, <2>2, <2>3, SvConstants
<1> QED
  BY <1>1, <1>3, <1>4, <1>5 DEF SvInv

LEMMA SvEnds ==
  ASSUME SvInv, NEW t \in Server!Transport, Server!ReadEnds(t) \/ Server!ReplyFails(t)
  PROVE  SvInv'
<1> DEFINE h == Server!At("select")
<1>1. thread' = [thread EXCEPT ![t] = h] /\ UNCHANGED <<backlog, wire, bits>>
  BY DEF Server!ReadEnds, Server!ReplyFails, Server!Thread
<1>2. h \in Served /\ h.at = "select" /\ h.who = Server!Nobody /\ h.step = 0 /\ h.req = <<>>
  BY SvAt
<1> HIDE DEF h
<1>3. SvSound(h)
  BY <1>2, SvConstants DEF SvSound
<1>4. thread[t].at = "run" => wire[thread[t].who].at # "open"
  <2>1. thread[t].at = "run" => thread[t].who \in Peer
    BY DEF SvInv, SvSound
  <2> QED
    BY <2>1 DEF Server!ReadEnds, Server!ReplyFails, Server!Mine, Server!Ready
<1>5. thread'[t] = h /\ \A u \in Server!Transport : u # t => thread'[u] = thread[u]
  BY <1>1 DEF SvInv, SvTyped
<1>6. Server!EventKept' /\ owed' \in BOOLEAN
  <2>0. \A k \in Peer : Server!InWire(k)' <=> Server!InWire(k)
    BY <1>1 DEF Server!InWire
  <2>1. CASE Server!ReadEnds(t)
    <3>1. owed' = owed /\ thread[t].at = "read"
      BY <2>1 DEF Server!ReadEnds
    <3> QED
      BY <1>1, <1>5, <2>0, <3>1 DEF SvInv, SvTyped, Server!EventKept
  <2>2. CASE Server!ReplyFails(t)
    <3>1. owed' = (owed /\ ~thread[t].news)
      BY <2>2 DEF Server!ReplyFails
    <3>2. owed' \in BOOLEAN
      BY <3>1, Zenon
    <3>3. owed' => owed /\ ~thread[t].news
      BY <3>1, Zenon
    <3> QED
      BY <1>1, <1>5, <2>0, <3>2, <3>3 DEF SvInv, Server!EventKept
  <2> QED
    BY <2>1, <2>2
<1>7. bits' \in BOOLEAN
  BY <1>1 DEF SvInv, SvTyped
<1> QED
  BY <1>1, <1>2, <1>3, <1>4, <1>6, <1>7, SvMoves

LEMMA SvDispatches ==
  ASSUME SvInv, NEW t \in Server!Transport, Server!Dispatch(t)
  PROVE  SvInv'
<1> DEFINE g == thread[t]
           c == g.req[g.step + 1]
<1>1. PICK drains \in BOOLEAN :
        /\ thread' = [thread EXCEPT ![t] = [g EXCEPT !.step = g.step + 1, !.done = Append(g.done, c),
                                                     !.news = g.news \/ (drains /\ bits)]]
        /\ bits' = (bits /\ ~drains) /\ g.at = "run" /\ g.step + 1 <= Len(g.req)
        /\ UNCHANGED <<backlog, wire, owed>>
  BY DEF Server!Dispatch, Server!Thread, Server!Listed, Server!Pending
<1> DEFINE h == [g EXCEPT !.step = g.step + 1, !.done = Append(g.done, c), !.news = g.news \/ (drains /\ bits)]
<1>2. g \in Served /\ SvSound(g)
  BY DEF SvInv, SvTyped
<1>3. g.req \in Seq(STRING) /\ g.done \in Seq(STRING) /\ g.step \in Nat /\ Len(g.req) \in Nat
  BY <1>2 DEF Served
<1>4. c \in STRING
  BY <1>1, <1>3
<1>5. Append(g.done, c) = SubSeq(g.req, 1, g.step + 1)
  <2>1. g.done = SubSeq(g.req, 1, g.step)
    BY <1>1, <1>2 DEF SvSound
  <2> HIDE DEF g
  <2> QED
    BY <1>1, <1>3, <2>1
<1>6. h \in Served /\ h.at = "run" /\ h.who = g.who /\ h.no = g.no /\ h.step = g.step + 1 /\ h.req = g.req
      /\ h.done = SubSeq(g.req, 1, g.step + 1)
  <2>1. (g.news \/ (drains /\ bits)) \in BOOLEAN /\ g.step + 1 \in Nat /\ Append(g.done, c) \in Seq(STRING)
    BY <1>3, <1>4
  <2> QED
    BY <1>1, <1>2, <1>5, <2>1 DEF Served
<1>7. h.news <=> g.news \/ (drains /\ bits)
  BY <1>2 DEF Served
<1> HIDE DEF h, c
<1>8. thread' = [thread EXCEPT ![t] = h]
  BY <1>1 DEF h, c
<1>9. SvSound(h)
  BY <1>1, <1>2, <1>6 DEF SvSound
<1>10. bits' \in BOOLEAN /\ owed' \in BOOLEAN
  BY <1>1, Zenon DEF SvInv, SvTyped
<1>11. Server!EventKept'
  <2>1. thread'[t] = h /\ \A u \in Server!Transport : u # t => thread'[u] = thread[u]
    BY <1>8 DEF SvInv, SvTyped
  <2>2. \A k \in Peer : Server!InWire(k)' <=> Server!InWire(k)
    BY <1>1 DEF Server!InWire
  <2>3. bits => bits' \/ h.news
    BY <1>1, <1>7
  <2> QED
    BY <1>1, <1>6, <1>7, <2>1, <2>2, <2>3 DEF SvInv, Server!EventKept
<1> QED
  BY <1>1, <1>6, <1>8, <1>9, <1>10, <1>11, SvMoves

\* The head of the backlog is served from here on.
LEMMA SvAccepts ==
  ASSUME SvInv, NEW t \in Server!Transport, Server!Accept(t)
  PROVE  SvInv'
<1> DEFINE b == backlog[t][1]
           h == [Server!At("read") EXCEPT !.who = b]
<1>0. backlog[t] \in Seq(Peer) /\ backlog[t] # <<>>
  BY DEF Server!Accept, SvInv, SvTyped
<1>1. /\ thread' = [thread EXCEPT ![t] = h] /\ backlog' = [backlog EXCEPT ![t] = Tail(backlog[t])]
      /\ thread[t].at = "select" /\ UNCHANGED <<wire, bits, owed>>
  BY <1>0 DEF Server!Accept, Server!Thread
<1>2. /\ Len(backlog[t]) \in Nat \ {0} /\ b \in Peer /\ DOMAIN backlog[t] = 1 .. Len(backlog[t])
      /\ Tail(backlog[t]) \in Seq(Peer) /\ DOMAIN Tail(backlog[t]) = 1 .. Len(backlog[t]) - 1
      /\ \A i \in 1 .. Len(backlog[t]) - 1 : Tail(backlog[t])[i] = backlog[t][i + 1]
  BY <1>0
<1>3. h \in Served /\ h.at = "read" /\ h.who = b /\ h.step = 0 /\ h.done = <<>> /\ h.req = <<>>
  <2> DEFINE g == Server!At("read")
  <2>1. <<>> \in Seq(STRING)
    OBVIOUS
  <2>2. g \in Served /\ g.at = "read" /\ g.step = 0 /\ g.done = <<>> /\ g.req = <<>>
    BY <2>1 DEF Server!At, Served
  <2> HIDE DEF g
  <2>3. h = [g EXCEPT !.who = b]
    BY DEF g
  <2> QED
    BY <1>2, <2>2, <2>3 DEF Served
<1> HIDE DEF h
<1>4. thread'[t] = h /\ \A u \in Server!Transport : u # t => thread'[u] = thread[u]
  BY <1>1 DEF SvInv, SvTyped
<1>5. backlog'[t] = Tail(backlog[t]) /\ \A u \in Server!Transport : u # t => backlog'[u] = backlog[u]
  BY <1>1 DEF SvInv, SvTyped
<1>6. SvTyped'
  BY <1>1, <1>2, <1>3 DEF SvInv, SvTyped
<1>7. \A u \in Server!Transport : SvSound(thread'[u])
  <2>1. SvSound(h)
    BY <1>2, <1>3 DEF SvSound
  <2> QED
    BY <1>4, <2>1 DEF SvInv
<1>8. \A u \in Server!Transport : \A i \in DOMAIN backlog'[u] :
        \E j \in DOMAIN backlog[u] : /\ backlog'[u][i] = backlog[u][j] /\ j = (IF u = t THEN i + 1 ELSE i)
                                     /\ u = t => i \in Nat \ {0}
  <2>1. ASSUME NEW u \in Server!Transport, u # t, NEW i \in DOMAIN backlog'[u]
        PROVE  i \in DOMAIN backlog[u] /\ backlog'[u][i] = backlog[u][i]
    BY <1>5, <2>1
  <2>2. ASSUME NEW i \in DOMAIN backlog'[t]
        PROVE  i \in Nat \ {0} /\ i + 1 \in DOMAIN backlog[t] /\ backlog'[t][i] = backlog[t][i + 1]
    BY <1>2, <1>5
  <2> QED
    BY <2>1, <2>2
<1>9. SvPlaces'
  <2>1. \A s, u \in Server!Transport : thread'[s].who \in Peer /\ thread'[s].who = thread'[u].who => s = u
    BY <1>2, <1>3, <1>4 DEF SvInv, SvPlaces
  <2>2. ASSUME NEW s \in Server!Transport, NEW u \in Server!Transport, NEW i \in DOMAIN backlog'[u]
        PROVE  backlog'[u][i] # thread'[s].who
    <3>1. PICK j \in DOMAIN backlog[u] : /\ backlog'[u][i] = backlog[u][j] /\ j = (IF u = t THEN i + 1 ELSE i)
                                         /\ u = t => i \in Nat \ {0}
      BY <1>8
    <3>2. CASE s # t
      BY <1>4, <3>1, <3>2 DEF SvInv, SvPlaces
    <3>3. CASE s = t
      <4>1. u = t => j # 1
        BY <3>1
      <4>2. backlog[u][j] # b
        BY <1>2, <4>1 DEF SvInv, SvPlaces
      <4> QED
        BY <1>3, <1>4, <3>1, <3>3, <4>2
    <3> QED
      BY <3>2, <3>3
  <2>3. ASSUME NEW s \in Server!Transport, NEW u \in Server!Transport,
               NEW i \in DOMAIN backlog'[s], NEW j \in DOMAIN backlog'[u], backlog'[s][i] = backlog'[u][j]
        PROVE  s = u /\ i = j
    <3>1. PICK m \in DOMAIN backlog[s] : /\ backlog'[s][i] = backlog[s][m] /\ m = (IF s = t THEN i + 1 ELSE i)
                                         /\ s = t => i \in Nat \ {0}
      BY <1>8
    <3>2. PICK n \in DOMAIN backlog[u] : /\ backlog'[u][j] = backlog[u][n] /\ n = (IF u = t THEN j + 1 ELSE j)
                                         /\ u = t => j \in Nat \ {0}
      BY <1>8
    <3>3. s = u /\ m = n
      <4>1. backlog[s][m] = backlog[u][n]
        BY <2>3, <3>1, <3>2
      <4> QED
        BY <4>1, ZenonT(60) DEF SvInv, SvPlaces
    <3> QED
      BY <3>1, <3>2, <3>3
  <2> QED
    BY <2>1, <2>2, <2>3 DEF SvPlaces
<1>10. \A k \in Peer : SvAnswers(wire'[k]) /\ SvUnderWay(k)'
  <2>1. \A k \in Peer : \A u \in Server!Transport :
          thread'[u].who = k /\ thread'[u].at = "run" <=> thread[u].who = k /\ thread[u].at = "run"
    BY <1>1, <1>3, <1>4
  <2>2. \A k \in Peer : Runs(k)' = Runs(k)
    BY <2>1 DEF Runs
  <2>3. \A k \in Peer : \A u \in Server!Transport :
          thread'[u].who = k /\ thread'[u].at = "run" => thread'[u].no = thread[u].no
    BY <1>3, <1>4
  <2> QED
    BY <1>1, <2>1, <2>2, <2>3 DEF SvInv, SvUnderWay
<1>11. Server!EventKept'
  <2>1. \A u \in Server!Transport : thread[u].at = "run" => thread'[u] = thread[u]
    BY <1>1, <1>4
  <2> QED
    BY <1>1, <2>1 DEF SvInv, Server!EventKept, Server!InWire
<1> QED
  BY <1>6, <1>7, <1>9, <1>10, <1>11 DEF SvInv

\* The thread and its connection: a request is read, an answer written.
LEMMA SvParts ==
  ASSUME NEW w \in Connection
  PROVE  /\ w.in \in Seq(Request) /\ w.out \in Seq(Reply) /\ w.asked \in Nat /\ w.late \in Nat
         /\ Waits(w) \in Nat
BY SvCounts DEF Connection

LEMMA SvReadOne ==
  ASSUME NEW w \in Connection, NEW v, SvAnswers(w), SvFlow(w, 0), w.at = "open", w.in # <<>>,
         v = [w EXCEPT !.in = Tail(w.in)]
  PROVE  /\ v \in Connection /\ SvAnswers(v) /\ SvFlow(v, 1) /\ v.out = w.out /\ v.at = w.at
         /\ Head(w.in) \in Request /\ Head(w.in).no = v.asked - Len(v.in)
<1>1. PICK q \in Seq(Request), o \in Seq(Reply), k \in Nat, l \in Nat, c \in Nat :
        w.in = q /\ w.out = o /\ w.asked = k /\ w.late = l /\ Waits(w) = c
  BY SvParts
<1>2. q # <<>>
  BY <1>1
<1>3. /\ v.at = w.at /\ v.asked = k /\ v.in = Tail(q) /\ v.out = o
      /\ v.late = l /\ v.shift = w.shift
  BY <1>1 DEF Connection
<1>4. v.waits = w.waits
  BY DEF Connection
<1>5. Waits(v) = c
  BY <1>1, <1>4 DEF Waits
<1>6. v \in Connection
  <2>1. Tail(w.in) \in Seq(Request)
    BY <1>1, <1>2
  <2> QED
    BY <2>1 DEF Connection
<1>7. SvAnswers(v)
  <2>1. v.at # "closed"
    BY <1>3
  <2> QED
    BY <1>1, <1>3, <1>5, <2>1 DEF SvAnswers
<1>8. (\A i \in DOMAIN q : q[i].no = k - Len(q) + i) /\ Len(o) + 0 + Len(q) = l + c
  BY <1>1 DEF SvFlow
<1>9. Head(q) = q[1] /\ q[1] \in Request /\ q[1].no = k - Len(Tail(q))
  <2>1. q[1].no = k - Len(q) + 1
    BY <1>2, <1>8
  <2> QED
    BY <1>2, <2>1
<1>10. \A i \in DOMAIN Tail(q) : Tail(q)[i].no = k - Len(Tail(q)) + i
  <2> SUFFICES ASSUME NEW i \in DOMAIN Tail(q) PROVE Tail(q)[i].no = k - Len(Tail(q)) + i
    OBVIOUS
  <2>1. i \in 1 .. Len(q) - 1 /\ i + 1 \in DOMAIN q /\ Tail(q)[i] = q[i + 1] /\ Len(Tail(q)) = Len(q) - 1
    BY <1>2
  <2>2. q[i + 1].no = k - Len(q) + (i + 1)
    BY <1>8, <2>1
  <2> QED
    BY <2>1, <2>2
<1>11. Len(o) + 1 + Len(Tail(q)) = l + c
  BY <1>2, <1>8
<1>12. SvFlow(v, 1)
  BY <1>3, <1>5, <1>10, <1>11 DEF SvFlow
<1> QED
  BY <1>1, <1>3, <1>6, <1>7, <1>9, <1>12

LEMMA SvReplyOne ==
  ASSUME NEW w \in Connection, NEW v, NEW a \in Reply, NEW p \in {"open", "hung"}, SvAnswers(w), SvFlow(w, 1), w.at = "open",
         a.no = w.asked - Len(w.in), v = [w EXCEPT !.out = Append(w.out, a), !.at = p]
  PROVE  v \in Connection /\ SvAnswers(v) /\ SvFlow(v, 0) /\ v.in = w.in /\ v.asked = w.asked /\ v.out = Append(w.out, a)
<1>1. PICK q \in Seq(Request), o \in Seq(Reply), k \in Nat, l \in Nat, c \in Nat :
        w.in = q /\ w.out = o /\ w.asked = k /\ w.late = l /\ Waits(w) = c
  BY SvParts
<1>2. a.no = k - Len(q)
  BY <1>1
<1>3. /\ v.at = p /\ v.asked = k /\ v.in = q /\ v.out = Append(o, a)
      /\ v.late = l /\ v.shift = w.shift
  BY <1>1 DEF Connection
<1>4. v.waits = w.waits
  BY DEF Connection
<1>5. Waits(v) = c
  BY <1>1, <1>4 DEF Waits
<1>6. v \in Connection
  <2>1. Append(w.out, a) \in Seq(Reply)
    BY <1>1
  <2> QED
    BY <2>1 DEF Connection
<1>7. (\A i \in DOMAIN q : q[i].no = k - Len(q) + i) /\ Len(o) + 1 + Len(q) = l + c
  BY <1>1 DEF SvFlow
<1>8. \A i \in DOMAIN Append(o, a) : Append(o, a)[i].no = k - l - c + i
  <2> SUFFICES ASSUME NEW i \in 1 .. Len(o) + 1 PROVE Append(o, a)[i].no = k - l - c + i
    OBVIOUS
  <2>1. CASE i = Len(o) + 1
    <3>1. Append(o, a)[i] = a
      BY <2>1
    <3>2. k - Len(q) = k - l - c + i
      BY <1>7, <2>1
    <3> QED
      BY <1>2, <3>1, <3>2
  <2>2. CASE i # Len(o) + 1
    <3>1. i \in DOMAIN o /\ Append(o, a)[i] = o[i]
      BY <2>2
    <3>2. o[i].no = k - l - c + i
      BY <1>1, <3>1 DEF SvAnswers
    <3> QED
      BY <3>1, <3>2
  <2> QED
    BY <2>1, <2>2
<1>9. SvAnswers(v)
  <2>1. k <= Asks /\ l + c <= k /\ w.shift \subseteq {l}
    BY <1>1 DEF SvAnswers
  <2> QED
    BY <1>3, <1>5, <1>8, <2>1 DEF SvAnswers
<1>10. SvFlow(v, 0)
  <2>1. Len(Append(o, a)) + 0 + Len(q) = l + c
    BY <1>7
  <2> QED
    BY <1>3, <1>5, <1>7, <2>1 DEF SvFlow
<1> QED
  BY <1>1, <1>3, <1>6, <1>9, <1>10

LEMMA SvServes ==
  ASSUME SvInv, NEW t \in Server!Transport, NEW k \in Peer, thread[t].who = k, NEW h \in Served, NEW v \in Connection,
         thread' = [thread EXCEPT ![t] = h], wire' = [wire EXCEPT ![k] = v], UNCHANGED <<backlog, bits, owed>>,
         SvSound(h), h.who = k \/ h.who = Server!Nobody, SvAnswers(v), SvFlow(v, IF h.who = k /\ h.at = "run" THEN 1 ELSE 0),
         h.who = k /\ h.at = "run" => h.no = v.asked - Len(v.in),
         Server!EventKept'
  PROVE  SvInv'
<1>1. SvTyped'
  BY DEF SvInv, SvTyped
<1>2. thread'[t] = h /\ \A u \in Server!Transport : u # t => thread'[u] = thread[u]
  BY DEF SvInv, SvTyped
<1>3. wire'[k] = v /\ \A j \in Peer : j # k => wire'[j] = wire[j]
  BY DEF SvInv, SvTyped
<1>4. \A u \in Server!Transport : SvSound(thread'[u])
  BY <1>2 DEF SvInv
<1>5. SvPlaces'
  <2>1. \A u \in Server!Transport : \A i \in DOMAIN backlog[u] : backlog[u][i] # Server!Nobody
    BY SvConstants DEF SvInv, SvTyped
  <2> QED
    BY <1>2, <2>1, SvConstants DEF SvInv, SvPlaces
<1>6. \A u \in Server!Transport : u # t => thread[u].who # k
  BY DEF SvInv, SvPlaces
<1>7. SvUnderWay(k)'
  <2>1. \A u \in Server!Transport : thread'[u].who = k => u = t
    BY <1>2, <1>6
  <2>2. Runs(k)' = IF h.who = k /\ h.at = "run" THEN 1 ELSE 0
    BY <1>2, <2>1 DEF Runs
  <2>3. SvFlow(wire'[k], Runs(k)')
    BY <1>3, <2>2
  <2>4. \A u \in Server!Transport : thread'[u].who = k /\ thread'[u].at = "run" => thread'[u].no = v.asked - Len(v.in)
    BY <1>2, <2>1
  <2> QED
    BY <1>3, <2>3, <2>4 DEF SvUnderWay
<1>8. \A j \in Peer : SvUnderWay(j)'
  <2> SUFFICES ASSUME NEW j \in Peer, j # k PROVE SvUnderWay(j)'
    BY <1>7
  <2>0. Server!Nobody # j
    BY SvConstants
  <2>1. \A u \in Server!Transport : thread'[u].who = j /\ thread'[u].at = "run" <=> thread[u].who = j /\ thread[u].at = "run"
    BY <1>2, <2>0
  <2>2. \A u \in Server!Transport : thread'[u].who = j => thread'[u].no = thread[u].no
    BY <1>2, <2>0
  <2>3. Runs(j)' = Runs(j)
    BY <2>1 DEF Runs
  <2> QED
    BY <1>3, <2>1, <2>2, <2>3 DEF SvUnderWay, SvInv
<1>9. \A j \in Peer : SvAnswers(wire'[j])
  BY <1>3 DEF SvInv
<1> QED
  BY <1>1, <1>4, <1>5, <1>8, <1>9 DEF SvInv

LEMMA SvReads ==
  ASSUME SvInv, NEW t \in Server!Transport, Server!Reads(t)
  PROVE  SvInv'
<1>0. PICK k \in Peer : thread[t].who = k
  BY DEF Server!Reads, Server!Mine
<1> DEFINE g == thread[t]
           w == wire[k]
           m == Head(w.in)
           h == [g EXCEPT !.at = "run", !.no = m.no, !.req = m.req]
           v == [w EXCEPT !.in = Tail(w.in)]
<1>1. /\ thread' = [thread EXCEPT ![t] = h] /\ UNCHANGED <<backlog, bits, owed>>
      /\ g.at = "read" /\ w.at = "open" /\ w.in # <<>>
      /\ wire' = [wire EXCEPT ![k].in = Tail(w.in)]
  BY <1>0 DEF Server!Reads, Server!Mine, Server!Thread
<1>2. wire' = [wire EXCEPT ![k] = v]
  BY <1>1
<1>3. g \in Served /\ SvSound(g) /\ w \in Connection /\ SvAnswers(w) /\ SvUnderWay(k)
  BY <1>1 DEF SvInv, SvTyped
<1>4. Runs(k) = 0
  BY <1>0, <1>1 DEF Runs, SvInv, SvPlaces
<1>5. SvFlow(w, 0)
  BY <1>3, <1>4 DEF SvUnderWay
<1>6. /\ v \in Connection /\ SvAnswers(v) /\ SvFlow(v, 1) /\ v.out = w.out /\ v.at = w.at
      /\ m \in Request /\ m.no = v.asked - Len(v.in)
  <2> HIDE DEF w
  <2> QED
    BY <1>1, <1>3, <1>5, SvReadOne, Zenon
<1>7. m.req \in Seq(STRING) /\ m.no \in Int
  BY <1>6, SvConstants DEF Request
<1> HIDE DEF m
<1>8. h \in Served /\ h.at = "run" /\ h.who = k /\ h.no = m.no /\ h.req = m.req /\ h.step = g.step /\ h.done = g.done
      /\ h.news = g.news
  BY <1>0, <1>3, <1>7 DEF Served
<1>9. SvSound(h)
  <2>1. g.step = 0 /\ g.done = <<>>
    BY <1>1, <1>3 DEF SvSound
  <2>2. SubSeq(m.req, 1, 0) = <<>> /\ 0 <= Len(m.req)
    BY <1>7
  <2>3. h.step <= Len(h.req)
    BY <1>8, <2>1, <2>2
  <2>4. h.done = SubSeq(h.req, 1, h.step)
    BY <1>8, <2>1, <2>2
  <2> QED
    BY <1>0, <1>8, <2>3, <2>4 DEF SvSound
<1> HIDE DEF h, v
<1>10. Server!EventKept'
  <2>1. thread'[t] = h /\ \A u \in Server!Transport : u # t => thread'[u] = thread[u]
    BY <1>1 DEF SvInv, SvTyped, h
  <2>2. \A j \in Peer : Server!InWire(j)' <=> Server!InWire(j)
    <3>1. \A j \in Peer : wire'[j].out = wire[j].out
      BY <1>1, <1>2, <1>6 DEF SvInv, SvTyped
    <3> QED
      BY <3>1 DEF Server!InWire
  <2> QED
    BY <1>1, <2>1, <2>2 DEF SvInv, Server!EventKept
<1>11. thread' = [thread EXCEPT ![t] = h]
  BY <1>1 DEF h
<1>12. SvFlow(v, IF h.who = k /\ h.at = "run" THEN 1 ELSE 0) /\ h.no = v.asked - Len(v.in)
  BY <1>6, <1>8
<1> HIDE DEF g, w
<1> QED
  BY <1>0, <1>1, <1>2, <1>6, <1>8, <1>9, <1>10, <1>11, <1>12, SvServes

LEMMA SvReplies ==
  ASSUME SvInv, NEW t \in Server!Transport, Server!Reply(t)
  PROVE  SvInv'
<1>0. PICK k \in Peer : thread[t].who = k
  BY DEF Server!Reply, Server!Mine
<1> DEFINE g == thread[t]
           w == wire[k]
           a == [no |-> g.no, news |-> g.news]
           p == IF Server!Kept(t) THEN "open" ELSE "hung"
           h == IF Server!Kept(t) THEN [Server!At("read") EXCEPT !.who = k] ELSE Server!At("select")
           v == [w EXCEPT !.out = Append(w.out, a), !.at = p]
<1>1. /\ thread' = [thread EXCEPT ![t] = h] /\ UNCHANGED <<backlog, bits, owed>>
      /\ g.at = "run" /\ w.at = "open"
      /\ wire' = [wire EXCEPT ![k].out = Append(w.out, a), ![k].at = IF Server!Kept(t) THEN w.at ELSE "hung"]
  BY <1>0 DEF Server!Reply, Server!Mine, Server!Thread, Server!Ready
<1>2. wire' = [wire EXCEPT ![k] = v]
  BY <1>1 DEF SvInv, SvTyped
<1>3. g \in Served /\ SvSound(g) /\ w \in Connection /\ SvAnswers(w) /\ SvUnderWay(k)
  BY <1>1 DEF SvInv, SvTyped
<1>4. Runs(k) = 1 /\ g.no = w.asked - Len(w.in)
  BY <1>0, <1>1, <1>3 DEF Runs, SvUnderWay
<1>5. SvFlow(w, 1)
  BY <1>3, <1>4 DEF SvUnderWay
<1>6. a \in Reply /\ p \in {"open", "hung"} /\ a.no = w.asked - Len(w.in)
  BY <1>3, <1>4 DEF Reply, Served
<1>7. v \in Connection /\ SvAnswers(v) /\ SvFlow(v, 0) /\ v.in = w.in /\ v.asked = w.asked /\ v.out = Append(w.out, a)
  <2> HIDE DEF a, p
  <2> QED
    BY <1>1, <1>3, <1>5, <1>6, SvReplyOne, Zenon
<1>8. h \in Served /\ h.at \in {"read", "select"} /\ (h.at = "read" <=> h.who \in Peer)
      /\ h.who \in {k, Server!Nobody} /\ h.step = 0 /\ h.done = <<>> /\ h.req = <<>>
  <2>1. CASE Server!Kept(t)
    <3> DEFINE r == Server!At("read")
    <3>1. <<>> \in Seq(STRING)
      OBVIOUS
    <3>2. r \in Served /\ r.at = "read" /\ r.step = 0 /\ r.done = <<>> /\ r.req = <<>>
      BY <3>1 DEF Server!At, Served
    <3> HIDE DEF r
    <3>3. h = [r EXCEPT !.who = k]
      BY <2>1 DEF r
    <3> QED
      BY <1>1, <3>2, <3>3 DEF Served
  <2>2. CASE ~Server!Kept(t)
    <3>1. <<>> \in Seq(STRING)
      OBVIOUS
    <3> QED
      BY <2>2, <3>1, SvConstants DEF Server!At, Served
  <2> QED
    BY <2>1, <2>2
<1> HIDE DEF h, v
<1>9. SvSound(h)
  BY <1>8 DEF SvSound
<1>10. Server!EventKept'
  <2>1. thread'[t] = h /\ \A u \in Server!Transport : u # t => thread'[u] = thread[u]
    BY <1>1 DEF SvInv, SvTyped, h
  <2>2. \A j \in Peer : j # k => (Server!InWire(j)' <=> Server!InWire(j))
    BY <1>2 DEF Server!InWire, SvInv, SvTyped
  <2>3. wire'[k].out = Append(w.out, a)
    BY <1>1, <1>2, <1>7 DEF SvInv, SvTyped
  <2>4. PICK o \in Seq(Reply) : w.out = o
    BY <1>3 DEF Connection
  <2>5. g.news => Server!InWire(k)'
    <3>1. Len(o) + 1 \in DOMAIN Append(o, a) /\ Append(o, a)[Len(o) + 1] = a
      BY <1>6, <2>4
    <3>2. wire'[k].out = Append(o, a)
      BY <2>3, <2>4
    <3>3. a.news = g.news
      OBVIOUS
    <3> HIDE DEF a, g
    <3> QED
      BY <3>1, <3>2, <3>3, Zenon DEF Server!InWire
  <2>6. Server!InWire(k) => Server!InWire(k)'
    <3> SUFFICES ASSUME NEW i \in DOMAIN o, o[i].news PROVE Server!InWire(k)'
      BY <2>4 DEF Server!InWire
    <3>1. i \in DOMAIN Append(o, a) /\ Append(o, a)[i] = o[i]
      BY <1>6, <2>4
    <3>2. wire'[k].out = Append(o, a)
      BY <2>3, <2>4
    <3> HIDE DEF a
    <3> QED
      BY <3>1, <3>2, Zenon DEF Server!InWire
  <2> QED
    BY <1>1, <2>1, <2>2, <2>5, <2>6 DEF SvInv, Server!EventKept
<1>11. thread' = [thread EXCEPT ![t] = h]
  BY <1>1 DEF h
<1>12. ~(h.who = k /\ h.at = "run") /\ SvFlow(v, IF h.who = k /\ h.at = "run" THEN 1 ELSE 0)
  BY <1>7, <1>8
<1> HIDE DEF g, w
<1> QED
  BY <1>0, <1>1, <1>2, <1>7, <1>8, <1>9, <1>10, <1>11, <1>12, SvServes, ZenonT(60)

\* The backlog of a server that ends is cut off: its connections are not served, and their requests are not read.
LEMMA SvLoopEnds ==
  ASSUME SvInv, NEW t \in Server!Transport, Server!LoopEnds(t)
  PROVE  SvInv'
<1> DEFINE h == Server!At("over")
           W == Server!Waiting(t)
           cut(w) == [w EXCEPT !.at = "hung", !.in = <<>>]
<1>1. /\ thread' = [thread EXCEPT ![t] = h] /\ thread[t].at = "select"
      /\ wire' = [k \in Peer |-> IF k \in W THEN IF wire[k].at = "closed" THEN wire[k] ELSE cut(wire[k]) ELSE wire[k]]
      /\ backlog' = [backlog EXCEPT ![t] = <<>>] /\ UNCHANGED <<bits, owed>>
  BY DEF Server!LoopEnds, Server!Thread
<1>2. h \in Served /\ h.at = "over" /\ h.who = Server!Nobody /\ h.step = 0 /\ h.req = <<>>
  BY SvAt
<1> HIDE DEF h, W
<1>3. thread'[t] = h /\ \A u \in Server!Transport : u # t => thread'[u] = thread[u]
  BY <1>1 DEF SvInv, SvTyped
<1>4. backlog'[t] = <<>> /\ \A u \in Server!Transport : u # t => backlog'[u] = backlog[u]
  BY <1>1 DEF SvInv, SvTyped
<1>5. ASSUME NEW k \in Peer
      PROVE  \/ wire'[k] = wire[k]
             \/ wire[k].at # "closed" /\ wire'[k] = cut(wire[k])
  BY <1>1
<1>6. ASSUME NEW w \in Connection, SvAnswers(w), w.at # "closed"
      PROVE  cut(w) \in Connection /\ SvAnswers(cut(w)) /\ cut(w).out = w.out /\ cut(w).at = "hung"
  <2>0. <<>> \in Seq(Request)
    OBVIOUS
  <2>1. cut(w) \in Connection /\ cut(w).out = w.out /\ cut(w).at = "hung" /\ cut(w).asked = w.asked
        /\ cut(w).late = w.late /\ cut(w).shift = w.shift
    BY <2>0 DEF Connection
  <2>2. cut(w).waits = w.waits
    BY DEF Connection
  <2>3. Waits(cut(w)) = Waits(w)
    BY <2>2, Zenon DEF Waits
  <2> HIDE DEF cut
  <2> QED
    BY <1>6, <2>1, <2>3 DEF SvAnswers
<1> HIDE DEF cut
<1>7. \A k \in Peer : wire'[k] \in Connection /\ SvAnswers(wire'[k]) /\ wire'[k].out = wire[k].out
                      /\ (wire'[k].at = "open" => wire'[k] = wire[k])
  <2> SUFFICES ASSUME NEW k \in Peer
               PROVE  wire'[k] \in Connection /\ SvAnswers(wire'[k]) /\ wire'[k].out = wire[k].out
                      /\ (wire'[k].at = "open" => wire'[k] = wire[k])
    OBVIOUS
  <2>1. wire[k] \in Connection /\ SvAnswers(wire[k])
    BY DEF SvInv, SvTyped
  <2>2. CASE wire'[k] = wire[k]
    BY <2>1, <2>2
  <2>3. CASE wire[k].at # "closed" /\ wire'[k] = cut(wire[k])
    BY <1>6, <2>1, <2>3
  <2> QED
    BY <1>5, <2>2, <2>3
<1>8. SvTyped'
  <2>1. wire' \in [Peer -> Connection]
    BY <1>1, <1>7
  <2>2. backlog' \in [Server!Transport -> Seq(Peer)]
    BY <1>1 DEF SvInv, SvTyped
  <2> QED
    BY <1>1, <1>2, <2>1, <2>2 DEF SvInv, SvTyped
<1>9. \A u \in Server!Transport : SvSound(thread'[u])
  <2>1. SvSound(h)
    BY <1>2, SvConstants DEF SvSound
  <2> QED
    BY <1>3, <2>1 DEF SvInv
<1>10. SvPlaces'
  <2>1. \A u \in Server!Transport : \A i \in DOMAIN backlog[u] : backlog[u][i] # Server!Nobody
    BY SvConstants DEF SvInv, SvTyped
  <2> QED
    BY <1>2, <1>3, <1>4, <2>1, SvConstants DEF SvInv, SvPlaces
<1>11. \A k \in Peer : SvUnderWay(k)'
  <2> SUFFICES ASSUME NEW k \in Peer PROVE SvUnderWay(k)'
    OBVIOUS
  <2>1. \A u \in Server!Transport : thread'[u].who = k /\ thread'[u].at = "run" <=> thread[u].who = k /\ thread[u].at = "run"
    BY <1>1, <1>2, <1>3
  <2>2. \A u \in Server!Transport : thread'[u].at = "run" => thread'[u].no = thread[u].no
    BY <1>2, <1>3
  <2>3. Runs(k)' = Runs(k)
    BY <2>1 DEF Runs
  <2>4. SvUnderWay(k)
    BY DEF SvInv
  <2> QED
    BY <1>7, <2>1, <2>2, <2>3, <2>4 DEF SvUnderWay, SvFlow
<1>12. Server!EventKept'
  <2>1. \A k \in Peer : Server!InWire(k)' <=> Server!InWire(k)
    BY <1>7 DEF Server!InWire
  <2>2. \A u \in Server!Transport : thread[u].at = "run" => thread'[u] = thread[u]
    BY <1>1, <1>3
  <2> QED
    BY <1>1, <2>1, <2>2 DEF SvInv, Server!EventKept
<1> QED
  BY <1>7, <1>8, <1>9, <1>10, <1>11, <1>12 DEF SvInv

LEMMA SvSignals ==
  ASSUME SvInv, Server!Signal \/ \E t \in Server!Transport : Server!ServerStop(t)
  PROVE  SvInv'
<1>1. /\ thread' = thread /\ backlog' = backlog /\ wire' = wire
      /\ (bits' = bits /\ owed' = owed) \/ (bits' = TRUE /\ owed' = TRUE)
  <2>1. CASE Server!Signal
    BY <2>1, Zenon DEF Server!Signal
  <2>2. CASE \E t \in Server!Transport : Server!ServerStop(t)
    <3>1. thread' = thread /\ backlog' = backlog /\ wire' = wire /\ bits' = bits /\ owed' = owed
      BY <2>2 DEF Server!ServerStop
    <3> QED
      BY <3>1, Zenon
  <2> QED
    BY <2>1, <2>2
<1>2. SvTyped'
  BY <1>1 DEF SvInv, SvTyped
<1>3. \A k \in Peer : SvUnderWay(k)' <=> SvUnderWay(k)
  BY <1>1 DEF SvUnderWay, Runs
<1>4. Server!EventKept'
  BY <1>1 DEF SvInv, Server!EventKept, Server!InWire
<1> QED
  BY <1>1, <1>2, <1>3, <1>4 DEF SvInv, SvPlaces

LEMMA SvStutters == ASSUME SvInv, UNCHANGED serverVars PROVE SvInv'
<1>1. UNCHANGED <<thread, backlog, wire, bits, owed>>
  BY DEF serverVars
<1>2. \A k \in Peer : SvUnderWay(k)' <=> SvUnderWay(k)
  BY <1>1 DEF SvUnderWay, Runs
<1> QED
  BY <1>1, <1>2 DEF SvInv, SvPlaces, SvTyped, Server!EventKept, Server!InWire

LEMMA SvStep == ASSUME SvInv, Server!ServerNext PROVE SvInv'
<1>1. ASSUME NEW t \in Server!Transport, Server!Serves(t) PROVE SvInv'
  BY <1>1, SvLoopEnds, SvAccepts, SvReads, SvEnds, SvDispatches, SvReplies, Zenon DEF Server!Serves
<1>2. ASSUME NEW k \in Peer, Server!Hears(k) PROVE SvInv'
  BY <1>2, SvTakes, SvTimesOut, Zenon DEF Server!Hears
<1>3. ASSUME NEW k \in Peer, NEW t \in Server!Transport, Server!Connect(k, t) PROVE SvInv'
  BY <1>3, SvConnects, Zenon
<1> QED
  BY <1>1, <1>2, <1>3, SvSignals, SvCloses, SvAsks, Zenon DEF Server!ServerNext

LEMMA SvIsSafe == ASSUME SvInv PROVE Server!ServerSafe
<1>1. Server!ServerTypeOK
  <2>1. \A t \in Server!Transport :
          /\ thread[t].at \in {"select", "read", "run", "over"} /\ thread[t].step \in 0 .. Len(thread[t].req)
          /\ thread[t].at \in {"read", "run"} <=> thread[t].who \in Peer
    <3> SUFFICES ASSUME NEW t \in Server!Transport
                 PROVE  /\ thread[t].at \in {"select", "read", "run", "over"} /\ thread[t].step \in 0 .. Len(thread[t].req)
                        /\ thread[t].at \in {"read", "run"} <=> thread[t].who \in Peer
      OBVIOUS
    <3>1. thread[t] \in Served /\ SvSound(thread[t])
      BY DEF SvInv, SvTyped
    <3>2. thread[t].step \in Nat /\ thread[t].step <= Len(thread[t].req)
      BY <3>1 DEF Served, SvSound
    <3>3. Len(thread[t].req) \in Nat
      BY <3>1 DEF Served
    <3>4. thread[t].step \in 0 .. Len(thread[t].req)
      BY <3>2, <3>3
    <3> QED
      BY <3>1, <3>4 DEF Served, SvSound
  <2>2. ASSUME NEW k \in Peer
        PROVE  wire[k].at \in {"closed", "open", "hung"} /\ wire[k].late <= wire[k].asked /\ wire[k].asked <= Asks
    <3>1. wire[k] \in Connection /\ SvAnswers(wire[k])
      BY DEF SvInv, SvTyped
    <3>2. PICK a \in Nat, l \in Nat, c \in Nat : wire[k].asked = a /\ wire[k].late = l /\ Waits(wire[k]) = c
      BY <3>1, SvParts
    <3>3. l + c <= a /\ a <= Asks
      BY <3>1, <3>2 DEF SvAnswers
    <3>4. l <= a
      BY <3>2, <3>3
    <3> QED
      BY <3>1, <3>2, <3>3, <3>4 DEF Connection
  <2>3. {bits, owed} \subseteq BOOLEAN
    BY DEF SvInv, SvTyped
  <2> QED
    BY <2>1, <2>2, <2>3 DEF Server!ServerTypeOK
<1>2. Server!AnswersShift
  BY DEF SvInv, SvAnswers, Server!AnswersShift
<1>3. Server!OneResultEach
  BY DEF SvInv, SvSound, Server!OneResultEach
<1>4. Server!EventKept
  BY DEF SvInv
<1> QED
  BY <1>1, <1>2, <1>3, <1>4 DEF Server!ServerSafe

(***************************************************************************)
(* nop_client.c, nop_router.c, nop_longpoll.c: an answer is that of its    *)
(* request, shifted by as many as have timed out on its connection; it has *)
(* one result per command; and an event that is signalled is pending or on *)
(* its way until a client has it: for any clients, requests and bounds.    *)
(***************************************************************************)
THEOREM AnswersAreTheirs == BoxSpec => []ServerSafe
<1>1. BoxInit => SvInv
  BY SvInitInv, Zenon DEF BoxInit
<1>2. SvInv /\ [BoxNext]_boxVars => SvInv'
  <2> SUFFICES ASSUME SvInv, [BoxNext]_boxVars PROVE SvInv'
    OBVIOUS
  <2>1. CASE UNCHANGED serverVars
    BY <2>1, SvStutters, Zenon
  <2>2. CASE Server!ServerNext
    BY <2>2, SvStep, Zenon
  <2> QED
    BY <2>1, <2>2, Zenon DEF BoxNext, boxVars
<1>3. SvInv => ServerSafe
  BY SvIsSafe, Zenon DEF ServerSafe
<1> QED
  BY <1>1, <1>2, <1>3, PTL DEF BoxSpec

-----------------------------------------------------------------------------
(***************************************************************************)
(* BlePackets.  What a phone still has to send are the last packets of its *)
(* message.  While no harmful packet was lost, an assembly that is active  *)
(* amid a message holds the part of that message which was sent, or less   *)
(* than that: then it never reaches the length.                            *)
(***************************************************************************)
BmMsg == [by : Phone, no : {0, 1}, len : Nat]
BmByte == Phone \X {0, 1} \X Nat
BmPacket == [type : {"first", "mid", "last"}, total : Nat, data : Seq(BmByte)]
BmAsm == [active : BOOLEAN, total : 0 .. MaxMsg, buf : Seq(BmByte)]

BmSent(f) == Ble!Conts(f.msg.len) + 1 - Len(f.rest)
BmRest(f) ==
  /\ Len(f.rest) <= Ble!Conts(f.msg.len) + 1
  /\ \A i \in 1 .. Len(f.rest) : f.rest[i] = Ble!Packets(f.msg)[i + BmSent(f)]
  /\ f.rest # <<>> => f.msg.len \in Lengths

BmPart(a, m, k) ==
  /\ a.total = m.len % Modulus
  /\ \/ a.buf = SubSeq(Ble!Bytes(m), 1, Ble!Upto(k, m.len))
     \/ m.len < Modulus /\ Len(a.buf) < Ble!Upto(k, m.len)
BmHeld(a, f) == a.active /\ f.rest # <<>> /\ BmSent(f) >= 1 => BmPart(a, f.msg, BmSent(f) - 1)

BmTyped ==
  /\ phone \in [Phone -> [msg : BmMsg, rest : Seq(BmPacket)]]
  /\ asm \in BmAsm /\ (asm.active => Len(asm.buf) < asm.total)
  /\ harm \in BOOLEAN
BmInv ==
  /\ BmTyped
  /\ \A p \in Phone : BmRest(phone[p])
  /\ \A p, q \in Phone : Ble!Amid(p) /\ Ble!Amid(q) => p = q
  /\ ~harm => \A p \in Phone : BmHeld(asm, phone[p])
  /\ Ble!WholeOrNothing

LEMMA BmConstants ==
  /\ FirstCap \in Nat /\ FirstCap > 0 /\ ContCap \in Nat /\ ContCap > 0
  /\ MaxMsg \in Nat /\ Modulus \in Nat /\ MaxMsg < Modulus /\ Lengths \subseteq Nat
BY BoxAssumption DEF Ble!BleAssumption

LEMMA BmRemainder ==
  /\ \A n \in Nat : n % Modulus \in 0 .. Modulus - 1
  /\ \A n \in Nat : n < Modulus => n % Modulus = n
BY BmConstants

\* The k-th packet after the first one begins within the message.
LEMMA BmConts ==
  ASSUME NEW n \in Nat
  PROVE  /\ Ble!Conts(n) \in Nat
         /\ \A k \in 1 .. Ble!Conts(n) : FirstCap + (k - 1) * ContCap < n
         /\ \A k \in Nat : (k - 1) * ContCap \in Int /\ (k > 0 => (k - 1) * ContCap \in Nat)
         /\ \A k \in Nat : k * ContCap \in Nat /\ k * ContCap = (k - 1) * ContCap + ContCap
<1> USE BmConstants
<1>1. ASSUME NEW a \in Nat
      PROVE  /\ a \div ContCap \in Nat
             /\ (a \div ContCap) * ContCap \in Nat /\ (a \div ContCap) * ContCap <= a
  OBVIOUS
<1>2. \A k, q \in Nat : k <= q => k * ContCap \in Nat /\ q * ContCap \in Nat /\ k * ContCap <= q * ContCap
  OBVIOUS
<1>3. \A k \in Nat : /\ k * ContCap \in Nat /\ (k - 1) * ContCap \in Int
                     /\ k * ContCap = (k - 1) * ContCap + ContCap
  OBVIOUS
<1>4. \A k \in Nat : k > 0 => (k - 1) * ContCap \in Nat
  OBVIOUS
<1>5. CASE n <= FirstCap
  BY <1>3, <1>4, <1>5 DEF Ble!Conts
<1>6. CASE n > FirstCap
  <2>1. n - FirstCap + ContCap - 1 \in Nat
    BY <1>6
  <2>2. PICK a \in Nat : a = n - FirstCap + ContCap - 1
    BY <2>1
  <2>3. Ble!Conts(n) = a \div ContCap
    BY <1>6, <2>2 DEF Ble!Conts
  <2>4. PICK q \in Nat : q = Ble!Conts(n) /\ q * ContCap \in Nat /\ q * ContCap <= a
    BY <1>1, <2>3
  <2>5. ASSUME NEW k \in 1 .. q PROVE FirstCap + (k - 1) * ContCap < n
    <3>1. k \in Nat /\ k * ContCap \in Nat /\ k * ContCap <= a
      BY <1>2, <2>4
    <3>2. (k - 1) * ContCap \in Int /\ k * ContCap = (k - 1) * ContCap + ContCap
      BY <1>3, <3>1
    <3> QED
      BY <2>2, <3>1, <3>2
  <2> QED
    BY <1>3, <1>4, <2>4, <2>5
<1> QED
  BY <1>5, <1>6

\* Each packet continues where the one before ends.
LEMMA BmBounds ==
  ASSUME NEW n \in Nat
  PROVE  /\ Ble!From(0) = 1
         /\ Ble!Upto(0, n) \in 0 .. n /\ (n <= FirstCap => Ble!Upto(0, n) = n)
         /\ \A k \in 1 .. Ble!Conts(n) :
              /\ Ble!Upto(k - 1, n) \in Nat /\ Ble!From(k) = Ble!Upto(k - 1, n) + 1
              /\ Ble!Upto(k, n) \in Nat /\ Ble!Upto(k - 1, n) < Ble!Upto(k, n) /\ Ble!Upto(k, n) <= n
<1> USE BmConstants
<1>1. Ble!From(0) = 1
  BY DEF Ble!From
<1>2. Ble!Upto(0, n) = Ble!AtMost(n, FirstCap)
  BY DEF Ble!Upto
<1>3. ASSUME NEW k \in 1 .. Ble!Conts(n)
      PROVE  /\ Ble!Upto(k - 1, n) \in Nat /\ Ble!From(k) = Ble!Upto(k - 1, n) + 1
             /\ Ble!Upto(k, n) \in Nat /\ Ble!Upto(k - 1, n) < Ble!Upto(k, n) /\ Ble!Upto(k, n) <= n
  <2>1. k \in Nat /\ k > 0 /\ Ble!Conts(n) \in Nat
    BY BmConts
  <2>2. PICK x \in Nat : x = (k - 1) * ContCap
    BY <2>1, BmConts
  <2>3. k * ContCap = x + ContCap /\ FirstCap + x < n
    BY <2>1, <2>2, BmConts
  <2>4. Ble!From(k) = FirstCap + x + 1
    BY <2>1, <2>2 DEF Ble!From
  <2>5. Ble!Upto(k - 1, n) = FirstCap + x
    BY <2>2, <2>3 DEF Ble!Upto, Ble!AtMost
  <2>6. Ble!Upto(k, n) = Ble!AtMost(n, FirstCap + (x + ContCap))
    BY <2>3 DEF Ble!Upto
  <2> QED
    BY <2>3, <2>4, <2>5, <2>6 DEF Ble!AtMost
<1> QED
  BY <1>1, <1>2, <1>3 DEF Ble!AtMost

LEMMA BmBytes ==
  ASSUME NEW m \in BmMsg
  PROVE  /\ Ble!Bytes(m) \in Seq(BmByte) /\ Len(Ble!Bytes(m)) = m.len
         /\ \A a \in 0 .. m.len : /\ SubSeq(Ble!Bytes(m), 1, a) \in Seq(BmByte)
                                  /\ Len(SubSeq(Ble!Bytes(m), 1, a)) = a
                                  /\ \A i \in 1 .. a : SubSeq(Ble!Bytes(m), 1, a)[i] = Ble!Bytes(m)[i]
         /\ SubSeq(Ble!Bytes(m), 1, m.len) = Ble!Bytes(m)
<1>1. m.len \in Nat /\ Ble!Bytes(m) \in [1 .. m.len -> BmByte]
  BY DEF BmMsg, BmByte, Ble!Bytes, Ble!Byte
<1>2. Ble!Bytes(m) \in Seq(BmByte) /\ Len(Ble!Bytes(m)) = m.len
  BY <1>1
<1>3. ASSUME NEW a \in 0 .. m.len
      PROVE  /\ SubSeq(Ble!Bytes(m), 1, a) \in Seq(BmByte) /\ Len(SubSeq(Ble!Bytes(m), 1, a)) = a
             /\ \A i \in 1 .. a : SubSeq(Ble!Bytes(m), 1, a)[i] = Ble!Bytes(m)[i]
  BY <1>1, <1>2
<1>4. SubSeq(Ble!Bytes(m), 1, m.len) = Ble!Bytes(m)
  <2>1. m.len \in 0 .. m.len
    BY <1>1
  <2> QED
    BY <1>1, <1>2, <1>3, <2>1
<1> QED
  BY <1>2, <1>3, <1>4

\* The packets of a message, and the bytes of each.
LEMMA BmPackets ==
  ASSUME NEW m \in BmMsg
  PROVE  /\ Ble!Packets(m) \in Seq(BmPacket) /\ Len(Ble!Packets(m)) = Ble!Conts(m.len) + 1
         /\ Ble!Packets(m)[1] = [type |-> "first", total |-> m.len % Modulus,
                                 data |-> SubSeq(Ble!Bytes(m), 1, Ble!Upto(0, m.len))]
         /\ \A k \in 1 .. Ble!Conts(m.len) :
              LET q == Ble!Packets(m)[k + 1] IN
              /\ q.type # "first" /\ q.data \in Seq(BmByte)
              /\ Len(q.data) = Ble!Upto(k, m.len) - Ble!Upto(k - 1, m.len)
              /\ \A i \in 1 .. Len(q.data) : q.data[i] = Ble!Bytes(m)[Ble!Upto(k - 1, m.len) + i]
<1> DEFINE n == m.len
           b == Ble!Bytes(m)
           c == Ble!Conts(n)
<1>1. n \in Nat /\ c \in Nat
  BY BmConts DEF BmMsg
<1>2. b \in Seq(BmByte) /\ Len(b) = n
  BY BmBytes
<1>3. \A k \in 1 .. c + 1 :
        Ble!Packets(m)[k] = [type |-> IF k = 1 THEN "first" ELSE IF k = c + 1 THEN "last" ELSE "mid",
                             total |-> IF k = 1 THEN n % Modulus ELSE 0,
                             data |-> SubSeq(b, Ble!From(k - 1), Ble!Upto(k - 1, n))]
  BY <1>1 DEF Ble!Packets
<1>4. DOMAIN Ble!Packets(m) = 1 .. c + 1
  BY DEF Ble!Packets
<1> HIDE DEF b, c, n
<1>5. Ble!Packets(m)[1] = [type |-> "first", total |-> n % Modulus, data |-> SubSeq(b, 1, Ble!Upto(0, n))]
  <2>1. 1 \in 1 .. c + 1 /\ 1 - 1 = 0
    BY <1>1
  <2>2. Ble!From(0) = 1
    BY <1>1, BmBounds
  <2> QED
    BY <1>3, <2>1, <2>2
<1>6. Ble!Packets(m)[1] \in BmPacket
  <2>1. SubSeq(b, 1, Ble!Upto(0, n)) \in Seq(BmByte)
    BY <1>1, <1>2, BmBounds
  <2>2. n % Modulus \in Nat
    BY <1>1, BmRemainder, BmConstants
  <2> QED
    BY <1>5, <2>1, <2>2 DEF BmPacket
<1>7. ASSUME NEW k \in 1 .. c
      PROVE  LET q == Ble!Packets(m)[k + 1] IN
             /\ q \in BmPacket
             /\ q.type # "first" /\ q.data \in Seq(BmByte)
             /\ Len(q.data) = Ble!Upto(k, n) - Ble!Upto(k - 1, n)
             /\ \A i \in 1 .. Len(q.data) : q.data[i] = b[Ble!Upto(k - 1, n) + i]
  <2>1. PICK u \in Nat : u = Ble!Upto(k - 1, n)
    BY <1>1, BmBounds DEF c
  <2>2. PICK w \in Nat : w = Ble!Upto(k, n)
    BY <1>1, BmBounds DEF c
  <2>3. Ble!From(k) = u + 1 /\ u < w /\ w <= n
    BY <1>1, <2>1, <2>2, BmBounds DEF c
  <2>4. k + 1 \in 1 .. c + 1 /\ k + 1 # 1 /\ (k + 1) - 1 = k
    BY <1>1
  <2>5. PICK d \in Seq(BmByte) : d = SubSeq(b, u + 1, w) /\ Len(d) = w - u /\ \A i \in 1 .. w - u : d[i] = b[u + i]
    <3>1. SubSeq(b, u + 1, w) \in Seq(BmByte)
      BY <1>1, <1>2, <2>3
    <3>2. Len(SubSeq(b, u + 1, w)) = w - u
      BY <1>1, <1>2, <2>3
    <3>3. \A i \in 1 .. w - u : SubSeq(b, u + 1, w)[i] = b[u + i]
      <4> SUFFICES ASSUME NEW i \in 1 .. w - u PROVE SubSeq(b, u + 1, w)[i] = b[u + i]
        OBVIOUS
      <4>1. SubSeq(b, u + 1, w)[i] = b[i + (u + 1) - 1] /\ i + (u + 1) - 1 = u + i
        BY <1>1, <1>2, <2>3
      <4> QED
        BY <4>1
    <3> QED
      BY <3>1, <3>2, <3>3
  <2>6. PICK t \in {"last", "mid"} : Ble!Packets(m)[k + 1] = [type |-> t, total |-> 0, data |-> d]
    BY <1>3, <2>2, <2>3, <2>4, <2>5
  <2>7. Ble!Packets(m)[k + 1] \in BmPacket
    BY <2>6 DEF BmPacket
  <2> QED
    BY <2>1, <2>2, <2>5, <2>6, <2>7
<1>8. Ble!Packets(m) \in Seq(BmPacket) /\ Len(Ble!Packets(m)) = c + 1
  <2>1. \A k \in 1 .. c + 1 : Ble!Packets(m)[k] \in BmPacket
    <3>1. \A k \in 1 .. c + 1 : k = 1 \/ (k - 1 \in 1 .. c /\ (k - 1) + 1 = k)
      BY <1>1
    <3> QED
      BY <1>6, <1>7, <3>1
  <2>2. Ble!Packets(m) = [k \in 1 .. c + 1 |-> Ble!Packets(m)[k]]
    BY <1>4 DEF Ble!Packets, c, n
  <2>3. Ble!Packets(m) \in [1 .. c + 1 -> BmPacket]
    BY <2>1, <2>2
  <2> QED
    BY <1>1, <2>3
<1> QED
  BY <1>5, <1>7, <1>8 DEF b, c, n

-----------------------------------------------------------------------------
(* What arrives. *)

BmWhole(b) ==
  \E p \in Phone, no \in {0, 1}, n \in Lengths :
    \/ n < Modulus /\ b = Ble!Bytes([by |-> p, no |-> no, len |-> n])
    \/ n >= Modulus /\ b = SubSeq(Ble!Bytes([by |-> p, no |-> no, len |-> n]), 1, n % Modulus)

LEMMA BmWholeOf ==
  ASSUME NEW m \in BmMsg, m.len \in Lengths, NEW b,
         \/ m.len < Modulus /\ b = Ble!Bytes(m)
         \/ m.len >= Modulus /\ b = SubSeq(Ble!Bytes(m), 1, m.len % Modulus)
  PROVE  BmWhole(b)
<1>1. m = [by |-> m.by, no |-> m.no, len |-> m.len] /\ m.by \in Phone /\ m.no \in {0, 1}
  BY DEF BmMsg
<1>2. PICK p \in Phone, no \in {0, 1}, n \in Lengths : m = [by |-> p, no |-> no, len |-> n] /\ n = m.len
  BY <1>1
<1> QED
  BY <1>2, Zenon DEF BmWhole

LEMMA BmSame ==
  ASSUME NEW S, NEW s \in Seq(S), NEW t \in Seq(S), NEW w, Len(s) = w, Len(t) = w,
         \A i \in 1 .. w : s[i] = t[i]
  PROVE  s = t
OBVIOUS

\* A part of a message that is long enough is cut to the whole.
LEMMA BmEnds ==
  ASSUME NEW m \in BmMsg, m.len \in Lengths, NEW k \in 0 .. Ble!Conts(m.len), NEW a \in BmAsm,
         BmPart(a, m, k), Len(a.buf) >= a.total
  PROVE  BmWhole(Ble!Body(a))
<1>1. PICK n \in Nat : n = m.len
  BY DEF BmMsg
<1>2. PICK u \in 0 .. n : u = Ble!Upto(k, n)
  <2>1. k = 0 \/ k \in 1 .. Ble!Conts(n)
    BY <1>1, BmConts
  <2>2. CASE k = 0
    BY <2>2, BmBounds
  <2>3. CASE k \in 1 .. Ble!Conts(n)
    <3>1. Ble!Upto(k, n) \in Nat /\ Ble!Upto(k, n) <= n
      BY <2>3, BmBounds
    <3> QED
      BY <3>1
  <2> QED
    BY <2>1, <2>2, <2>3
<1>3. a.total \in Nat /\ a.total = n % Modulus
  BY <1>1, BmConstants DEF BmAsm, BmPart
<1>4. n < Modulus => a.total = n
  BY <1>3, BmRemainder
<1>5. a.buf = SubSeq(Ble!Bytes(m), 1, u)
  <2>1. a.buf = SubSeq(Ble!Bytes(m), 1, u) \/ (n < Modulus /\ Len(a.buf) < u)
    BY <1>1, <1>2 DEF BmPart
  <2>2. Len(a.buf) \in Nat
    BY DEF BmAsm
  <2> QED
    BY <1>2, <1>3, <1>4, <2>1, <2>2
<1>6. /\ a.buf \in Seq(BmByte) /\ Len(a.buf) = u /\ u >= a.total
      /\ \A i \in 1 .. u : a.buf[i] = Ble!Bytes(m)[i]
  BY <1>1, <1>2, <1>5, BmBytes
<1>7. Ble!Body(a) = SubSeq(a.buf, 1, a.total)
  BY <1>2, <1>3, <1>6 DEF Ble!Body, Ble!AtMost
<1>8. a.total \in 0 .. n
  BY <1>2, <1>3, <1>6
<1>9. Ble!Body(a) = SubSeq(Ble!Bytes(m), 1, a.total)
  <2>1. /\ SubSeq(Ble!Bytes(m), 1, a.total) \in Seq(BmByte) /\ Len(SubSeq(Ble!Bytes(m), 1, a.total)) = a.total
        /\ \A i \in 1 .. a.total : SubSeq(Ble!Bytes(m), 1, a.total)[i] = Ble!Bytes(m)[i]
    BY <1>1, <1>8, BmBytes
  <2>2. /\ Ble!Body(a) \in Seq(BmByte) /\ Len(Ble!Body(a)) = a.total
        /\ \A i \in 1 .. a.total : Ble!Body(a)[i] = a.buf[i]
    BY <1>2, <1>3, <1>6, <1>7
  <2>3. \A i \in 1 .. a.total : a.buf[i] = Ble!Bytes(m)[i]
    BY <1>2, <1>3, <1>6
  <2> QED
    BY <1>3, <2>1, <2>2, <2>3
<1>10. CASE n < Modulus
  BY <1>1, <1>4, <1>9, <1>10, BmBytes, BmWholeOf
<1>11. CASE n >= Modulus
  BY <1>1, <1>3, <1>9, <1>11, BmWholeOf
<1> QED
  BY <1>10, <1>11, BmConstants

LEMMA BmAdded ==
  ASSUME NEW a \in BmAsm, NEW q \in BmPacket
  PROVE  Ble!Added(a, q) \in BmAsm
<1>1. CASE q.type = "first" /\ q.total > MaxMsg
  <2>1. Ble!Added(a, q) = [active |-> FALSE, total |-> 0, buf |-> <<>>]
    BY <1>1 DEF Ble!Added, Ble!Empty
  <2>2. 0 \in 0 .. MaxMsg /\ <<>> \in Seq(BmByte)
    BY BmConstants
  <2> QED
    BY <2>1, <2>2 DEF BmAsm
<1>2. CASE q.type = "first" /\ ~(q.total > MaxMsg)
  <2>1. Ble!Added(a, q) = [active |-> TRUE, total |-> q.total, buf |-> q.data]
    BY <1>2 DEF Ble!Added, Ble!Restart
  <2>2. q.total \in 0 .. MaxMsg /\ q.data \in Seq(BmByte)
    BY <1>2, BmConstants DEF BmPacket
  <2> QED
    BY <2>1, <2>2 DEF BmAsm
<1>3. CASE q.type # "first"
  <2>1. Ble!Added(a, q) = IF a.active THEN [a EXCEPT !.buf = @ \o q.data] ELSE a
    BY <1>3 DEF Ble!Added
  <2>2. a.buf \o q.data \in Seq(BmByte)
    BY DEF BmAsm, BmPacket
  <2> QED
    BY <2>1, <2>2 DEF BmAsm
<1> QED
  BY <1>1, <1>2, <1>3

\* The first packet of a message begins the assembly anew.
LEMMA BmFirst ==
  ASSUME NEW m \in BmMsg, NEW a, Ble!Added(a, Ble!Packets(m)[1]).active
  PROVE  BmPart(Ble!Added(a, Ble!Packets(m)[1]), m, 0)
<1>1. PICK n : n = m.len % Modulus
  OBVIOUS
<1>2. PICK d : d = SubSeq(Ble!Bytes(m), 1, Ble!Upto(0, m.len))
  OBVIOUS
<1>3. PICK q : q = Ble!Packets(m)[1]
  OBVIOUS
<1>4. q = [type |-> "first", total |-> n, data |-> d]
  BY <1>1, <1>2, <1>3, BmPackets, Zenon
<1>5. q.type = "first" /\ q.total = n /\ q.data = d
  BY <1>4
<1>6. ~(q.total > MaxMsg)
  BY <1>3, <1>5 DEF Ble!Added, Ble!Empty
<1>7. Ble!Added(a, q) = [active |-> TRUE, total |-> n, buf |-> d]
  BY <1>5, <1>6 DEF Ble!Added, Ble!Restart
<1>8. Ble!Added(a, q).total = n /\ Ble!Added(a, q).buf = d
  BY <1>7
<1> QED
  BY <1>1, <1>2, <1>3, <1>8, Zenon DEF BmPart

LEMMA BmConcat ==
  ASSUME NEW S, NEW s \in Seq(S), NEW t \in Seq(S)
  PROVE  /\ s \o t \in Seq(S) /\ Len(s \o t) = Len(s) + Len(t)
         /\ \A i \in 1 .. Len(s) : (s \o t)[i] = s[i]
         /\ \A i \in 1 .. Len(t) : (s \o t)[Len(s) + i] = t[i]
OBVIOUS

\* Any other packet continues it.
LEMMA BmContinues ==
  ASSUME NEW m \in BmMsg, NEW k \in 1 .. Ble!Conts(m.len), NEW a \in BmAsm, BmPart(a, m, k - 1), a.active
  PROVE  BmPart(Ble!Added(a, Ble!Packets(m)[k + 1]), m, k)
<1>1. PICK n \in Nat : n = m.len
  BY DEF BmMsg
<1>2. PICK u \in Nat : u = Ble!Upto(k - 1, n)
  BY <1>1, BmBounds
<1>3. PICK w \in Nat : w = Ble!Upto(k, n) /\ u < w /\ w <= n
  BY <1>1, <1>2, BmBounds
<1>4. PICK q : q = Ble!Packets(m)[k + 1]
  OBVIOUS
<1>5. /\ q.type # "first" /\ q.data \in Seq(BmByte) /\ Len(q.data) = w - u
      /\ \A i \in 1 .. Len(q.data) : q.data[i] = Ble!Bytes(m)[u + i]
  BY <1>1, <1>2, <1>3, <1>4, BmPackets
<1>6. PICK d \in Seq(BmByte) : d = q.data /\ Len(d) = w - u /\ \A i \in 1 .. w - u : d[i] = Ble!Bytes(m)[u + i]
  BY <1>2, <1>3, <1>5
<1>7. a.buf \in Seq(BmByte)
  BY DEF BmAsm
<1>8. PICK s \in Seq(BmByte) : /\ s = a.buf \o d /\ Len(s) = Len(a.buf) + (w - u)
                               /\ \A i \in 1 .. Len(a.buf) : s[i] = a.buf[i]
                               /\ \A i \in 1 .. w - u : s[Len(a.buf) + i] = d[i]
  <2>1. PICK b \in Seq(BmByte) : b = a.buf /\ Len(b) \in Nat
    BY <1>7
  <2>2. /\ b \o d \in Seq(BmByte) /\ Len(b \o d) = Len(b) + Len(d)
        /\ \A i \in 1 .. Len(b) : (b \o d)[i] = b[i]
        /\ \A i \in 1 .. Len(d) : (b \o d)[Len(b) + i] = d[i]
    BY BmConcat
  <2>3. Len(d) = w - u
    BY <1>6
  <2> QED
    BY <2>1, <2>2, <2>3
<1>9. Ble!Added(a, q).total = a.total /\ Ble!Added(a, q).buf = s
  <2>1. Ble!Added(a, q) = [a EXCEPT !.buf = @ \o q.data]
    BY <1>5 DEF Ble!Added
  <2> QED
    BY <1>6, <1>8, <2>1 DEF BmAsm
<1>10. a.total = n % Modulus
  BY <1>1 DEF BmPart
<1>11. CASE a.buf = SubSeq(Ble!Bytes(m), 1, u)
  <2>1. Len(a.buf) = u /\ \A i \in 1 .. u : a.buf[i] = Ble!Bytes(m)[i]
    BY <1>1, <1>2, <1>3, <1>11, BmBytes
  <2>2. Len(s) = w
    BY <1>2, <1>3, <1>8, <2>1
  <2>3. ASSUME NEW i \in 1 .. w PROVE s[i] = Ble!Bytes(m)[i]
    <3>1. CASE i <= u
      BY <1>8, <2>1, <3>1
    <3>2. CASE i > u
      <4>1. PICK j \in 1 .. w - u : i = u + j
        <5>1. i - u \in 1 .. w - u /\ i = u + (i - u)
          BY <1>2, <1>3, <3>2
        <5> QED
          BY <5>1
      <4>2. s[u + j] = d[j]
        BY <1>8, <2>1
      <4>3. d[j] = Ble!Bytes(m)[u + j]
        BY <1>6
      <4> QED
        BY <4>1, <4>2, <4>3
    <3> QED
      BY <1>2, <3>1, <3>2
  <2>4. /\ SubSeq(Ble!Bytes(m), 1, w) \in Seq(BmByte) /\ Len(SubSeq(Ble!Bytes(m), 1, w)) = w
        /\ \A i \in 1 .. w : SubSeq(Ble!Bytes(m), 1, w)[i] = Ble!Bytes(m)[i]
    BY <1>1, <1>3, BmBytes
  <2>5. s = SubSeq(Ble!Bytes(m), 1, w)
    <3>1. \A i \in 1 .. w : s[i] = SubSeq(Ble!Bytes(m), 1, w)[i]
      BY <2>3, <2>4
    <3> QED
      BY <2>2, <2>4, <3>1, BmSame
  <2> QED
    BY <1>1, <1>3, <1>4, <1>9, <1>10, <2>5 DEF BmPart
<1>12. CASE n < Modulus /\ Len(a.buf) < u
  <2>1. Len(a.buf) \in Nat
    BY <1>7
  <2>2. Len(s) < w
    BY <1>2, <1>3, <1>8, <1>12, <2>1
  <2> QED
    BY <1>1, <1>3, <1>4, <1>9, <1>10, <1>12, <2>2 DEF BmPart
<1> QED
  BY <1>1, <1>2, <1>11, <1>12 DEF BmPart

-----------------------------------------------------------------------------
(* The steps. *)

\* A phone that is amid a message: the packet it sends next, and what it has to send after it.
LEMMA BmAmid ==
  ASSUME BmInv, NEW p \in Phone, Ble!Amid(p), Ble!Sent(p)
  PROVE  /\ phone'[p].msg = phone[p].msg /\ phone[p].msg \in BmMsg /\ phone[p].msg.len \in Lengths
         /\ phone' \in [Phone -> [msg : BmMsg, rest : Seq(BmPacket)]]
         /\ \A q \in Phone \ {p} : phone'[q] = phone[q] /\ phone[q].rest = <<>>
         /\ \E k \in 0 .. Ble!Conts(phone[p].msg.len) :
              /\ BmSent(phone[p]) = k /\ BmSent(phone'[p]) = k + 1
              /\ Head(phone[p].rest) = Ble!Packets(phone[p].msg)[k + 1] /\ Head(phone[p].rest) \in BmPacket
         /\ \A q \in Phone : BmRest(phone'[q])
         /\ \A q, r \in Phone : Ble!Amid(q)' /\ Ble!Amid(r)' => q = r
<1> DEFINE m == phone[p].msg
           s == phone[p].rest
           t == phone'[p].rest
<1>1. /\ phone \in [Phone -> [msg : BmMsg, rest : Seq(BmPacket)]]
      /\ phone' = [phone EXCEPT ![p].rest = Tail(@)] /\ s # <<>> /\ s \in Seq(BmPacket) /\ m \in BmMsg
  BY DEF BmInv, BmTyped, Ble!Amid, Ble!Sent
<1>2. /\ Tail(s) \in Seq(BmPacket) /\ Head(s) = s[1] /\ Head(s) \in BmPacket /\ Len(s) \in Nat /\ Len(s) > 0
      /\ Len(Tail(s)) = Len(s) - 1 /\ \A i \in 1 .. Len(s) - 1 : Tail(s)[i] = s[i + 1]
  BY <1>1
<1>3. /\ phone' \in [Phone -> [msg : BmMsg, rest : Seq(BmPacket)]]
      /\ phone'[p].msg = m /\ t = Tail(s)
      /\ \A q \in Phone \ {p} : phone'[q] = phone[q]
  BY <1>1, <1>2
<1>4. \A q \in Phone \ {p} : phone[q].rest = <<>>
  BY DEF BmInv, Ble!Amid
<1>5. BmRest(phone[p]) /\ m.len \in Lengths
  BY <1>1 DEF BmInv, BmRest
<1>6. PICK c \in Nat : c = Ble!Conts(m.len)
  BY <1>1, BmConts DEF BmMsg
<1>7. Len(s) <= c + 1 /\ BmSent(phone[p]) = c + 1 - Len(s) /\ BmSent(phone'[p]) = c + 1 - Len(t)
  BY <1>3, <1>5, <1>6 DEF BmRest, BmSent
<1>8. PICK k \in 0 .. c : k = c + 1 - Len(s)
  BY <1>2, <1>7
<1>9. BmSent(phone[p]) = k /\ BmSent(phone'[p]) = k + 1 /\ Len(s) = c + 1 - k /\ Len(t) = c - k
  <2>1. Len(s) = c + 1 - k /\ BmSent(phone[p]) = k
    BY <1>2, <1>7, <1>8
  <2>2. Len(t) = Len(s) - 1
    BY <1>2, <1>3
  <2> QED
    BY <1>7, <2>1, <2>2
<1>10. \A i \in 1 .. Len(s) : s[i] = Ble!Packets(m)[i + k]
  BY <1>5, <1>9 DEF BmRest
<1>11. Head(s) = Ble!Packets(m)[k + 1]
  BY <1>2, <1>10
<1>12. BmRest(phone'[p])
  <2>1. \A i \in 1 .. Len(t) : t[i] = Ble!Packets(m)[i + (k + 1)]
    <3> SUFFICES ASSUME NEW i \in 1 .. Len(t) PROVE t[i] = Ble!Packets(m)[i + (k + 1)]
      OBVIOUS
    <3>1. i \in 1 .. Len(s) - 1 /\ i + 1 \in 1 .. Len(s) /\ (i + 1) + k = i + (k + 1)
      BY <1>9
    <3> QED
      BY <1>2, <1>3, <1>10, <3>1
  <2>2. Len(t) <= c + 1
    BY <1>9
  <2> QED
    BY <1>3, <1>5, <1>6, <1>9, <2>1, <2>2 DEF BmRest
<1>13. \A q \in Phone : BmRest(phone'[q])
  BY <1>3, <1>12 DEF BmInv
<1>14. \A q, r \in Phone : Ble!Amid(q)' /\ Ble!Amid(r)' => q = r
  BY <1>3, <1>4 DEF Ble!Amid
<1> QED
  BY <1>1, <1>2, <1>3, <1>4, <1>5, <1>6, <1>9, <1>11, <1>13, <1>14

LEMMA BmWholeEq == Ble!WholeOrNothing <=> (body.is /\ ~harm => BmWhole(body.bytes))
BY Zenon DEF Ble!WholeOrNothing, BmWhole

LEMMA BmTransmits == ASSUME BmInv, NEW p \in Phone, Ble!Transmit(p) PROVE BmInv'
<1>1. Ble!Amid(p) /\ Ble!Sent(p) /\ Ble!Arrives(Head(phone[p].rest)) /\ harm' = harm
  BY DEF Ble!Transmit
<1>2. PICK m \in BmMsg : m = phone[p].msg /\ m = phone'[p].msg /\ m.len \in Lengths
  BY <1>1, BmAmid
<1>3. PICK k \in 0 .. Ble!Conts(m.len) :
        /\ BmSent(phone[p]) = k /\ BmSent(phone'[p]) = k + 1
        /\ Head(phone[p].rest) = Ble!Packets(m)[k + 1] /\ Head(phone[p].rest) \in BmPacket
  BY <1>1, <1>2, BmAmid
<1>4. /\ phone' \in [Phone -> [msg : BmMsg, rest : Seq(BmPacket)]]
      /\ \A q \in Phone \ {p} : phone'[q].rest = <<>>
      /\ \A q \in Phone : BmRest(phone'[q])
      /\ \A q, r \in Phone : Ble!Amid(q)' /\ Ble!Amid(r)' => q = r
  BY <1>1, BmAmid
<1>5. asm \in BmAsm /\ harm \in BOOLEAN
  BY DEF BmInv, BmTyped
<1>6. PICK a \in BmAsm : a = Ble!Added(asm, Ble!Packets(m)[k + 1])
  BY <1>3, <1>5, BmAdded
<1>7. ASSUME ~harm, a.active PROVE BmPart(a, m, k)
  <2>1. CASE k = 0
    <3>1. a = Ble!Added(asm, Ble!Packets(m)[1])
      BY <1>6, <2>1
    <3> QED
      BY <1>7, <2>1, <3>1, BmFirst
  <2>2. CASE k \in 1 .. Ble!Conts(m.len)
    <3>1. Ble!Packets(m)[k + 1].type # "first"
      BY <2>2, BmPackets
    <3>2. asm.active
      BY <1>6, <1>7, <3>1 DEF Ble!Added
    <3>3. phone[p].rest # <<>> /\ BmSent(phone[p]) >= 1 /\ BmHeld(asm, phone[p])
      BY <1>1, <1>3, <1>7, <2>2 DEF Ble!Amid, BmInv
    <3>4. BmPart(asm, m, k - 1)
      BY <1>2, <1>3, <3>2, <3>3 DEF BmHeld
    <3> QED
      BY <1>5, <1>6, <2>2, <3>2, <3>4, BmContinues
  <2>3. Ble!Conts(m.len) \in Nat
    BY BmConts DEF BmMsg
  <2> QED
    BY <2>1, <2>2, <2>3
<1>9. \/ ~(a.active /\ Len(a.buf) >= a.total) /\ asm' = a /\ body' = body
      \/ a.active /\ Len(a.buf) >= a.total /\ asm' = Ble!Empty /\ body' = [is |-> TRUE, bytes |-> Ble!Body(a)]
  BY <1>1, <1>3, <1>6 DEF Ble!Arrives, Ble!Ends
<1>10. CASE ~(a.active /\ Len(a.buf) >= a.total) /\ asm' = a /\ body' = body
  <2>1. BmTyped'
    <3>1. a.active => Len(a.buf) < a.total
      <4>1. Len(a.buf) \in Nat /\ a.total \in Nat
        BY BmConstants DEF BmAsm
      <4> QED
        BY <1>10, <4>1
    <3> QED
      BY <1>1, <1>4, <1>5, <1>10, <3>1 DEF BmTyped
  <2>2. ASSUME ~harm', NEW q \in Phone PROVE BmHeld(asm', phone'[q])
    <3>1. CASE q = p
      <4>1. (k + 1) - 1 = k
        OBVIOUS
      <4>2. a.active => BmPart(a, m, k)
        BY <1>1, <1>7, <2>2
      <4> QED
        BY <1>2, <1>3, <1>10, <3>1, <4>1, <4>2 DEF BmHeld
    <3>2. CASE q # p
      BY <1>4, <3>2 DEF BmHeld
    <3> QED
      BY <3>1, <3>2
  <2>3. Ble!WholeOrNothing'
    BY <1>1, <1>10 DEF BmInv, Ble!WholeOrNothing
  <2> QED
    BY <1>4, <2>1, <2>2, <2>3 DEF BmInv
<1>11. CASE a.active /\ Len(a.buf) >= a.total /\ asm' = Ble!Empty /\ body' = [is |-> TRUE, bytes |-> Ble!Body(a)]
  <2>1. asm' \in BmAsm /\ ~asm'.active
    BY <1>11, BmConstants DEF Ble!Empty, BmAsm
  <2>2. BmTyped'
    BY <1>1, <1>4, <1>5, <2>1 DEF BmTyped
  <2>3. \A q \in Phone : BmHeld(asm', phone'[q])
    BY <2>1 DEF BmHeld
  <2>4. ~harm => BmWhole(Ble!Body(a))
    BY <1>2, <1>7, <1>11, BmEnds
  <2>5. Ble!WholeOrNothing'
    BY <1>1, <1>11, <2>4 DEF Ble!WholeOrNothing, BmWhole
  <2> QED
    BY <1>4, <2>2, <2>3, <2>5 DEF BmInv
<1> QED
  BY <1>9, <1>10, <1>11

LEMMA BmLoses == ASSUME BmInv, NEW p \in Phone, Ble!Lose(p) PROVE BmInv'
<1>1. Ble!Amid(p) /\ Ble!Sent(p) /\ harm' = (harm \/ Ble!Unnoticed(p)) /\ asm' = asm /\ body' = body
  BY DEF Ble!Lose
<1>2. PICK m \in BmMsg : m = phone[p].msg /\ m = phone'[p].msg /\ m.len \in Lengths
  BY <1>1, BmAmid
<1>3. PICK k \in 0 .. Ble!Conts(m.len) :
        /\ BmSent(phone[p]) = k /\ BmSent(phone'[p]) = k + 1
        /\ Head(phone[p].rest) = Ble!Packets(m)[k + 1]
  BY <1>1, <1>2, BmAmid
<1>4. /\ phone' \in [Phone -> [msg : BmMsg, rest : Seq(BmPacket)]]
      /\ \A q \in Phone \ {p} : phone'[q].rest = <<>>
      /\ \A q \in Phone : BmRest(phone'[q])
      /\ \A q, r \in Phone : Ble!Amid(q)' /\ Ble!Amid(r)' => q = r
  BY <1>1, BmAmid
<1>5. asm \in BmAsm /\ harm \in BOOLEAN /\ (asm.active => Len(asm.buf) < asm.total)
  BY DEF BmInv, BmTyped
<1>6. harm' \in BOOLEAN /\ (~harm' => ~harm /\ ~Ble!Unnoticed(p))
  BY <1>1
<1>7. BmTyped'
  BY <1>1, <1>4, <1>5, <1>6 DEF BmTyped
<1>8. ASSUME ~harm', asm.active PROVE BmPart(asm, m, k)
  <2>1. Head(phone[p].rest).type # "first" /\ ~(m.len >= Modulus)
    BY <1>2, <1>6, <1>8 DEF Ble!Unnoticed
  <2>2. PICK n \in Nat : n = m.len /\ n < Modulus
    BY <2>1, BmConstants DEF BmMsg
  <2>3. k # 0
    <3>1. CASE k = 0
      <4>1. Head(phone[p].rest) = Ble!Packets(m)[1]
        BY <1>3, <3>1
      <4>2. Ble!Packets(m)[1] = [type |-> "first", total |-> m.len % Modulus,
                                 data |-> SubSeq(Ble!Bytes(m), 1, Ble!Upto(0, m.len))]
        BY BmPackets, Zenon
      <4>3. Ble!Packets(m)[1].type = "first"
        BY <4>2
      <4> QED
        BY <2>1, <4>1, <4>3
    <3> QED
      BY <3>1
  <2>4. k \in 1 .. Ble!Conts(m.len)
    BY <2>2, <2>3, BmConts
  <2>5. phone[p].rest # <<>> /\ BmSent(phone[p]) >= 1 /\ BmHeld(asm, phone[p])
    BY <1>1, <1>3, <1>6, <1>8, <2>4 DEF Ble!Amid, BmInv
  <2>6. BmPart(asm, m, k - 1)
    BY <1>2, <1>3, <1>8, <2>5 DEF BmHeld
  <2>7. PICK u \in Nat, w \in Nat : u = Ble!Upto(k - 1, n) /\ w = Ble!Upto(k, n) /\ u < w /\ w <= n
    BY <2>2, <2>4, BmBounds
  <2>8. Len(asm.buf) < w
    <3>1. Len(asm.buf) \in Nat
      BY <1>5 DEF BmAsm
    <3>2. asm.buf = SubSeq(Ble!Bytes(m), 1, u) \/ Len(asm.buf) < u
      BY <2>2, <2>6, <2>7 DEF BmPart
    <3>3. Len(SubSeq(Ble!Bytes(m), 1, u)) = u
      BY <2>2, <2>7, BmBytes
    <3> QED
      BY <2>7, <3>1, <3>2, <3>3
  <2>9. asm.total = m.len % Modulus
    BY <2>6 DEF BmPart
  <2> QED
    BY <2>2, <2>7, <2>8, <2>9 DEF BmPart
<1>9. ASSUME ~harm', NEW q \in Phone PROVE BmHeld(asm', phone'[q])
  <2>1. CASE q = p
    <3>1. (k + 1) - 1 = k
      OBVIOUS
    <3>2. asm.active => BmPart(asm, m, k)
      BY <1>8, <1>9
    <3> QED
      BY <1>1, <1>2, <1>3, <2>1, <3>1, <3>2 DEF BmHeld
  <2>2. CASE q # p
    BY <1>4, <2>2 DEF BmHeld
  <2> QED
    BY <2>1, <2>2
<1>10. Ble!WholeOrNothing'
  BY <1>1, <1>6 DEF BmInv, Ble!WholeOrNothing
<1> QED
  BY <1>4, <1>7, <1>9, <1>10 DEF BmInv

LEMMA BmLeaves == ASSUME BmInv, NEW p \in Phone, Ble!Leave(p) PROVE BmInv'
<1>1. phone' = [phone EXCEPT ![p].rest = <<>>] /\ asm' = asm /\ body' = body /\ harm' = harm
  BY DEF Ble!Leave
<1>2. phone \in [Phone -> [msg : BmMsg, rest : Seq(BmPacket)]]
  BY DEF BmInv, BmTyped
<1>3. /\ phone' \in [Phone -> [msg : BmMsg, rest : Seq(BmPacket)]]
      /\ phone'[p].msg = phone[p].msg /\ phone'[p].rest = <<>>
      /\ \A q \in Phone \ {p} : phone'[q] = phone[q]
  <2>1. <<>> \in Seq(BmPacket)
    OBVIOUS
  <2>2. phone' = [phone EXCEPT ![p] = [phone[p] EXCEPT !.rest = <<>>]]
    BY <1>1
  <2>3. PICK f : f = [phone[p] EXCEPT !.rest = <<>>]
    OBVIOUS
  <2>4. f \in [msg : BmMsg, rest : Seq(BmPacket)] /\ f.msg = phone[p].msg /\ f.rest = <<>>
    BY <1>2, <2>1, <2>3
  <2> QED
    BY <1>2, <2>2, <2>3, <2>4
<1>4. BmTyped'
  BY <1>1, <1>3 DEF BmInv, BmTyped
<1>5. BmRest(phone'[p])
  <2>1. Len(<<>>) = 0 /\ Ble!Conts(phone'[p].msg.len) \in Nat
    BY <1>2, <1>3, BmConts DEF BmMsg
  <2>2. Len(phone'[p].rest) = 0
    BY <1>3, <2>1
  <2> QED
    BY <1>3, <2>1, <2>2 DEF BmRest
<1>6. \A q \in Phone : BmRest(phone'[q])
  BY <1>3, <1>5 DEF BmInv
<1>7. \A q, r \in Phone : Ble!Amid(q)' /\ Ble!Amid(r)' => q = r
  BY <1>3 DEF BmInv, Ble!Amid
<1>8. ASSUME ~harm', NEW q \in Phone PROVE BmHeld(asm', phone'[q])
  BY <1>1, <1>3, <1>8 DEF BmInv, BmHeld
<1>9. Ble!WholeOrNothing'
  BY <1>1 DEF BmInv, Ble!WholeOrNothing
<1> QED
  BY <1>4, <1>6, <1>7, <1>8, <1>9 DEF BmInv

LEMMA BmBegins == ASSUME BmInv, NEW p \in Phone, NEW n \in Lengths, Ble!Begin(p, n) PROVE BmInv'
<1>1. PICK m : m = [by |-> p, no |-> 1 - phone[p].msg.no, len |-> n]
  OBVIOUS
<1>2. /\ \A q \in Phone : ~Ble!Amid(q)
      /\ phone' = [phone EXCEPT ![p] = [msg |-> m, rest |-> Ble!Packets(m)]]
      /\ asm' = asm /\ body' = body /\ harm' = harm
  BY <1>1 DEF Ble!Begin
<1>3. phone \in [Phone -> [msg : BmMsg, rest : Seq(BmPacket)]]
  BY DEF BmInv, BmTyped
<1>4. m \in BmMsg /\ m.len = n
  <2>1. 1 - phone[p].msg.no \in {0, 1}
    BY <1>3 DEF BmMsg
  <2>2. n \in Nat
    BY BmConstants
  <2> QED
    BY <1>1, <2>1, <2>2 DEF BmMsg
<1>5. /\ Ble!Packets(m) \in Seq(BmPacket) /\ Len(Ble!Packets(m)) = Ble!Conts(n) + 1 /\ Ble!Conts(n) \in Nat
  BY <1>4, BmPackets, BmConts DEF BmMsg
<1>6. /\ phone' \in [Phone -> [msg : BmMsg, rest : Seq(BmPacket)]]
      /\ phone'[p].msg = m /\ phone'[p].rest = Ble!Packets(m)
      /\ \A q \in Phone \ {p} : phone'[q] = phone[q]
  BY <1>2, <1>3, <1>4, <1>5
<1>7. BmTyped'
  BY <1>2, <1>6 DEF BmInv, BmTyped
<1>8. BmSent(phone'[p]) = 0
  BY <1>4, <1>5, <1>6 DEF BmSent
<1>9. BmRest(phone'[p])
  <2>1. \A i \in 1 .. Len(Ble!Packets(m)) : i + 0 = i
    BY <1>5
  <2> QED
    BY <1>4, <1>5, <1>6, <1>8, <2>1 DEF BmRest
<1>10. \A q \in Phone : BmRest(phone'[q])
  BY <1>6, <1>9 DEF BmInv
<1>11. \A q \in Phone \ {p} : phone'[q].rest = <<>>
  BY <1>2, <1>6 DEF Ble!Amid
<1>12. \A q, r \in Phone : Ble!Amid(q)' /\ Ble!Amid(r)' => q = r
  BY <1>11 DEF Ble!Amid
<1>13. ASSUME NEW q \in Phone PROVE BmHeld(asm', phone'[q])
  <2>1. CASE q = p
    BY <1>8, <2>1 DEF BmHeld
  <2>2. CASE q # p
    BY <1>11, <2>2 DEF BmHeld
  <2> QED
    BY <2>1, <2>2
<1>14. Ble!WholeOrNothing'
  BY <1>2 DEF BmInv, Ble!WholeOrNothing
<1> QED
  BY <1>7, <1>10, <1>12, <1>13, <1>14 DEF BmInv

LEMMA BmInitInv == Ble!BleInit => BmInv
<1> SUFFICES ASSUME Ble!BleInit PROVE BmInv
  OBVIOUS
<1>1. /\ phone = [p \in Phone |-> [msg |-> [by |-> p, no |-> 0, len |-> 0], rest |-> <<>>]]
      /\ asm = [active |-> FALSE, total |-> 0, buf |-> <<>>] /\ ~body.is /\ harm = FALSE
  BY DEF Ble!BleInit, Ble!Empty
<1>0. ASSUME NEW p \in Phone
      PROVE  [msg |-> [by |-> p, no |-> 0, len |-> 0], rest |-> <<>>] \in [msg : BmMsg, rest : Seq(BmPacket)]
  <2>1. [by |-> p, no |-> 0, len |-> 0] \in BmMsg
    BY DEF BmMsg
  <2>2. <<>> \in Seq(BmPacket)
    OBVIOUS
  <2> QED
    BY <2>1, <2>2
<1>2. \A p \in Phone : phone[p].msg \in BmMsg /\ phone[p].rest = <<>> /\ Len(phone[p].rest) = 0
  <2> SUFFICES ASSUME NEW p \in Phone PROVE phone[p].msg \in BmMsg /\ phone[p].rest = <<>> /\ Len(phone[p].rest) = 0
    OBVIOUS
  <2>1. phone[p].rest = <<>> /\ phone[p].msg = [by |-> p, no |-> 0, len |-> 0]
    BY <1>1
  <2>2. Len(<<>>) = 0
    OBVIOUS
  <2>3. [by |-> p, no |-> 0, len |-> 0] \in BmMsg
    BY DEF BmMsg
  <2> QED
    BY <2>1, <2>2, <2>3
<1>3. phone \in [Phone -> [msg : BmMsg, rest : Seq(BmPacket)]]
  BY <1>0, <1>1
<1>4. asm \in BmAsm /\ ~asm.active
  BY <1>1, BmConstants DEF BmAsm
<1>5. BmTyped
  BY <1>1, <1>3, <1>4 DEF BmTyped
<1>6. ASSUME NEW p \in Phone PROVE BmRest(phone[p])
  <2>1. Ble!Conts(phone[p].msg.len) \in Nat
    BY <1>2, BmConts DEF BmMsg
  <2> QED
    BY <1>2, <2>1 DEF BmRest
<1>7. \A p \in Phone : ~Ble!Amid(p) /\ BmHeld(asm, phone[p])
  BY <1>2 DEF Ble!Amid, BmHeld
<1>8. Ble!WholeOrNothing
  BY <1>1 DEF Ble!WholeOrNothing
<1> QED
  BY <1>5, <1>6, <1>7, <1>8 DEF BmInv

LEMMA BmStep == ASSUME BmInv, Ble!BleNext PROVE BmInv'
<1>1. PICK p \in Phone : Ble!Transmit(p) \/ Ble!Lose(p) \/ Ble!Leave(p) \/ \E n \in Lengths : Ble!Begin(p, n)
  BY Zenon DEF Ble!BleNext
<1> QED
  BY <1>1, BmTransmits, BmLoses, BmLeaves, BmBegins, Zenon

LEMMA BmStutters == ASSUME BmInv, UNCHANGED bleVars PROVE BmInv'
<1>1. phone' = phone /\ asm' = asm /\ body' = body /\ harm' = harm
  BY DEF bleVars
<1> QED
  BY <1>1 DEF BmInv, BmTyped, Ble!Amid, Ble!WholeOrNothing

LEMMA BmIsSafe == BmInv => Ble!BleSafe
BY DEF BmInv, BmTyped, BmAsm, Ble!BleSafe, Ble!BleTypeOK

(***************************************************************************)
(* nvr_ble.c: what is dispatched is all the bytes of one message, or       *)
(* nothing is, whichever packets are lost and whoever leaves: for any      *)
(* phones, lengths, sizes of packets and width of the length.              *)
(***************************************************************************)
THEOREM MessagesAreWhole == BoxSpec => []BleSafe
<1>1. BoxInit => BmInv
  BY BmInitInv, Zenon DEF BoxInit
<1>2. BmInv /\ [BoxNext]_boxVars => BmInv'
  <2> SUFFICES ASSUME BmInv, [BoxNext]_boxVars PROVE BmInv'
    OBVIOUS
  <2>1. CASE UNCHANGED bleVars
    BY <2>1, BmStutters, Zenon
  <2>2. CASE Ble!BleNext
    BY <2>2, BmStep, Zenon
  <2> QED
    BY <2>1, <2>2, Zenon DEF BoxNext, boxVars
<1>3. BmInv => BleSafe
  BY BmIsSafe, Zenon DEF BleSafe
<1> QED
  BY <1>1, <1>2, <1>3, PTL DEF BoxSpec
================================================================================
