---------------------------- MODULE Cameras_proofs ----------------------------
(***************************************************************************)
(* Proofs about the parts of MCCameras.  The patrol is proved of its own   *)
(* specification, the others of their part of the box, for all that its    *)
(* assumption lets the constants be.  Each has an invariant of its own, of *)
(* which no step of another part changes a variable.                       *)
(***************************************************************************)
EXTENDS MCCameras, FiniteSetTheorems, WellFoundedInduction, NaturalsInduction, TLAPS

\* Of numbers there is a least, which is what a search for the first slot returns.
LEMMA Least == ASSUME NEW S \in SUBSET Nat, S # {} PROVE \E n \in S : \A m \in S : n <= m
<1>1. PICK n \in S : \A m \in S : <<m, n>> \notin OpToRel(<, Nat)
  BY NatLessThanWellFounded, WFMin
<1>2. \A m \in S : n <= m
  <2> SUFFICES ASSUME NEW m \in S, ~(n <= m) PROVE FALSE
    OBVIOUS
  <2>1. m \in Nat /\ n \in Nat /\ m < n
    OBVIOUS
  <2>2. <<m, n>> \in OpToRel(<, Nat)
    BY <2>1 DEF OpToRel
  <2> QED
    BY <1>1, <2>2
<1> QED
  BY <1>2

(***************************************************************************)
(* PtzPatrol.  There is never more than one patrol worker, none after a    *)
(* stop, and it moves the camera only to spots of the patrol that is       *)
(* installed.  WorkerOK carries the argument: until the one worker is      *)
(* joined, no call gets past its join.                                     *)
(***************************************************************************)

LEMMA AnySpotType == AnySpot \in Patrol \X Nat /\ NoWorker \in WorkerState
<1>1. (CHOOSE p \in Patrol : TRUE) \in Patrol
  BY PatrolAssumption DEF PatrolAssumption
<1> QED
  BY <1>1 DEF AnySpot, NoWorker, WorkerState

LEMMA InitIInv == Init => IInv
<1> SUFFICES ASSUME Init PROVE IInv
  OBVIOUS
<1>1. TypeOK
  BY AnySpotType DEF Init, TypeOK, Call
<1>2. CtlOK /\ WantOK /\ CreateOK
  BY PatrolAssumption DEF Init, CtlOK, WantOK, CreateOK, PatrolAssumption
<1>3. WorkerOK /\ MovesOnItsPatrol
  BY DEF Init, WorkerOK, MovesOnItsPatrol, AtPc, NoWorker
<1> QED
  BY <1>1, <1>2, <1>3 DEF IInv

\* The caller that is past its join is alone, and no worker is left.
LEMMA PastJoin ==
  ASSUME IInv, NEW c \in Caller, call[c].st \in {"clear", "install", "create"}
  PROVE  /\ ctl = c /\ ~threadValid
         /\ \A w \in Worker : AtPc(w, "none")
         /\ \A d \in Caller \ {c} : call[d].st = "idle"
<1>1. ctl = c
  BY DEF IInv, CtlOK
<1>2. \A d \in Caller \ {c} : call[d].st = "idle"
  BY <1>1 DEF IInv, CtlOK
<1>3. ~threadValid
  BY DEF IInv, WorkerOK
<1> QED
  BY <1>1, <1>2, <1>3 DEF IInv, WorkerOK

-----------------------------------------------------------------------------
(* IInv is kept by every step of a caller. *)

LEMMA EnterIInv ==
  ASSUME IInv, NEW c \in Caller, NEW want \in Patrol \cup {None}, Enter(c, want)
  PROVE  IInv'
<1> USE DEF IInv
<1>1. /\ ctl = None /\ ctl' = c /\ running' = FALSE
      /\ call' = [call EXCEPT ![c] = [st |-> "join", want |-> want]]
      /\ UNCHANGED <<threadValid, thread, spots, worker>>
  BY DEF Enter
<1>2. TypeOK'
  BY <1>1 DEF TypeOK, Call
<1>3. /\ call'[c].st = "join"
      /\ \A d \in Caller \ {c} : call'[d] = call[d] /\ call[d].st = "idle"
  BY <1>1, PatrolAssumption DEF TypeOK, CtlOK, PatrolAssumption
<1>4. CtlOK' /\ WantOK' /\ CreateOK'
  BY <1>1, <1>3 DEF CtlOK, WantOK, CreateOK
<1>5. WorkerOK' /\ MovesOnItsPatrol'
  BY <1>1, <1>3 DEF WorkerOK, MovesOnItsPatrol, AtPc
<1> QED
  BY <1>2, <1>4, <1>5

\* A step from one stage of a call to another, the call keeping ctl.
LEMMA GotoFacts ==
  ASSUME TypeOK, NEW c \in Caller,
         NEW st \in {"idle", "join", "clear", "install", "create"}, Goto(c, st)
  PROVE  /\ call' \in [Caller -> Call]
         /\ call'[c].st = st /\ call'[c].want = call[c].want
         /\ \A d \in Caller \ {c} : call'[d] = call[d]
<1>1. call \in [Caller -> Call] /\ call[c] \in Call
  BY DEF TypeOK
<1>2. call'[c] = [call[c] EXCEPT !.st = st]
  BY <1>1 DEF Goto
<1>3. [call[c] EXCEPT !.st = st] \in Call
  BY <1>1 DEF Call
<1>4. \A d \in Caller \ {c} : call'[d] = call[d]
  BY <1>1 DEF Goto
<1>5. call' \in [Caller -> Call]
  BY <1>1, <1>3 DEF Goto
<1> QED
  BY <1>1, <1>2, <1>4, <1>5 DEF Call

LEMMA JoinIInv ==
  ASSUME IInv, NEW c \in Caller, Join(c)
  PROVE  IInv'
<1> USE DEF IInv
<1>1. /\ call[c].st = "join" /\ threadValid' = FALSE /\ Goto(c, "clear")
      /\ threadValid => worker[thread].pc = "done"
      /\ worker' = IF threadValid THEN [worker EXCEPT ![thread] = NoWorker] ELSE worker
      /\ UNCHANGED <<ctl, running, thread, spots>>
  BY DEF Join
<1>2. /\ call' \in [Caller -> Call]
      /\ call'[c].st = "clear" /\ call'[c].want = call[c].want
      /\ \A d \in Caller \ {c} : call'[d] = call[d]
  BY <1>1, GotoFacts
<1>3. worker' \in [Worker -> WorkerState]
  BY <1>1, AnySpotType DEF TypeOK
<1>4. TypeOK'
  BY <1>1, <1>2, <1>3 DEF TypeOK
<1>5. CtlOK' /\ WantOK' /\ CreateOK'
  BY <1>1, <1>2 DEF CtlOK, WantOK, CreateOK
<1>6. \A w \in Worker : AtPc(w, "none")'
  BY <1>1 DEF WorkerOK, AtPc, NoWorker, TypeOK
<1>7. WorkerOK' /\ MovesOnItsPatrol'
  BY <1>1, <1>6 DEF WorkerOK, MovesOnItsPatrol, AtPc
<1> QED
  BY <1>4, <1>5, <1>7

LEMMA ClearIInv ==
  ASSUME IInv, NEW c \in Caller, Clear(c)
  PROVE  IInv'
<1> USE DEF IInv
<1>1. /\ call[c].st = "clear" /\ spots' = None
      /\ UNCHANGED <<running, threadValid, thread, worker>>
  BY DEF Clear
<1>2. /\ ctl = c /\ ~threadValid
      /\ \A w \in Worker : AtPc(w, "none")
      /\ \A d \in Caller \ {c} : call[d].st = "idle"
  BY <1>1, PastJoin
<1>3. (WorkerOK /\ MovesOnItsPatrol)'
  BY <1>1, <1>2 DEF WorkerOK, MovesOnItsPatrol, AtPc
<1>4. CASE call[c].want = None
  <2>1. Goto(c, "idle") /\ ctl' = None
    BY <1>4 DEF Clear
  <2>2. /\ call' \in [Caller -> Call] /\ call'[c].st = "idle"
        /\ \A d \in Caller \ {c} : call'[d] = call[d]
    BY <2>1, GotoFacts
  <2>3. TypeOK'
    BY <1>1, <2>1, <2>2 DEF TypeOK
  <2>4. CtlOK' /\ WantOK' /\ CreateOK'
    BY <1>2, <2>1, <2>2, PatrolAssumption DEF CtlOK, WantOK, CreateOK, PatrolAssumption
  <2> QED
    BY <1>3, <2>3, <2>4
<1>5. CASE call[c].want # None
  <2>1. Goto(c, "install") /\ ctl' = ctl
    BY <1>5 DEF Clear
  <2>2. /\ call' \in [Caller -> Call]
        /\ call'[c].st = "install" /\ call'[c].want = call[c].want
        /\ \A d \in Caller \ {c} : call'[d] = call[d]
    BY <2>1, GotoFacts
  <2>3. TypeOK'
    BY <1>1, <2>1, <2>2 DEF TypeOK
  <2>4. CtlOK' /\ WantOK' /\ CreateOK'
    BY <1>2, <1>5, <2>1, <2>2 DEF CtlOK, WantOK, CreateOK
  <2> QED
    BY <1>3, <2>3, <2>4
<1> QED
  BY <1>4, <1>5

LEMMA InstallIInv ==
  ASSUME IInv, NEW c \in Caller, Install(c)
  PROVE  IInv'
<1> USE DEF IInv
<1>1. /\ call[c].st = "install" /\ spots' = call[c].want /\ running' = TRUE
      /\ Goto(c, "create") /\ UNCHANGED <<ctl, threadValid, thread, worker>>
  BY DEF Install
<1>2. /\ ctl = c /\ ~threadValid
      /\ \A w \in Worker : AtPc(w, "none")
      /\ \A d \in Caller \ {c} : call[d].st = "idle"
  BY <1>1, PastJoin
<1>3. /\ call' \in [Caller -> Call]
      /\ call'[c].st = "create" /\ call'[c].want = call[c].want
      /\ \A d \in Caller \ {c} : call'[d] = call[d]
  BY <1>1, GotoFacts
<1>4. call[c].want \in Patrol \cup {None}
  BY DEF TypeOK, Call
<1>5. TypeOK'
  BY <1>1, <1>3, <1>4 DEF TypeOK
<1>6. CtlOK' /\ WantOK' /\ CreateOK'
  BY <1>1, <1>2, <1>3 DEF CtlOK, WantOK, CreateOK
<1>7. WorkerOK' /\ MovesOnItsPatrol'
  BY <1>1, <1>2 DEF WorkerOK, MovesOnItsPatrol, AtPc
<1> QED
  BY <1>5, <1>6, <1>7

\* Both ends of start leave every call idle and free ctl.
LEMMA StartEnds ==
  ASSUME IInv, NEW c \in Caller, call[c].st = "create", Goto(c, "idle"), ctl' = None
  PROVE  /\ call' \in [Caller -> Call]
         /\ \A d \in Caller : call'[d].st = "idle"
         /\ CtlOK'
<1>1. \A d \in Caller \ {c} : call[d].st = "idle"
  BY PastJoin
<1>2. /\ call' \in [Caller -> Call] /\ call'[c].st = "idle"
      /\ \A d \in Caller \ {c} : call'[d] = call[d]
  BY GotoFacts DEF IInv
<1> QED
  BY <1>1, <1>2, PatrolAssumption DEF CtlOK, PatrolAssumption

LEMMA CreateIInv ==
  ASSUME IInv, NEW c \in Caller, Create(c)
  PROVE  IInv'
<1> USE DEF IInv
<1> DEFINE s == [pc |-> "check", patrol |-> call[c].want, index |-> 0, spot |-> AnySpot]
<1>1. PICK w \in Worker : /\ worker' = [worker EXCEPT ![w] = s]
                          /\ thread' = w
  BY DEF Create
<1>2. /\ call[c].st = "create" /\ threadValid' = TRUE /\ ctl' = None /\ Goto(c, "idle")
      /\ UNCHANGED <<running, spots>>
  BY DEF Create
<1>3. \A v \in Worker : AtPc(v, "none")
  BY <1>2, PastJoin
<1>4. /\ call' \in [Caller -> Call] /\ CtlOK'
      /\ \A d \in Caller : call'[d].st = "idle"
  BY <1>2, StartEnds
<1>5. s \in WorkerState /\ s.pc = "check" /\ s.patrol = spots /\ spots # None
  BY <1>2, AnySpotType DEF WorkerState, TypeOK, Call, CreateOK, WantOK
<1> HIDE DEF s
<1>6. TypeOK'
  BY <1>1, <1>2, <1>4, <1>5 DEF TypeOK
<1>7. /\ worker'[w] = s
      /\ \A v \in Worker \ {w} : worker'[v].pc = "none"
  BY <1>1, <1>3 DEF TypeOK, AtPc
<1>8. WorkerOK' /\ MovesOnItsPatrol'
  BY <1>1, <1>2, <1>4, <1>5, <1>7 DEF WorkerOK, MovesOnItsPatrol, AtPc
<1>9. WantOK' /\ CreateOK'
  BY <1>4 DEF WantOK, CreateOK
<1> QED
  BY <1>4, <1>6, <1>8, <1>9

LEMMA CreateFailsIInv ==
  ASSUME IInv, NEW c \in Caller, CreateFails(c)
  PROVE  IInv'
<1> USE DEF IInv
<1>1. /\ call[c].st = "create" /\ spots' = None /\ running' = FALSE
      /\ ctl' = None /\ Goto(c, "idle") /\ UNCHANGED <<threadValid, thread, worker>>
  BY DEF CreateFails
<1>2. /\ ~threadValid /\ \A v \in Worker : AtPc(v, "none")
  BY <1>1, PastJoin
<1>3. /\ call' \in [Caller -> Call] /\ CtlOK'
      /\ \A d \in Caller : call'[d].st = "idle"
  BY <1>1, StartEnds
<1>4. TypeOK'
  BY <1>1, <1>3 DEF TypeOK
<1>5. WorkerOK' /\ MovesOnItsPatrol'
  BY <1>1, <1>2 DEF WorkerOK, MovesOnItsPatrol, AtPc
<1>6. WantOK' /\ CreateOK'
  BY <1>3 DEF WantOK, CreateOK
<1> QED
  BY <1>3, <1>4, <1>5, <1>6

-----------------------------------------------------------------------------
(* IInv is kept by every step of a worker. *)

\* A worker that is there goes on, and if it moves, to a spot of its patrol.
LEMMA WorkerStep ==
  ASSUME IInv, NEW w \in Worker, ~AtPc(w, "none"), NEW s \in WorkerState, SetWorker(w, s),
         s.patrol = worker[w].patrol,
         s.pc = "move" => s.spot[1] = spots /\ s.spot[2] < SpotCount[spots]
  PROVE  IInv'
<1> USE DEF IInv
<1>1. /\ worker' = [worker EXCEPT ![w] = s]
      /\ UNCHANGED <<ctl, running, threadValid, thread, spots, call>>
  BY DEF SetWorker
<1>2. threadValid /\ thread = w /\ worker[w].patrol = spots /\ spots # None
  BY DEF WorkerOK
<1>3. worker'[w] = s /\ \A v \in Worker \ {w} : worker'[v] = worker[v]
  BY <1>1 DEF TypeOK
<1>4. TypeOK'
  BY <1>1 DEF TypeOK
<1>5. CtlOK' /\ WantOK' /\ CreateOK'
  BY <1>1 DEF CtlOK, WantOK, CreateOK
<1>6. WorkerOK'
  BY <1>1, <1>2, <1>3 DEF WorkerOK, AtPc
<1>7. MovesOnItsPatrol'
  BY <1>1, <1>2, <1>3 DEF MovesOnItsPatrol, AtPc
<1> QED
  BY <1>4, <1>5, <1>6, <1>7

LEMMA RunIInv ==
  ASSUME IInv, NEW w \in Worker, Run(w)
  PROVE  IInv'
<1>1. worker[w] \in WorkerState
  BY DEF IInv, TypeOK
<1>2. ASSUME NEW pc \in {"check", "fetch", "hold", "done"}, ~AtPc(w, "none"), Step(w, pc)
      PROVE  IInv'
  <2> DEFINE s == [worker[w] EXCEPT !.pc = pc]
  <2>1. s \in WorkerState /\ s.patrol = worker[w].patrol /\ s.pc = pc
    BY <1>1 DEF WorkerState
  <2>2. SetWorker(w, s)
    BY <1>2 DEF Step
  <2> HIDE DEF s
  <2> QED
    BY <1>2, <2>1, <2>2, WorkerStep
<1>3. CASE Check(w)
  BY <1>2, <1>3 DEF Check, AtPc
<1>4. CASE Move(w)
  BY <1>2, <1>4 DEF Move, AtPc
<1>5. CASE Hold(w)
  BY <1>2, <1>5 DEF Hold, AtPc
<1>6. CASE Fetch(w)
  <2>1. AtPc(w, "fetch") /\ ~AtPc(w, "none") /\ spots # None /\ spots \in Patrol
    BY <1>6 DEF Fetch, AtPc, IInv, WorkerOK, TypeOK
  <2> DEFINE i == IF worker[w].index >= SpotCount[spots] THEN 0 ELSE worker[w].index
  <2>2. Take(w, i)
    BY <1>6, <2>1 DEF Fetch
  <2>3. i \in Nat /\ i < SpotCount[spots]
    BY <1>1, <2>1, PatrolAssumption DEF WorkerState, PatrolAssumption
  <2> HIDE DEF i
  <2> DEFINE s == [pc |-> "move", patrol |-> worker[w].patrol,
                   index |-> i + 1, spot |-> <<spots, i>>]
  <2>4. <<spots, i>> \in Patrol \X Nat /\ i + 1 \in Nat
    BY <2>1, <2>3
  <2>5. worker[w].patrol \in Patrol \cup {None}
    BY <1>1 DEF WorkerState
  <2>6. /\ s \in WorkerState /\ s.patrol = worker[w].patrol
        /\ s.spot[1] = spots /\ s.spot[2] = i
    BY <2>4, <2>5 DEF WorkerState
  <2>7. SetWorker(w, s)
    BY <2>2 DEF Take
  <2> HIDE DEF s
  <2> QED
    BY <2>1, <2>3, <2>6, <2>7, WorkerStep
<1> QED
  BY <1>3, <1>4, <1>5, <1>6 DEF Run

LEMMA StutterIInv == IInv /\ UNCHANGED vars => IInv'
BY DEF IInv, TypeOK, CtlOK, WantOK, WorkerOK, CreateOK, MovesOnItsPatrol, AtPc, vars

-----------------------------------------------------------------------------
(* The invariant of the patrol engine. *)
THEOREM PatrolInvariant == Spec => []IInv
<1>1. IInv /\ [Next]_vars => IInv'
  <2> SUFFICES ASSUME IInv, [Next]_vars PROVE IInv'
    OBVIOUS
  <2>1. ASSUME NEW c \in Caller, NEW want \in Patrol \cup {None}, Enter(c, want)
        PROVE  IInv'
    BY <2>1, EnterIInv
  <2>2. ASSUME NEW c \in Caller, Progress(c) PROVE IInv'
    BY <2>2, JoinIInv, ClearIInv, InstallIInv, CreateIInv, CreateFailsIInv DEF Progress
  <2>3. ASSUME NEW w \in Worker, Run(w) PROVE IInv'
    BY <2>3, RunIInv
  <2>4. CASE UNCHANGED vars
    BY <2>4, StutterIInv
  <2> QED
    BY <2>1, <2>2, <2>3, <2>4 DEF Next
<1> QED
  BY InitIInv, <1>1, PTL DEF Spec

(***************************************************************************)
(* For any callers, patrols and thread names: at most one worker moves the *)
(* camera, and none after nop_ptz_patrol_stop has returned.                *)
(***************************************************************************)
THEOREM AtMostOneMover == Spec => []OneMover
<1>1. IInv => OneMover
  BY DEF IInv, WorkerOK, OneMover, Live
<1> QED
  BY PatrolInvariant, <1>1, PTL

(***************************************************************************)
(* For any callers, patrols and thread names: goto_preset is only called   *)
(* for a spot of the installed patrol.                                     *)
(***************************************************************************)
THEOREM MovesAreOwn == Spec => []MovesOnItsPatrol
<1>1. IInv => MovesOnItsPatrol
  BY DEF IInv
<1> QED
  BY PatrolInvariant, <1>1, PTL

-----------------------------------------------------------------------------
(***************************************************************************)
(* Channels.  The puller of an entry is a client of its channel that has   *)
(* not been cleared, and a gate that is open has let a key frame through.  *)
(***************************************************************************)
ChSlot == [use : BOOLEAN, addr : {"url", "onvif", "asked"},
           status : {"empty", "bound", "connecting", "online", "nosignal", "fail"},
           notified : BOOLEAN, backoff : 1 .. BackoffMax, wait : 0 .. BackoffMax]
ChEntry == [used : BOOLEAN, url : BOOLEAN, puller : RtspClient \cup {NoClient},
            state : {"idle", "connecting", "playing", "nosignal", "fail"}, codec : Chans!Codec,
            writer : {"none", "empty", "fromkey"}, gated : BOOLEAN]
ChClients == [RtspClient -> [chan : Chan \cup {"none"}, pc : {"none", "connect", "play", "quiet", "ending", "over"}]]

ChHeld(c, s, clients) ==
  /\ s \in ChEntry
  /\ s.gated => s.writer = "fromkey"
  /\ s.puller # NoClient => clients[s.puller].chan = c /\ clients[s.puller].pc # "none"

ChTyped ==
  /\ booted \in {"off", "no", "loaded", "run"} /\ slot \in [Chan -> ChSlot] /\ stream \in [Chan -> ChEntry]
  /\ rtsp \in ChClients /\ camera \in [Chan -> BOOLEAN] /\ faults \in 0 .. MaxFaults

ChInv ==
  /\ ChTyped
  /\ \A c \in Chan : ChHeld(c, stream[c], rtsp) /\ (~slot[c].use => stream[c] = Chans!Unused)
  /\ \A k \in RtspClient : rtsp[k].pc # "none" => rtsp[k].chan \in Chan /\ slot[rtsp[k].chan].use

LEMMA ChConstants == NoClient \notin RtspClient /\ BackoffMax \in Nat \ {0} /\ MaxFaults \in Nat
BY BoxAssumption DEF Chans!ChannelsAssumption

LEMMA ChUnused ==
  /\ Chans!Unused \in ChEntry /\ Chans!Added \in ChEntry /\ Chans!FreeSlot \in ChSlot
  /\ \A c, clients : ChHeld(c, Chans!Unused, clients) /\ ChHeld(c, Chans!Added, clients)
  /\ Chans!Unused.puller = NoClient /\ Chans!Added.puller = NoClient /\ Chans!Unused.used = FALSE
<1>1. Chans!Unused \in ChEntry /\ Chans!FreeSlot \in ChSlot
  BY ChConstants DEF Chans!Unused, Chans!FreeSlot, ChEntry, ChSlot, Chans!Codec
<1>2. Chans!Added \in ChEntry /\ Chans!Added.puller = NoClient /\ Chans!Added.gated = FALSE
  BY <1>1 DEF Chans!Added, Chans!Unused, ChEntry
<1> QED
  BY <1>1, <1>2 DEF ChHeld, Chans!Unused

LEMMA ChInitInv == ASSUME Chans!ChannelsInit PROVE ChInv
<1>1. ChTyped
  BY ChUnused, ChConstants DEF Chans!ChannelsInit, ChTyped, ChClients, Chans!Gone
<1> QED
  BY <1>1, ChUnused DEF Chans!ChannelsInit, ChInv, Chans!Gone

\* A stream is started with a client that nobody holds, or it is not.
LEMMA ChStarts ==
  ASSUME NEW c \in Chan, NEW s \in ChEntry, NEW clients \in ChClients, NEW n \in 0 .. MaxFaults,
         NEW o \in Chans!Started(c, s, clients, n), ChHeld(c, s, clients)
  PROVE  /\ ChHeld(c, o[1], o[2]) /\ o[2] \in ChClients /\ o[3] \in 0 .. MaxFaults
         /\ \A k \in RtspClient : clients[k].pc # "none" => o[2][k] = clients[k]
         /\ \A k \in RtspClient : o[2][k] # clients[k] => o[2][k].chan = c
         /\ \A k \in RtspClient : o[2][k] # clients[k] => o[1].puller = k
         /\ o[1].puller # s.puller => s.puller = NoClient
<1>1. CASE o = <<s, clients, n>>
  BY <1>1
<1>2. CASE s.puller = NoClient /\ \E k \in RtspClient, codec \in Chans!Codec :
             clients[k].pc = "none" /\ o = <<Chans!Opened(s, k, codec), [clients EXCEPT ![k] = [chan |-> c, pc |-> "connect"]], n>>
  <2>1. PICK k \in RtspClient, codec \in Chans!Codec :
             clients[k].pc = "none" /\ o = <<Chans!Opened(s, k, codec), [clients EXCEPT ![k] = [chan |-> c, pc |-> "connect"]], n>>
    BY <1>2
  <2>2. /\ o[1] \in ChEntry /\ o[1].gated = FALSE /\ o[1].puller = k
    BY <2>1 DEF Chans!Opened, ChEntry
  <2>3. /\ o[2] \in ChClients /\ o[2][k] = [chan |-> c, pc |-> "connect"]
        /\ \A j \in RtspClient : j # k => o[2][j] = clients[j]
    BY <2>1 DEF ChClients
  <2> QED
    BY <1>2, <2>1, <2>2, <2>3 DEF ChHeld
<1>3. CASE s.puller = NoClient /\ o = <<[s EXCEPT !.state = "fail"], clients, n + 1>> /\ n < MaxFaults
  <2>1. o[1] \in ChEntry /\ o[1].gated = s.gated /\ o[1].writer = s.writer /\ o[1].puller = s.puller
    BY <1>3 DEF ChEntry
  <2> QED
    BY <1>3, <2>1, ChConstants DEF ChHeld
<1> QED
  BY <1>1, <1>2, <1>3, ChConstants DEF Chans!Started

\* One channel changes, and its clients; none of them is forgotten but by the address that was asked for.
LEMMA ChChannel ==
  ASSUME ChInv, NEW c \in Chan, NEW s, NEW q \in ChSlot,
         UNCHANGED <<booted, camera>>, slot' = [slot EXCEPT ![c] = q], stream' = [stream EXCEPT ![c] = s],
         rtsp' \in ChClients, faults' \in 0 .. MaxFaults, ChHeld(c, s, rtsp'), q.use,
         \A k \in RtspClient : rtsp[k].pc # "none" /\ rtsp[k].chan # c => rtsp'[k] = rtsp[k],
         \A k \in RtspClient : rtsp'[k].pc # "none" /\ rtsp'[k] # rtsp[k] => rtsp'[k].chan = c,
         \/ slot[c].addr = "onvif" /\ q.addr = "asked"
         \/ \A k \in RtspClient : stream[c].puller = k => rtsp'[k].chan = "none" \/ (rtsp'[k].chan = c /\ s.puller = k)
  PROVE  ChInv' /\ Chans!ForgetsByResolve
<1>1. ChTyped'
  BY DEF ChInv, ChTyped, ChHeld
<1>2. stream'[c] = s /\ slot'[c] = q /\ \A d \in Chan : d # c => stream'[d] = stream[d] /\ slot'[d] = slot[d]
  BY DEF ChInv, ChTyped
<1>3. ASSUME NEW d \in Chan, d # c PROVE ChHeld(d, stream'[d], rtsp')
  <2>1. ChHeld(d, stream[d], rtsp)
    BY DEF ChInv
  <2>2. stream[d].puller # NoClient => stream[d].puller \in RtspClient
    BY <2>1 DEF ChHeld, ChEntry
  <2>3. stream[d].puller # NoClient => rtsp'[stream[d].puller] = rtsp[stream[d].puller]
    BY <1>3, <2>1, <2>2 DEF ChHeld
  <2> QED
    BY <1>2, <1>3, <2>1, <2>3 DEF ChHeld
<1>4. \A k \in RtspClient : rtsp'[k].pc # "none" => rtsp'[k].chan \in Chan /\ slot'[rtsp'[k].chan].use
  BY <1>2 DEF ChInv
<1>5. ChInv'
  BY <1>1, <1>2, <1>3, <1>4 DEF ChInv
<1>6. Chans!ForgetsByResolve
  <2> SUFFICES ASSUME NEW k \in RtspClient, rtsp[k].chan # "none", ~Chans!Forgotten(k), Chans!Forgotten(k)'
               PROVE  slot[rtsp[k].chan].addr = "onvif" /\ slot'[rtsp[k].chan].addr = "asked"
    BY DEF Chans!ForgetsByResolve
  <2>1. PICK d \in Chan : rtsp[k].chan = d
    BY DEF ChInv, ChTyped, ChClients
  <2>2. stream[d].puller = k /\ rtsp[k].pc # "none"
    BY <2>1, ChConstants DEF Chans!Forgotten, ChInv, ChHeld
  <2>3. d = c
    BY <1>2, <2>1, <2>2 DEF Chans!Forgotten
  <2> QED
    BY <1>2, <2>1, <2>2, <2>3 DEF Chans!Forgotten
<1> QED
  BY <1>5, <1>6

\* Nothing but the progress of the boot or a camera changes.
LEMMA ChQuiet ==
  ASSUME ChInv, UNCHANGED <<slot, stream, rtsp>>, booted' \in {"off", "no", "loaded", "run"},
         camera' \in [Chan -> BOOLEAN], faults' \in 0 .. MaxFaults
  PROVE  ChInv' /\ Chans!ForgetsByResolve
<1>1. ChInv'
  BY DEF ChInv, ChTyped
<1>2. \A k \in RtspClient : Chans!Forgotten(k)' <=> Chans!Forgotten(k)
  BY DEF Chans!Forgotten
<1> QED
  BY <1>1, <1>2 DEF Chans!ForgetsByResolve

LEMMA ChBoots ==
  ASSUME ChInv, \/ Chans!Created \/ Chans!Loaded \/ Chans!Run
                \/ \E c \in Chan : Chans!CameraGoes(c) \/ Chans!CameraComes(c)
  PROVE  ChInv' /\ Chans!ForgetsByResolve
<1>1. UNCHANGED <<slot, stream, rtsp>> /\ booted' \in {"off", "no", "loaded", "run"}
  BY DEF Chans!Created, Chans!Loaded, Chans!Run, Chans!CameraGoes, Chans!CameraComes, ChInv, ChTyped
<1>2. camera' \in [Chan -> BOOLEAN]
  BY DEF Chans!Created, Chans!Loaded, Chans!Run, Chans!CameraGoes, Chans!CameraComes, ChInv, ChTyped
<1>3. faults' \in 0 .. MaxFaults
  <2>1. faults' = faults \/ (faults < MaxFaults /\ faults' = faults + 1)
    BY DEF Chans!Created, Chans!Loaded, Chans!Run, Chans!CameraGoes, Chans!CameraComes, Chans!Fault
  <2> QED
    BY <2>1, ChConstants DEF ChInv, ChTyped
<1> QED
  BY <1>1, <1>2, <1>3, ChQuiet

LEMMA ChBound ==
  ASSUME NEW addr \in {"url", "onvif"}
  PROVE  Chans!Bound(addr) \in ChSlot /\ Chans!Bound(addr).use
BY ChUnused DEF Chans!Bound, ChSlot

\* A slot is taken, its entry cleared or left as it is.
LEMMA ChInstalls ==
  ASSUME ChInv, NEW c \in Chan, Chans!Load(c, "url") \/ Chans!Load(c, "onvif") \/ Chans!Discover(c)
  PROVE  ChInv' /\ Chans!ForgetsByResolve
<1>1. PICK addr \in {"url", "onvif"}, s \in {stream[c], Chans!Added} :
        /\ slot' = [slot EXCEPT ![c] = Chans!Bound(addr)] /\ stream' = [stream EXCEPT ![c] = s]
        /\ ~slot[c].use /\ UNCHANGED <<booted, rtsp, camera, faults>>
  <2>1. stream = [stream EXCEPT ![c] = stream[c]]
    BY DEF ChInv, ChTyped
  <2>2. CASE Chans!Load(c, "url") \/ Chans!Load(c, "onvif")
    BY <2>1, <2>2 DEF Chans!Load
  <2>3. CASE Chans!Discover(c)
    BY <2>3 DEF Chans!Discover
  <2> QED
    BY <2>2, <2>3
<1>2. stream[c] = Chans!Unused /\ ChHeld(c, s, rtsp)
  BY <1>1, ChUnused DEF ChInv
<1>3. \A k \in RtspClient : stream[c].puller # k
  BY <1>2, ChUnused, ChConstants
<1> QED
  BY <1>1, <1>2, <1>3, ChBound, ChChannel DEF ChInv, ChTyped

LEMMA ChStartsAll ==
  ASSUME ChInv, NEW c \in Chan, Chans!StartAll(c)
  PROVE  ChInv' /\ Chans!ForgetsByResolve
<1>1. PICK o \in Chans!Started(c, stream[c], rtsp, faults) : Chans!Becomes(c, o)
  BY DEF Chans!StartAll
<1>2. /\ stream' = [stream EXCEPT ![c] = o[1]] /\ rtsp' = o[2] /\ faults' = o[3]
      /\ UNCHANGED <<booted, slot, camera>> /\ stream[c].used /\ stream[c].puller = NoClient
  BY <1>1 DEF Chans!StartAll, Chans!Becomes
<1>3. stream[c] \in ChEntry /\ rtsp \in ChClients /\ faults \in 0 .. MaxFaults /\ ChHeld(c, stream[c], rtsp)
  BY DEF ChInv, ChTyped
<1>4. /\ ChHeld(c, o[1], o[2]) /\ o[2] \in ChClients /\ o[3] \in 0 .. MaxFaults
      /\ \A k \in RtspClient : rtsp[k].pc # "none" => o[2][k] = rtsp[k]
      /\ \A k \in RtspClient : o[2][k] # rtsp[k] => o[2][k].chan = c
  BY <1>1, <1>3, ChStarts
<1>5. slot[c].use /\ slot[c] \in ChSlot /\ slot = [slot EXCEPT ![c] = slot[c]]
  BY <1>2, ChUnused DEF ChInv, ChTyped
<1>6. \A k \in RtspClient : stream[c].puller # k
  BY <1>2, ChConstants
<1> QED
  BY <1>2, <1>4, <1>5, <1>6, ChChannel

\* A second passes, and what Waited and Loss make of a slot.
LEMMA ChSlots ==
  ASSUME NEW s \in ChSlot
  PROVE  /\ Chans!Later(s) \in ChSlot /\ Chans!Later(s).use = s.use
         /\ \A state \in {"nosignal", "fail"} :
              LET q == Chans!Waited(Chans!Loss(s, state)) IN q \in ChSlot /\ q.use = s.use /\ q.addr = s.addr
<1>1. ASSUME NEW t \in ChSlot
      PROVE  /\ Chans!Later(t) \in ChSlot /\ Chans!Later(t).use = t.use /\ Chans!Later(t).addr = t.addr
             /\ Chans!Waited(t) \in ChSlot /\ Chans!Waited(t).use = t.use /\ Chans!Waited(t).addr = t.addr
  <2>1. Chans!Later(t) \in ChSlot /\ Chans!Later(t).use = t.use /\ Chans!Later(t).addr = t.addr
    <3>1. (IF t.wait = 0 THEN 0 ELSE t.wait - 1) \in 0 .. BackoffMax
      BY ChConstants DEF ChSlot
    <3> QED
      BY <3>1 DEF Chans!Later, ChSlot
  <2>2. Chans!Waited(t) \in ChSlot /\ Chans!Waited(t).use = t.use /\ Chans!Waited(t).addr = t.addr
    <3>1. (IF 2 * t.backoff > BackoffMax THEN BackoffMax ELSE 2 * t.backoff) \in 1 .. BackoffMax
          /\ t.backoff \in 0 .. BackoffMax
      BY ChConstants DEF ChSlot
    <3> QED
      BY <2>1, <3>1 DEF Chans!Waited, ChSlot
  <2> QED
    BY <2>1, <2>2
<1>2. ASSUME NEW state \in {"nosignal", "fail"}
      PROVE  Chans!Loss(s, state) \in ChSlot /\ Chans!Loss(s, state).use = s.use /\ Chans!Loss(s, state).addr = s.addr
  BY DEF Chans!Loss, ChSlot
<1> QED
  BY <1>1, <1>2

\* What is stopped is held by nobody, and its client is cleared.
LEMMA ChStops ==
  ASSUME NEW c \in Chan, NEW e, NEW clients \in ChClients, ChHeld(c, e, clients)
  PROVE  /\ ChHeld(c, Chans!Stopped(e), Chans!Without(e.puller, clients)) /\ Chans!Stopped(e).puller = NoClient
         /\ Chans!Without(e.puller, clients) \in ChClients
         /\ \A k \in RtspClient : Chans!Without(e.puller, clients)[k] = (IF e.puller = k THEN Chans!Gone ELSE clients[k])
<1>1. e \in ChEntry
  BY DEF ChHeld
<1>2. CASE e.puller = NoClient
  <2>1. Chans!Stopped(e) = e /\ Chans!Without(e.puller, clients) = clients
    BY <1>2 DEF Chans!Stopped, Chans!Without
  <2> QED
    BY <1>2, <2>1, ChConstants
<1>3. CASE e.puller # NoClient
  <2>1. Chans!Stopped(e) \in ChEntry /\ Chans!Stopped(e).gated = FALSE /\ Chans!Stopped(e).puller = NoClient
    BY <1>1, <1>3 DEF Chans!Stopped, ChEntry
  <2>2. e.puller \in RtspClient /\ Chans!Without(e.puller, clients) = [clients EXCEPT ![e.puller] = Chans!Gone]
    BY <1>1, <1>3 DEF ChEntry, Chans!Without
  <2> QED
    BY <2>1, <2>2 DEF ChHeld, ChClients, Chans!Gone
<1> QED
  BY <1>2, <1>3

LEMMA ChRetries ==
  ASSUME ChInv, NEW c \in Chan, NEW s \in ChSlot, NEW e, NEW clients \in ChClients, NEW n \in 0 .. MaxFaults,
         Chans!Retry(c, s, <<e, clients, n>>), UNCHANGED <<booted, camera>>, s.use, ChHeld(c, e, clients),
         e.state \in {"nosignal", "fail"},
         \A k \in RtspClient : rtsp[k].pc # "none" /\ rtsp[k].chan # c => clients[k] = rtsp[k],
         \A k \in RtspClient : clients[k] # rtsp[k] => clients[k].chan = c,
         \/ slot[c].addr = "onvif" /\ s.addr = "asked"
         \/ e = stream[c] /\ clients = rtsp
  PROVE  ChInv' /\ Chans!ForgetsByResolve
<1> DEFINE q == Chans!Waited(Chans!Loss(s, e.state))
           fresh == Chans!Without(e.puller, clients)
<1>1. q \in ChSlot /\ q.use /\ q.addr = s.addr
  BY ChSlots
<1>2. slot' = [slot EXCEPT ![c] = q]
  BY DEF Chans!Retry
<1> HIDE DEF q
<1>3. CASE s.wait > 0 /\ Chans!Becomes(c, <<e, clients, n>>)
  <2>1. stream' = [stream EXCEPT ![c] = e] /\ rtsp' = clients /\ faults' = n
    BY <1>3 DEF Chans!Becomes
  <2>2. \A k \in RtspClient : e.puller = k => clients[k].chan = c
    BY ChConstants DEF ChHeld
  <2>3. \/ slot[c].addr = "onvif" /\ q.addr = "asked"
        \/ \A k \in RtspClient : stream[c].puller = k => rtsp'[k].chan = "none" \/ (rtsp'[k].chan = c /\ e.puller = k)
    BY <1>1, <2>1, <2>2
  <2> QED
    BY <1>1, <1>2, <2>1, <2>3, ChChannel
<1>4. CASE \E r \in Chans!Started(c, Chans!Stopped(e), fresh, n) : Chans!Becomes(c, r)
  <2>1. PICK r \in Chans!Started(c, Chans!Stopped(e), fresh, n) : Chans!Becomes(c, r)
    BY <1>4
  <2>2. stream' = [stream EXCEPT ![c] = r[1]] /\ rtsp' = r[2] /\ faults' = r[3]
    BY <2>1 DEF Chans!Becomes
  <2>3. /\ ChHeld(c, Chans!Stopped(e), fresh) /\ fresh \in ChClients
        /\ \A k \in RtspClient : fresh[k] = (IF e.puller = k THEN Chans!Gone ELSE clients[k])
    BY ChStops
  <2>4. Chans!Stopped(e) \in ChEntry
    BY <2>3 DEF ChHeld
  <2> HIDE DEF fresh
  <2>5. /\ ChHeld(c, r[1], r[2]) /\ r[2] \in ChClients /\ r[3] \in 0 .. MaxFaults
        /\ \A k \in RtspClient : fresh[k].pc # "none" => r[2][k] = fresh[k]
        /\ \A k \in RtspClient : r[2][k] # fresh[k] => r[2][k].chan = c
        /\ \A k \in RtspClient : r[2][k] # fresh[k] => r[1].puller = k
    BY <2>1, <2>3, <2>4, ChStarts
  <2>6. \A k \in RtspClient : rtsp[k].pc # "none" /\ rtsp[k].chan # c => rtsp'[k] = rtsp[k]
    <3> SUFFICES ASSUME NEW k \in RtspClient, rtsp[k].pc # "none", rtsp[k].chan # c PROVE r[2][k] = rtsp[k]
      BY <2>2
    <3>1. clients[k] = rtsp[k]
      OBVIOUS
    <3>2. e.puller # k
      BY <3>1, ChConstants DEF ChHeld
    <3> QED
      BY <2>3, <2>5, <3>1, <3>2
  <2>7. \A k \in RtspClient : rtsp'[k].pc # "none" /\ rtsp'[k] # rtsp[k] => rtsp'[k].chan = c
    <3> SUFFICES ASSUME NEW k \in RtspClient, r[2][k].pc # "none", r[2][k] # rtsp[k] PROVE r[2][k].chan = c
      BY <2>2
    <3>1. CASE r[2][k] # fresh[k]
      BY <2>5, <3>1
    <3>2. CASE r[2][k] = fresh[k]
      BY <2>3, <3>2 DEF Chans!Gone
    <3> QED
      BY <3>1, <3>2
  <2>8. \/ slot[c].addr = "onvif" /\ q.addr = "asked"
        \/ \A k \in RtspClient : stream[c].puller = k => rtsp'[k].chan = "none" \/ (rtsp'[k].chan = c /\ r[1].puller = k)
    <3>1. CASE e = stream[c]
      <4> SUFFICES ASSUME NEW k \in RtspClient, stream[c].puller = k
                   PROVE  r[2][k].chan = "none" \/ (r[2][k].chan = c /\ r[1].puller = k)
        BY <2>2
      <4>1. fresh[k] = Chans!Gone
        BY <2>3, <3>1
      <4> QED
        BY <2>5, <4>1 DEF Chans!Gone
    <3> QED
      BY <1>1, <3>1
  <2> QED
    BY <1>1, <1>2, <2>2, <2>5, <2>6, <2>7, <2>8, ChChannel
<1> QED
  BY <1>3, <1>4 DEF Chans!Retry

LEMMA ChTicks ==
  ASSUME ChInv, NEW c \in Chan, Chans!Tick(c)
  PROVE  ChInv' /\ Chans!ForgetsByResolve
<1>0. /\ slot[c] \in ChSlot /\ stream[c] \in ChEntry /\ rtsp \in ChClients /\ faults \in 0 .. MaxFaults
      /\ ChHeld(c, stream[c], rtsp)
  BY DEF ChInv, ChTyped
<1>1. slot[c].use /\ UNCHANGED <<booted, camera>>
  BY DEF Chans!Tick, Chans!TickResolve, Chans!TickPlaying, Chans!TickConnecting, Chans!TickLost, Chans!Ticked
<1>2. CASE Chans!TickResolve(c)
  <2> DEFINE asked == [slot[c] EXCEPT !.addr = "asked"]
  <2>1. PICK o \in Chans!Started(c, Chans!Added, rtsp, faults) :
           IF o[1].state = "fail" THEN Chans!Retry(c, asked, o)
           ELSE Chans!Becomes(c, o) /\ slot' = [slot EXCEPT ![c] = [asked EXCEPT !.status = "connecting"]]
    BY <1>2 DEF Chans!TickResolve
  <2>2. asked \in ChSlot /\ asked.use /\ asked.addr = "asked" /\ slot[c].addr = "onvif"
    BY <1>0, <1>1, <1>2 DEF ChSlot, Chans!TickResolve, Chans!Resolvable
  <2>3. /\ ChHeld(c, o[1], o[2]) /\ o[2] \in ChClients /\ o[3] \in 0 .. MaxFaults
        /\ \A k \in RtspClient : rtsp[k].pc # "none" => o[2][k] = rtsp[k]
        /\ \A k \in RtspClient : o[2][k] # rtsp[k] => o[2][k].chan = c
    BY <1>0, ChUnused, ChStarts
  <2> HIDE DEF asked
  <2>4. CASE o[1].state = "fail"
    <3>1. o = <<o[1], o[2], o[3]>>
      BY DEF Chans!Started
    <3>2. Chans!Retry(c, asked, <<o[1], o[2], o[3]>>)
      BY <2>1, <2>4, <3>1
    <3> QED
      BY <1>1, <2>2, <2>3, <2>4, <3>2, ChRetries
  <2>5. CASE o[1].state # "fail"
    <3> DEFINE q == [asked EXCEPT !.status = "connecting"]
    <3>1. slot' = [slot EXCEPT ![c] = q] /\ stream' = [stream EXCEPT ![c] = o[1]] /\ rtsp' = o[2] /\ faults' = o[3]
      BY <2>1, <2>5 DEF Chans!Becomes
    <3>2. q \in ChSlot /\ q.use /\ q.addr = "asked"
      BY <2>2 DEF ChSlot
    <3> HIDE DEF q
    <3> QED
      BY <1>1, <2>2, <2>3, <3>1, <3>2, ChChannel
  <2> QED
    BY <2>4, <2>5
<1>3. CASE Chans!TickPlaying(c) \/ Chans!TickConnecting(c)
  <2>1. PICK q \in ChSlot : slot' = [slot EXCEPT ![c] = q] /\ q.use /\ UNCHANGED <<stream, rtsp, faults>>
    <3>1. CASE Chans!TickPlaying(c)
      <4> DEFINE s == [slot[c] EXCEPT !.status = "online", !.notified = TRUE, !.backoff = 1]
      <4>0. 1 \in 1 .. BackoffMax
        BY ChConstants
      <4>1. s \in ChSlot /\ s.use
        BY <1>0, <1>1, <4>0, ZenonT(60) DEF ChSlot
      <4>2. slot' = [slot EXCEPT ![c] = Chans!Later(s)] /\ UNCHANGED <<stream, rtsp, faults>>
        BY <3>1 DEF Chans!TickPlaying
      <4> HIDE DEF s
      <4> QED
        BY <4>1, <4>2, ChSlots
    <3>2. CASE Chans!TickConnecting(c)
      <4> DEFINE s == [slot[c] EXCEPT !.status = "connecting"]
      <4>1. s \in ChSlot /\ s.use
        BY <1>0, <1>1, ChConstants DEF ChSlot
      <4>2. slot' = [slot EXCEPT ![c] = Chans!Later(s)] /\ UNCHANGED <<stream, rtsp, faults>>
        BY <3>2 DEF Chans!TickConnecting
      <4> HIDE DEF s
      <4> QED
        BY <4>1, <4>2, ChSlots
    <3> QED
      BY <1>3, <3>1, <3>2
  <2>2. stream' = [stream EXCEPT ![c] = stream[c]] /\ rtsp' = rtsp /\ faults' = faults
    BY <2>1 DEF ChInv, ChTyped
  <2>3. \A k \in RtspClient : stream[c].puller = k => rtsp[k].chan = c
    BY <1>0, ChConstants DEF ChHeld
  <2> QED
    BY <1>0, <1>1, <2>1, <2>2, <2>3, ChChannel, ZenonT(60)
<1>4. CASE Chans!TickLost(c)
  <2>1. Chans!Retry(c, slot[c], <<stream[c], rtsp, faults>>) /\ stream[c].state \in {"nosignal", "fail"}
    BY <1>4 DEF Chans!TickLost
  <2> QED
    BY <1>0, <1>1, <2>1, ChRetries
<1> QED
  BY <1>2, <1>3, <1>4 DEF Chans!Tick

\* A notification changes the state of the entry of a channel that is in use.
LEMMA ChNotifies ==
  ASSUME ChInv, NEW k \in RtspClient, NEW pc \in {"play", "quiet", "ending", "over"},
         NEW state \in {"idle", "playing", "nosignal", "fail"},
         Chans!Notify(k, pc, state), rtsp[k].pc # "none", faults' \in 0 .. MaxFaults
  PROVE  ChInv' /\ Chans!ForgetsByResolve
<1>1. PICK c \in Chan : rtsp[k].chan = c
  BY DEF ChInv
<1> DEFINE e == [stream[c] EXCEPT !.state = state]
<1>2. stream' = [stream EXCEPT ![c] = e] /\ rtsp' = [rtsp EXCEPT ![k].pc = pc] /\ UNCHANGED <<booted, slot, camera>>
  BY <1>1 DEF Chans!Notify
<1>3. /\ slot[c].use /\ slot[c] \in ChSlot /\ slot = [slot EXCEPT ![c] = slot[c]]
      /\ stream[c] \in ChEntry /\ rtsp \in ChClients /\ ChHeld(c, stream[c], rtsp)
  BY <1>1 DEF ChInv, ChTyped
<1>4. /\ e \in ChEntry /\ e.puller = stream[c].puller /\ e.gated = stream[c].gated /\ e.writer = stream[c].writer
  BY <1>3 DEF ChEntry
<1>5. /\ rtsp' \in ChClients /\ rtsp'[k].chan = c /\ rtsp'[k].pc = pc
      /\ \A j \in RtspClient : rtsp'[j].chan = rtsp[j].chan /\ (j # k => rtsp'[j] = rtsp[j])
  BY <1>1, <1>2, <1>3 DEF ChClients
<1> HIDE DEF e
<1>6. ChHeld(c, e, rtsp')
  <2>1. e.puller # NoClient => e.puller \in RtspClient
    BY <1>4 DEF ChEntry
  <2> QED
    BY <1>3, <1>4, <1>5, <2>1 DEF ChHeld
<1>7. \A j \in RtspClient : stream[c].puller = j => rtsp'[j].chan = c /\ e.puller = j
  BY <1>3, <1>4, <1>5, ChConstants DEF ChHeld
<1> QED
  BY <1>1, <1>2, <1>3, <1>5, <1>6, <1>7, ChChannel

LEMMA ChReceives ==
  ASSUME ChInv, NEW k \in RtspClient, Chans!Receiving(k) \/ Chans!AuthFails(k) \/ Chans!Closes(k)
  PROVE  ChInv' /\ Chans!ForgetsByResolve
<1>1. rtsp[k].pc # "none"
  BY DEF Chans!Receiving, Chans!AuthFails, Chans!Closes, Chans!Connects, Chans!ConnectFails, Chans!NoData,
         Chans!Resumes, Chans!Ends
<1>2. faults' \in 0 .. MaxFaults
  <2>1. faults' = faults \/ (faults < MaxFaults /\ faults' = faults + 1)
    BY DEF Chans!Receiving, Chans!AuthFails, Chans!Closes, Chans!Connects, Chans!ConnectFails, Chans!NoData,
           Chans!Resumes, Chans!Ends, Chans!Fault
  <2> QED
    BY <2>1, ChConstants DEF ChInv, ChTyped
<1>3. \E pc \in {"play", "quiet", "ending", "over"}, state \in {"idle", "playing", "nosignal", "fail"} :
        Chans!Notify(k, pc, state)
  BY Zenon DEF Chans!Receiving, Chans!AuthFails, Chans!Closes, Chans!Connects, Chans!ConnectFails, Chans!NoData,
               Chans!Resumes, Chans!Ends
<1> QED
  BY <1>1, <1>2, <1>3, ChNotifies

\* What opens the gate is a key frame.
LEMMA ChFrames ==
  ASSUME ChInv, NEW k \in RtspClient, NEW key \in BOOLEAN, Chans!Frame(k, key)
  PROVE  ChInv' /\ Chans!ForgetsByResolve
<1>1. PICK c \in Chan : rtsp[k].chan = c /\ slot[c].use
  BY DEF ChInv, Chans!Frame
<1> DEFINE e == [stream[c] EXCEPT !.gated = TRUE, !.writer = IF key THEN "fromkey" ELSE "headless"]
<1>2. /\ slot[c] \in ChSlot /\ slot = [slot EXCEPT ![c] = slot[c]] /\ stream \in [Chan -> ChEntry]
      /\ stream[c] \in ChEntry /\ rtsp \in ChClients /\ faults \in 0 .. MaxFaults /\ ChHeld(c, stream[c], rtsp)
  BY DEF ChInv, ChTyped
<1>3. UNCHANGED <<booted, slot, rtsp, camera, faults>> /\ stream[c].writer = "empty" /\ Chans!Gate(stream[c], key)
  BY <1>1 DEF Chans!Frame
<1>4. key
  BY <1>2, <1>3 DEF Chans!Gate, ChHeld
<1>5. stream' = [stream EXCEPT ![c] = e]
  BY <1>1, <1>2 DEF Chans!Frame
<1>6. e \in ChEntry /\ e.writer = "fromkey" /\ e.puller = stream[c].puller
  BY <1>2, <1>4 DEF ChEntry
<1> HIDE DEF e
<1>7. ChHeld(c, e, rtsp)
  BY <1>2, <1>6 DEF ChHeld
<1>8. \A j \in RtspClient : stream[c].puller = j => rtsp[j].chan = c /\ e.puller = j
  BY <1>2, <1>6, ChConstants DEF ChHeld
<1> QED
  BY <1>1, <1>2, <1>3, <1>5, <1>7, <1>8, ChChannel

LEMMA ChStep == ASSUME ChInv, Chans!ChannelsNext PROVE ChInv' /\ Chans!ForgetsByResolve
<1>1. ASSUME Chans!Boot PROVE ChInv' /\ Chans!ForgetsByResolve
  BY <1>1, ChBoots, ChStartsAll, Zenon DEF Chans!Boot
<1>2. TRUE \in BOOLEAN /\ FALSE \in BOOLEAN
  OBVIOUS
<1> QED
  BY <1>1, <1>2, ChBoots, ChInstalls, ChTicks, ChReceives, ChFrames, Zenon DEF Chans!ChannelsNext

LEMMA ChIsSafe == ASSUME ChInv PROVE Chans!ChannelsSafe
<1>1. Chans!RecordsFromKey
  BY DEF ChInv, ChTyped, ChEntry, Chans!RecordsFromKey
<1>2. Chans!ChannelsTypeOK
  BY DEF ChInv, ChTyped, ChHeld, ChSlot, ChEntry, ChClients, Chans!ChannelsTypeOK
<1> QED
  BY <1>1, <1>2 DEF Chans!ChannelsSafe

LEMMA ChHolds == BoxSpec => []ChInv /\ [][Chans!ForgetsByResolve]_channelsVars
<1>1. BoxInit => ChInv
  BY ChInitInv, Zenon DEF BoxInit
<1>2. ChInv /\ [BoxNext]_boxVars => ChInv' /\ [Chans!ForgetsByResolve]_channelsVars
  <2> SUFFICES ASSUME ChInv, [BoxNext]_boxVars PROVE ChInv' /\ [Chans!ForgetsByResolve]_channelsVars
    OBVIOUS
  <2>1. CASE UNCHANGED channelsVars
    BY <2>1 DEF channelsVars, ChInv, ChTyped, ChHeld
  <2>2. CASE Chans!ChannelsNext
    BY <2>2, ChStep, Zenon
  <2> QED
    BY <2>1, <2>2, Zenon DEF BoxNext, boxVars
<1> QED
  BY <1>1, <1>2, PTL DEF BoxSpec

(***************************************************************************)
(* stream_router.c: what a writer is given begins with a key frame, after  *)
(* every reconnect too: for any channels, clients, faults and back-off.    *)
(***************************************************************************)
THEOREM RecordsFromKeyFrames == BoxSpec => []ChannelsSafe
<1>1. ChInv => ChannelsSafe
  BY ChIsSafe, Zenon DEF ChannelsSafe
<1> QED
  BY <1>1, ChHolds, PTL

(***************************************************************************)
(* stream_mgr.cpp: no reconnect, however it fails, loses a client that     *)
(* still runs; only the address that is asked for at the first tick does.  *)
(* This is the first part of ChannelsRecover.                              *)
(***************************************************************************)
THEOREM ReconnectsKeepClients == BoxSpec => [][Chans!ForgetsByResolve]_channelsVars
BY ChHolds, PTL

-----------------------------------------------------------------------------
(***************************************************************************)
(* Admission.  Channels and hosts tell the entries of the registry apart;  *)
(* among fewer entries than slots there is always a channel that is free.  *)
(***************************************************************************)
AdmEntry == [host : Adm!Hosts \cup {"none"}, chan : -1 .. Adm!Highest]
AdmWindow == [state : {"idle", "scanning", "done"}, elapsed : BOOLEAN, added : 0 .. Adm!Highest, opened : Int]

AdmTyped ==
  /\ registry \in [RegSlot -> AdmEntry] /\ regCount = Cardinality(Adm!Active(registry))
  /\ window \in AdmWindow
  /\ finder \in [Finder -> [at : {"idle", "admit", "count"}, host : Adm!Hosts \cup {"none"}]]
  /\ coaxChan \in [CoaxHost -> -1 .. Adm!Highest] /\ plugged \subseteq CoaxHost

AdmInv ==
  /\ AdmTyped
  /\ \A f \in Finder : finder[f].at # "idle" => finder[f].host \in WifiHost
  /\ Adm!OneCameraPerChannel
  /\ Adm!CoaxWhereBound

LEMMA AdmConstants ==
  /\ WifiHost \cap CoaxHost = {} /\ IsFiniteSet(RegSlot) /\ IsFiniteSet(CoaxHost)
  /\ Adm!Highest \in Nat /\ Adm!Highest = Cardinality(RegSlot) + Cardinality(CoaxHost)
  /\ InputOf \in [CoaxHost -> 0 .. Adm!Highest] /\ Cardinality(RegSlot) \in Nat
<1>1. \A S : Adm!Cardinality(S) = Cardinality(S) /\ (Adm!IsFiniteSet(S) <=> IsFiniteSet(S))
  BY DEF Adm!Cardinality, Cardinality, Adm!IsFiniteSet, IsFiniteSet
<1>2. /\ WifiHost \cap CoaxHost = {} /\ IsFiniteSet(RegSlot) /\ IsFiniteSet(CoaxHost)
      /\ InputOf \in [CoaxHost -> 0 .. Cardinality(CoaxHost) - 1]
  BY <1>1, BoxAssumption DEF Adm!AdmissionAssumption
<1>3. Cardinality(RegSlot) \in Nat /\ Cardinality(CoaxHost) \in Nat
  BY <1>2, FS_CardinalityType
<1>4. Adm!Highest = Cardinality(RegSlot) + Cardinality(CoaxHost)
  BY <1>1 DEF Adm!Highest
<1> QED
  BY <1>2, <1>3, <1>4

LEMMA AdmActive ==
  ASSUME NEW reg
  PROVE  /\ IsFiniteSet(Adm!Active(reg)) /\ Cardinality(Adm!Active(reg)) \in Nat
         /\ Cardinality(Adm!Active(reg)) <= Cardinality(RegSlot)
<1>1. Adm!Active(reg) \in SUBSET RegSlot
  BY DEF Adm!Active
<1> QED
  BY <1>1, AdmConstants, FS_Subset, FS_CardinalityType

\* One slot is left over: so is one of the channels.
LEMMA AdmSomeFree ==
  ASSUME NEW reg \in [RegSlot -> AdmEntry]
  PROVE  \E n \in 0 .. Adm!Highest : ~Adm!InUse(reg, n)
<1> SUFFICES ASSUME \A n \in 0 .. Adm!Highest : Adm!InUse(reg, n) PROVE FALSE
  OBVIOUS
<1> DEFINE f == [n \in 0 .. Adm!Highest |-> CHOOSE s \in Adm!ByChannel(reg, n) : TRUE]
<1>1. \A n \in 0 .. Adm!Highest : f[n] \in Adm!Active(reg) /\ reg[f[n]].chan = n
  BY DEF Adm!InUse, Adm!ByChannel
<1>2. f \in [0 .. Adm!Highest -> Adm!Active(reg)]
  BY <1>1
<1>3. IsFiniteSet(0 .. Adm!Highest) /\ Cardinality(0 .. Adm!Highest) = Adm!Highest + 1
  BY AdmConstants, FS_Interval
<1>4. Cardinality(Adm!Active(reg)) < Cardinality(0 .. Adm!Highest)
  <2>1. Cardinality(CoaxHost) \in Nat
    BY AdmConstants, FS_CardinalityType
  <2> QED
    BY <1>3, <2>1, AdmActive, AdmConstants
<1> HIDE DEF f
<1>5. \E n, m \in 0 .. Adm!Highest : n # m /\ f[n] = f[m]
  BY <1>2, <1>3, <1>4, AdmActive, FS_PigeonHole
<1> QED
  BY <1>1, <1>5

LEMMA AdmLowest ==
  ASSUME NEW reg \in [RegSlot -> AdmEntry]
  PROVE  Adm!LowestFree(reg) \in 0 .. Adm!Highest /\ ~Adm!InUse(reg, Adm!LowestFree(reg))
<1> DEFINE F == {n \in 0 .. Adm!Highest : ~Adm!InUse(reg, n)}
<1>1. F \in SUBSET Nat /\ F # {}
  BY AdmSomeFree, AdmConstants
<1>2. PICK n \in F : \A m \in F : n <= m
  <2> HIDE DEF F
  <2> QED
    BY <1>1, Least
<1>3. \A m \in 0 .. n - 1 : Adm!InUse(reg, m)
  <2>1. n \in 0 .. Adm!Highest /\ Adm!Highest \in Nat
    BY AdmConstants
  <2> QED
    BY <1>2, <2>1
<1> QED
  BY <1>2, <1>3 DEF Adm!LowestFree

LEMMA AdmAssigned ==
  ASSUME NEW reg \in [RegSlot -> AdmEntry], NEW want \in -1 .. Adm!Highest
  PROVE  Adm!Assigned(reg, want) \in 0 .. Adm!Highest /\ ~Adm!InUse(reg, Adm!Assigned(reg, want))
BY AdmLowest, AdmConstants DEF Adm!Assigned

LEMMA AdmInitInv == ASSUME Adm!AdmInit PROVE AdmInv
<1>1. Adm!Active(registry) = {}
  BY DEF Adm!AdmInit, Adm!Active, Adm!NoEntry
<1>2. AdmTyped
  <2>1. -1 \in -1 .. Adm!Highest /\ 0 \in 0 .. Adm!Highest
    BY AdmConstants
  <2>2. registry \in [RegSlot -> AdmEntry] /\ window \in AdmWindow
    BY <2>1 DEF Adm!AdmInit, AdmEntry, AdmWindow, Adm!NoEntry
  <2>3. regCount = Cardinality(Adm!Active(registry))
    BY <1>1, FS_EmptySet DEF Adm!AdmInit
  <2> QED
    BY <2>1, <2>2, <2>3 DEF Adm!AdmInit, AdmTyped, Adm!Quiet
<1> QED
  BY <1>1, <1>2 DEF Adm!AdmInit, AdmInv, Adm!Quiet, Adm!OneCameraPerChannel, Adm!CoaxWhereBound

\* What nop_nvr_channels_add makes of the registry; a camera that has a channel keeps it.
LEMMA AdmRegisters ==
  ASSUME AdmInv, NEW h \in Adm!Hosts, NEW want \in -1 .. Adm!Highest, Adm!Register(h, want)
  PROVE  /\ registry' \in [RegSlot -> AdmEntry] /\ regCount' = Cardinality(Adm!Active(registry'))
         /\ Adm!OneCameraPerChannel'
         /\ \A s \in RegSlot : registry[s].chan # -1 => registry'[s] = registry[s]
         /\ Adm!ChannelFor(h, want) \in -1 .. Adm!Highest
         /\ Adm!ChannelFor(h, want) # -1 => \E s \in RegSlot : registry'[s] = [host |-> h, chan |-> Adm!ChannelFor(h, want)]
<1>0. registry \in [RegSlot -> AdmEntry] /\ regCount = Cardinality(Adm!Active(registry))
  BY DEF AdmInv, AdmTyped
<1>1. CASE Adm!ByHost(registry, h) # {}
  <2>1. UNCHANGED <<registry, regCount>>
    BY <1>1 DEF Adm!Register
  <2>2. PICK s \in Adm!ByHost(registry, h) : Adm!ChannelFor(h, want) = registry[s].chan
    BY <1>1 DEF Adm!ChannelFor
  <2>3. s \in RegSlot /\ registry[s].host = h /\ registry[s] \in AdmEntry
    BY <1>0, <2>2 DEF Adm!ByHost, Adm!Active
  <2>4. registry[s] = [host |-> h, chan |-> registry[s].chan]
    BY <2>3 DEF AdmEntry
  <2>5. registry[s].chan \in -1 .. Adm!Highest
    BY <2>3 DEF AdmEntry
  <2> QED
    BY <1>0, <2>1, <2>2, <2>3, <2>4, <2>5 DEF AdmInv, Adm!OneCameraPerChannel
<1>2. CASE Adm!ByHost(registry, h) = {} /\ Adm!Active(registry) = RegSlot
  <2>1. UNCHANGED <<registry, regCount>> /\ Adm!ChannelFor(h, want) = -1
    BY <1>2 DEF Adm!Register, Adm!ChannelFor
  <2> QED
    BY <1>0, <2>1, AdmConstants DEF AdmInv, Adm!OneCameraPerChannel
<1>3. CASE Adm!ByHost(registry, h) = {} /\ Adm!Active(registry) # RegSlot
  <2> DEFINE n == Adm!Assigned(registry, want)
             v == [host |-> h, chan |-> n]
  <2>1. PICK s \in RegSlot \ Adm!Active(registry) :
          registry' = [registry EXCEPT ![s] = v] /\ regCount' = regCount + 1
    <3>1. \E s \in RegSlot : s \notin Adm!Active(registry)
      BY <1>3 DEF Adm!Active
    <3> QED
      BY <1>3, <3>1 DEF Adm!Register
  <2>2. n \in 0 .. Adm!Highest /\ ~Adm!InUse(registry, n) /\ Adm!ChannelFor(h, want) = n
    BY <1>0, <1>3, AdmAssigned DEF Adm!ChannelFor
  <2> HIDE DEF n
  <2>3. v \in AdmEntry /\ v.chan = n /\ v.host = h /\ n # -1
    BY <2>2, AdmConstants DEF AdmEntry
  <2>4. registry[s].chan = -1
    BY <2>1 DEF Adm!Active
  <2>5. registry' \in [RegSlot -> AdmEntry] /\ registry'[s] = v /\ \A t \in RegSlot : t # s => registry'[t] = registry[t]
    BY <1>0, <2>1, <2>3
  <2> HIDE DEF v
  <2>6. Adm!Active(registry') = Adm!Active(registry) \cup {s}
    BY <2>1, <2>3, <2>5 DEF Adm!Active
  <2>7. regCount' = Cardinality(Adm!Active(registry'))
    BY <1>0, <2>1, <2>6, AdmActive, FS_AddElement
  <2>8. \A t \in Adm!Active(registry) : registry[t].chan # n /\ registry[t].host # h
    BY <1>3, <2>2 DEF Adm!InUse, Adm!ByChannel, Adm!ByHost
  <2>9. Adm!OneCameraPerChannel'
    BY <2>1, <2>3, <2>5, <2>6, <2>8 DEF AdmInv, Adm!OneCameraPerChannel, Adm!Active
  <2>10. v = [host |-> h, chan |-> n]
    BY DEF v
  <2> QED
    BY <2>1, <2>2, <2>4, <2>5, <2>7, <2>9, <2>10, AdmConstants
<1> QED
  BY <1>1, <1>2, <1>3

\* What nop_nvr_channels_remove makes of it: one camera goes, and no other.
LEMMA AdmDeregisters ==
  ASSUME AdmInv, NEW n \in 0 .. Adm!Highest, Adm!Deregister(n)
  PROVE  /\ registry' \in [RegSlot -> AdmEntry] /\ regCount' = Cardinality(Adm!Active(registry'))
         /\ Adm!OneCameraPerChannel'
         /\ \A s \in RegSlot : registry[s].chan # n => registry'[s] = registry[s]
<1> DEFINE held == Adm!ByChannel(registry, n)
<1>0. registry \in [RegSlot -> AdmEntry] /\ regCount = Cardinality(Adm!Active(registry))
  BY DEF AdmInv, AdmTyped
<1>1. /\ registry' = [s \in RegSlot |-> IF s \in held THEN Adm!NoEntry ELSE registry[s]]
      /\ regCount' = IF held = {} THEN regCount ELSE regCount - 1
  BY DEF Adm!Deregister
<1>2. Adm!NoEntry \in AdmEntry /\ Adm!NoEntry.chan = -1
  BY AdmConstants DEF Adm!NoEntry, AdmEntry
<1>3. \A s \in RegSlot : s \in held <=> registry[s].chan = n
  BY AdmConstants DEF Adm!ByChannel, Adm!Active
<1>4. held \subseteq Adm!Active(registry)
  BY DEF Adm!ByChannel
<1> HIDE DEF held
<1>5. registry' \in [RegSlot -> AdmEntry]
  BY <1>0, <1>1, <1>2
<1>6. \A s \in RegSlot : registry[s].chan # n => registry'[s] = registry[s]
  BY <1>1, <1>3
<1>7. Adm!Active(registry') = Adm!Active(registry) \ held
  BY <1>1, <1>2 DEF Adm!Active
<1>8. regCount' = Cardinality(Adm!Active(registry'))
  <2>1. CASE held = {}
    BY <1>0, <1>1, <1>7, <2>1
  <2>2. CASE held # {}
    <3>1. PICK s \in held : TRUE
      BY <2>2
    <3>2. held = {s}
      BY <1>3, <1>4, <3>1 DEF AdmInv, Adm!OneCameraPerChannel, Adm!Active
    <3> QED
      BY <1>0, <1>1, <1>4, <1>7, <3>2, AdmActive, FS_RemoveElement
  <2> QED
    BY <2>1, <2>2
<1>9. Adm!OneCameraPerChannel'
  BY <1>1, <1>7 DEF AdmInv, Adm!OneCameraPerChannel, Adm!Active
<1> QED
  BY <1>5, <1>6, <1>8, <1>9

\* Where the camera of an input is in the registry stays as it is, and with it all that the inputs remember.
LEMMA AdmCoaxKept ==
  ASSUME AdmInv, UNCHANGED coaxChan,
         \A t \in RegSlot : registry[t].host \in CoaxHost /\ registry[t].chan # -1 => registry'[t] = registry[t]
  PROVE  Adm!CoaxWhereBound'
<1> SUFFICES ASSUME NEW x \in CoaxHost, coaxChan[x] >= 0
             PROVE  \E s \in RegSlot : registry'[s] = [host |-> x, chan |-> coaxChan[x]]
  BY DEF Adm!CoaxWhereBound
<1>1. PICK s \in RegSlot : registry[s] = [host |-> x, chan |-> coaxChan[x]]
  BY DEF AdmInv, Adm!CoaxWhereBound
<1>2. registry[s].host \in CoaxHost /\ registry[s].chan # -1
  BY <1>1
<1> QED
  BY <1>1, <1>2

LEMMA AdmCoaxStays ==
  ASSUME AdmInv, UNCHANGED <<window, finder, coaxChan, plugged>>,
         registry' \in [RegSlot -> AdmEntry], regCount' = Cardinality(Adm!Active(registry')), Adm!OneCameraPerChannel',
         \A t \in RegSlot : registry[t].host \in CoaxHost /\ registry[t].chan # -1 => registry'[t] = registry[t]
  PROVE  AdmInv'
BY AdmCoaxKept DEF AdmInv, AdmTyped

LEMMA AdmAdds ==
  ASSUME AdmInv, NEW h \in WifiHost, NEW w \in {-1, 0, 1}, Adm!AddManually(h, w)
  PROVE  AdmInv'
<1>1. Adm!Register(h, w) /\ UNCHANGED <<window, finder, coaxChan, plugged>> /\ h \in Adm!Hosts
  BY DEF Adm!AddManually, Adm!Hosts
<1>2. CASE RegSlot # {}
  <2>1. PICK s \in RegSlot : TRUE
    BY <1>2
  <2>2. Cardinality(RegSlot) # 0
    BY <2>1, AdmConstants, FS_EmptySet
  <2>3. w \in -1 .. Adm!Highest
    <3>1. Cardinality(CoaxHost) \in Nat
      BY AdmConstants, FS_CardinalityType
    <3> QED
      BY <2>2, <3>1, AdmConstants
  <2>4. /\ registry' \in [RegSlot -> AdmEntry] /\ regCount' = Cardinality(Adm!Active(registry'))
        /\ Adm!OneCameraPerChannel'
        /\ \A t \in RegSlot : registry[t].chan # -1 => registry'[t] = registry[t]
    BY <1>1, <2>3, AdmRegisters
  <2> QED
    BY <1>1, <2>4, AdmCoaxStays
<1>3. CASE RegSlot = {}
  <2>1. Adm!Active(registry) = RegSlot
    BY <1>3 DEF Adm!Active
  <2>2. UNCHANGED <<registry, regCount>>
    BY <1>1, <2>1 DEF Adm!Register
  <2> QED
    BY <1>1, <2>2 DEF AdmInv, AdmTyped, Adm!OneCameraPerChannel, Adm!CoaxWhereBound
<1> QED
  BY <1>2, <1>3

\* RemoveCamera is for cameras of the network: no input loses its camera to it.
LEMMA AdmRemoves ==
  ASSUME AdmInv, NEW h \in WifiHost, Adm!RemoveCamera(h)
  PROVE  AdmInv'
<1>1. PICK s \in Adm!ByHost(registry, h) :
        Adm!Deregister(registry[s].chan) /\ UNCHANGED <<window, finder, coaxChan, plugged>>
  BY DEF Adm!RemoveCamera
<1>2. s \in RegSlot /\ registry[s].chan # -1 /\ registry[s].host = h /\ registry[s].chan \in 0 .. Adm!Highest
  BY <1>1, AdmConstants DEF Adm!ByHost, Adm!Active, AdmInv, AdmTyped, AdmEntry
<1>3. /\ registry' \in [RegSlot -> AdmEntry] /\ regCount' = Cardinality(Adm!Active(registry'))
      /\ Adm!OneCameraPerChannel'
      /\ \A t \in RegSlot : registry[t].chan # registry[s].chan => registry'[t] = registry[t]
  BY <1>1, <1>2, AdmDeregisters
<1>4. \A t \in RegSlot : registry[t].host \in CoaxHost /\ registry[t].chan # -1 => registry'[t] = registry[t]
  BY <1>2, <1>3, AdmConstants DEF AdmInv, Adm!OneCameraPerChannel, Adm!Active
<1> QED
  BY <1>1, <1>3, <1>4, AdmCoaxStays

LEMMA AdmWindows ==
  ASSUME AdmInv, Adm!OpenWindow \/ Adm!CloseWindow \/ Adm!WindowStatus \/ Adm!WindowElapses
  PROVE  AdmInv'
<1>1. UNCHANGED <<registry, regCount, finder, coaxChan, plugged>>
  BY DEF Adm!OpenWindow, Adm!CloseWindow, Adm!WindowStatus, Adm!WindowElapses
<1>2. window \in AdmWindow
  BY DEF AdmInv, AdmTyped
<1>3. window' \in AdmWindow
  <2>1. CASE Adm!OpenWindow
    BY <1>2, <2>1, AdmConstants DEF Adm!OpenWindow, AdmWindow
  <2>2. CASE Adm!CloseWindow \/ Adm!WindowElapses
    BY <1>2, <2>2 DEF Adm!CloseWindow, Adm!WindowElapses, AdmWindow
  <2>3. CASE Adm!WindowStatus
    BY <1>2, <2>3 DEF Adm!WindowStatus, Adm!Refreshed, AdmWindow
  <2> QED
    BY <2>1, <2>2, <2>3
<1> QED
  BY <1>1, <1>3 DEF AdmInv, AdmTyped, Adm!OneCameraPerChannel, Adm!CoaxWhereBound

LEMMA AdmChecks ==
  ASSUME AdmInv, NEW f \in Finder, NEW h \in WifiHost, Adm!OfferCheck(f, h)
  PROVE  AdmInv'
<1>1. UNCHANGED <<registry, regCount, coaxChan, plugged>> /\ window' = Adm!Refreshed
  BY DEF Adm!OfferCheck
<1>2. window' \in AdmWindow
  BY <1>1 DEF Adm!Refreshed, AdmWindow, AdmInv, AdmTyped
<1>3. PICK v \in [at : {"idle", "admit", "count"}, host : Adm!Hosts \cup {"none"}] :
        finder' = [finder EXCEPT ![f] = v] /\ (v.at # "idle" => v.host \in WifiHost)
  <2> DEFINE v == IF Adm!Refreshed.state = "scanning" THEN [at |-> "admit", host |-> h] ELSE Adm!Quiet
  <2>1. finder' = [finder EXCEPT ![f] = v]
    BY DEF Adm!OfferCheck
  <2>2. v \in [at : {"idle", "admit", "count"}, host : Adm!Hosts \cup {"none"}] /\ (v.at # "idle" => v.host \in WifiHost)
    BY DEF Adm!Quiet, Adm!Hosts
  <2> QED
    BY <2>1, <2>2
<1>4. /\ finder' \in [Finder -> [at : {"idle", "admit", "count"}, host : Adm!Hosts \cup {"none"}]]
      /\ \A g \in Finder : finder'[g].at # "idle" => finder'[g].host \in WifiHost
  BY <1>3 DEF AdmInv, AdmTyped
<1> QED
  BY <1>1, <1>2, <1>4 DEF AdmInv, AdmTyped, Adm!OneCameraPerChannel, Adm!CoaxWhereBound

LEMMA AdmAdmits ==
  ASSUME AdmInv, NEW f \in Finder, Adm!OfferAdmit(f)
  PROVE  AdmInv'
<1>1. /\ Adm!Register(finder[f].host, -1) /\ UNCHANGED <<window, coaxChan, plugged>>
      /\ finder[f].host \in WifiHost /\ finder[f].host \in Adm!Hosts
  BY DEF Adm!OfferAdmit, AdmInv, Adm!Hosts
<1>2. -1 \in -1 .. Adm!Highest
  BY AdmConstants
<1>3. /\ registry' \in [RegSlot -> AdmEntry] /\ regCount' = Cardinality(Adm!Active(registry'))
      /\ Adm!OneCameraPerChannel'
      /\ \A t \in RegSlot : registry[t].chan # -1 => registry'[t] = registry[t]
  BY <1>1, <1>2, AdmRegisters
<1>4. PICK v \in [at : {"idle", "admit", "count"}, host : Adm!Hosts \cup {"none"}] :
        finder' = [finder EXCEPT ![f] = v] /\ (v.at # "idle" => v.host \in WifiHost)
  <2> DEFINE v == IF Adm!ChannelFor(finder[f].host, -1) < 0 THEN Adm!Quiet ELSE [finder[f] EXCEPT !.at = "count"]
  <2>1. finder' = [finder EXCEPT ![f] = v]
    BY DEF Adm!OfferAdmit
  <2>2. finder[f] \in [at : {"idle", "admit", "count"}, host : Adm!Hosts \cup {"none"}]
    BY DEF AdmInv, AdmTyped
  <2>3. v \in [at : {"idle", "admit", "count"}, host : Adm!Hosts \cup {"none"}] /\ (v.at # "idle" => v.host \in WifiHost)
    BY <1>1, <2>2 DEF Adm!Quiet
  <2> QED
    BY <2>1, <2>3
<1>5. /\ finder' \in [Finder -> [at : {"idle", "admit", "count"}, host : Adm!Hosts \cup {"none"}]]
      /\ \A g \in Finder : finder'[g].at # "idle" => finder'[g].host \in WifiHost
  BY <1>4 DEF AdmInv, AdmTyped
<1> QED
  BY <1>1, <1>3, <1>5, AdmCoaxKept DEF AdmInv, AdmTyped

LEMMA AdmCounts ==
  ASSUME AdmInv, NEW f \in Finder, Adm!OfferCount(f)
  PROVE  AdmInv'
<1>1. UNCHANGED <<registry, regCount, coaxChan, plugged>> /\ finder' = [finder EXCEPT ![f] = Adm!Quiet]
  BY DEF Adm!OfferCount
<1>2. window' \in AdmWindow
  <2> DEFINE n == IF window.state = "scanning" /\ window.added < Adm!Highest THEN window.added + 1 ELSE window.added
  <2>1. window \in AdmWindow /\ n \in 0 .. Adm!Highest
    BY AdmConstants DEF AdmInv, AdmTyped, AdmWindow
  <2>2. window' = [window EXCEPT !.added = n]
    BY DEF Adm!OfferCount
  <2> HIDE DEF n
  <2> QED
    BY <2>1, <2>2 DEF AdmWindow
<1>3. /\ finder' \in [Finder -> [at : {"idle", "admit", "count"}, host : Adm!Hosts \cup {"none"}]]
      /\ \A g \in Finder : finder'[g].at # "idle" => finder'[g].host \in WifiHost
  BY <1>1 DEF AdmInv, AdmTyped, Adm!Quiet
<1> QED
  BY <1>1, <1>2, <1>3 DEF AdmInv, AdmTyped, Adm!OneCameraPerChannel, Adm!CoaxWhereBound

LEMMA AdmPollsIn ==
  ASSUME AdmInv, NEW x \in CoaxHost, Adm!PollIn(x)
  PROVE  AdmInv'
<1> DEFINE n == Adm!ChannelFor(x, InputOf[x])
<1>1. /\ Adm!Register(x, InputOf[x]) /\ coaxChan' = [coaxChan EXCEPT ![x] = n]
      /\ UNCHANGED <<window, finder, plugged>> /\ x \in Adm!Hosts
  BY DEF Adm!PollIn, Adm!BoundTo, Adm!Hosts
<1>2. InputOf[x] \in -1 .. Adm!Highest
  BY AdmConstants
<1>3. /\ registry' \in [RegSlot -> AdmEntry] /\ regCount' = Cardinality(Adm!Active(registry'))
      /\ Adm!OneCameraPerChannel'
      /\ \A t \in RegSlot : registry[t].chan # -1 => registry'[t] = registry[t]
      /\ n \in -1 .. Adm!Highest
      /\ n # -1 => \E s \in RegSlot : registry'[s] = [host |-> x, chan |-> n]
  BY <1>1, <1>2, AdmRegisters
<1> HIDE DEF n
<1>4. coaxChan' \in [CoaxHost -> -1 .. Adm!Highest]
  BY <1>1, <1>3 DEF AdmInv, AdmTyped
<1>5. ASSUME NEW y \in CoaxHost, coaxChan'[y] >= 0
      PROVE  \E s \in RegSlot : registry'[s] = [host |-> y, chan |-> coaxChan'[y]]
  <2>1. CASE y = x
    BY <1>1, <1>3, <1>5, <2>1, AdmConstants DEF AdmInv, AdmTyped
  <2>2. CASE y # x
    <3>1. coaxChan'[y] = coaxChan[y]
      BY <1>1, <2>2 DEF AdmInv, AdmTyped
    <3>2. PICK s \in RegSlot : registry[s] = [host |-> y, chan |-> coaxChan[y]]
      BY <1>5, <3>1 DEF AdmInv, Adm!CoaxWhereBound
    <3>3. registry[s].chan # -1
      BY <1>5, <3>1, <3>2
    <3> QED
      BY <1>3, <3>1, <3>2, <3>3
  <2> QED
    BY <2>1, <2>2
<1> QED
  BY <1>1, <1>3, <1>4, <1>5 DEF AdmInv, AdmTyped, Adm!CoaxWhereBound

LEMMA AdmPollsOut ==
  ASSUME AdmInv, NEW x \in CoaxHost, Adm!PollOut(x)
  PROVE  AdmInv'
<1>1. /\ Adm!Deregister(coaxChan[x]) /\ coaxChan' = [coaxChan EXCEPT ![x] = -1] /\ coaxChan[x] >= 0
      /\ UNCHANGED <<window, finder, plugged>>
  BY DEF Adm!PollOut
<1>2. coaxChan[x] \in 0 .. Adm!Highest
  BY <1>1, AdmConstants DEF AdmInv, AdmTyped
<1>3. /\ registry' \in [RegSlot -> AdmEntry] /\ regCount' = Cardinality(Adm!Active(registry'))
      /\ Adm!OneCameraPerChannel'
      /\ \A t \in RegSlot : registry[t].chan # coaxChan[x] => registry'[t] = registry[t]
  BY <1>1, <1>2, AdmDeregisters
<1>4. coaxChan' \in [CoaxHost -> -1 .. Adm!Highest]
  BY <1>1, AdmConstants DEF AdmInv, AdmTyped
<1>5. PICK s \in RegSlot : registry[s] = [host |-> x, chan |-> coaxChan[x]]
  BY <1>1 DEF AdmInv, Adm!CoaxWhereBound
<1>6. ASSUME NEW y \in CoaxHost, coaxChan'[y] >= 0
      PROVE  \E t \in RegSlot : registry'[t] = [host |-> y, chan |-> coaxChan'[y]]
  <2>1. y # x /\ coaxChan'[y] = coaxChan[y]
    BY <1>1, <1>6 DEF AdmInv, AdmTyped
  <2>2. PICK t \in RegSlot : registry[t] = [host |-> y, chan |-> coaxChan[y]]
    BY <1>6, <2>1 DEF AdmInv, Adm!CoaxWhereBound
  <2>3. t # s /\ registry[t].chan # -1 /\ registry[s].chan # -1
    BY <1>1, <1>5, <1>6, <2>1, <2>2
  <2>4. registry[t].chan # coaxChan[x]
    BY <1>5, <2>3 DEF AdmInv, Adm!OneCameraPerChannel, Adm!Active
  <2> QED
    BY <1>3, <2>1, <2>2, <2>4
<1> QED
  BY <1>1, <1>3, <1>4, <1>6 DEF AdmInv, AdmTyped, Adm!CoaxWhereBound

LEMMA AdmPlugs == ASSUME AdmInv, NEW x \in CoaxHost, Adm!Plug(x) PROVE AdmInv'
BY DEF Adm!Plug, AdmInv, AdmTyped, Adm!OneCameraPerChannel, Adm!CoaxWhereBound

LEMMA AdmStep == ASSUME AdmInv, Adm!AdmNext PROVE AdmInv'
BY AdmAdds, AdmRemoves, AdmWindows, AdmChecks, AdmAdmits, AdmCounts, AdmPollsIn, AdmPollsOut, AdmPlugs, Zenon
   DEF Adm!AdmNext

LEMMA AdmIsSafe == ASSUME AdmInv PROVE Adm!AdmissionSafe
<1>1. \A S : Adm!Cardinality(S) = Cardinality(S)
  BY DEF Adm!Cardinality, Cardinality
<1>2. Adm!AdmTypeOK
  BY <1>1 DEF AdmInv, AdmTyped, AdmEntry, AdmWindow, Adm!AdmTypeOK
<1> QED
  BY <1>2 DEF AdmInv, Adm!AdmissionSafe

(***************************************************************************)
(* svc_nvr_channels.c, svc_nvr_addcamera.c, svc_analog_camera.c: however   *)
(* cameras come in, one camera for each channel, and the one that an input *)
(* remembers is its own: for any slots, hosts, finders and windows.        *)
(***************************************************************************)
THEOREM CamerasAreApart == BoxSpec => []AdmissionSafe
<1>1. BoxInit => AdmInv
  BY AdmInitInv, Zenon DEF BoxInit
<1>2. AdmInv /\ [BoxNext]_boxVars => AdmInv'
  <2> SUFFICES ASSUME AdmInv, [BoxNext]_boxVars PROVE AdmInv'
    OBVIOUS
  <2>1. CASE UNCHANGED admissionVars
    BY <2>1 DEF admissionVars, AdmInv, AdmTyped, Adm!OneCameraPerChannel, Adm!CoaxWhereBound
  <2>2. CASE Adm!AdmNext
    BY <2>2, AdmStep, Zenon
  <2> QED
    BY <2>1, <2>2, Zenon DEF BoxNext, boxVars
<1>3. AdmInv => AdmissionSafe
  BY AdmIsSafe, Zenon DEF AdmissionSafe
<1> QED
  BY <1>1, <1>2, <1>3, PTL DEF BoxSpec

-----------------------------------------------------------------------------
(***************************************************************************)
(* NvrRecorder.  An engine that was created and not freed is in one slot   *)
(* or in the hands of the control thread, and nothing else is subscribed;  *)
(* a publish holds an engine that is subscribed where it publishes, or is  *)
(* the one the control thread waits for.  As long as no channel was        *)
(* removed, the two hubs have the same tables, and the disks are used in   *)
(* turn until the tables are full.                                         *)
(***************************************************************************)
MgControl == [pc : {"idle", "attach", "install", "detach", "drain", "close", "gone"}, hub : Manager!Hub,
              engine : Engine \cup {None}, channel : Channel \cup {None}, disk : Manager!Disk,
              pending : SUBSET Engine, then : {"idle", "gone"}]

MgTyped ==
  /\ Manager!TypeOK /\ control \in MgControl
  /\ \A i \in 1 .. NSlots : slots[i].channel = None <=> slots[i].engine = None
  /\ \A p \in Publisher : flight[p].todo # {} => flight[p].hub \in Manager!Hub

\* Where the control thread is, and with what.
MgPlaces ==
  /\ control.pc \in {"idle", "gone"} => control.engine = None /\ control.pending = {}
  /\ control.pc \in {"attach", "install", "detach", "drain", "close"} => control.engine \in Engine
  /\ control.pc \in {"attach", "install"} =>
       control.pending = {} /\ control.then = "idle" /\ control.channel \in Channel /\ Manager!FreeSlots # {}
  /\ (control.then = "gone" \/ control.pc = "gone") => \A i \in 1 .. NSlots : slots[i].engine = None
  /\ ~removed => control.pending = {}

\* Every engine has one owner.
MgOwned ==
  /\ \A i, j \in 1 .. NSlots : slots[i].engine = slots[j].engine => i = j \/ slots[i].engine = None
  /\ \A i \in 1 .. NSlots : slots[i].engine # control.engine \/ slots[i].engine = None
  /\ \A i \in 1 .. NSlots : slots[i].engine \notin control.pending
  /\ control.engine \notin control.pending
  /\ used \ freed = (Manager!Active \cup Manager!InHand) \ {None}

MgSubscribed ==
  /\ \A h \in Manager!Hub : Manager!Subscribed(h) \subseteq used \ freed
  /\ control.pc = "attach" => control.engine \notin Manager!Subscribed("event")
  /\ control.pc = "attach" /\ control.hub = "media" => control.engine \notin Manager!Subscribed("media")
  /\ control.pc = "drain" => control.engine \notin Manager!Subscribed(control.hub)
  /\ control.pc \in {"detach", "drain"} /\ control.hub = "event" => control.engine \notin Manager!Subscribed("media")
  /\ control.pc = "close" => \A h \in Manager!Hub : control.engine \notin Manager!Subscribed(h)

MgFlights ==
  \A p \in Publisher : \A e \in flight[p].todo :
    \/ e \in Manager!Subscribed(flight[p].hub)
    \/ control.pc = "drain" /\ control.hub = flight[p].hub /\ e = control.engine

\* The tables of the two hubs, and that of the hub that the control thread has been to.
MgTables ==
  ~removed =>
    \/ /\ sinks["media"] = sinks["event"] /\ ~(control.pc = "attach" /\ control.hub = "event")
       /\ control.pc = "detach" => control.engine \notin Manager!Subscribed("media")
    \/ /\ control.pc = "attach" /\ control.hub = "event" /\ Manager!FreeSinks("event") # {}
       /\ sinks["media"] = [sinks["event"] EXCEPT ![Manager!Min(Manager!FreeSinks("event"))] = control.engine]

MgLoad(d) == {i \in 1 .. NSlots : slots[i].channel # None /\ slots[i].disk = d}
MgFull == \A i \in 1 .. NSinks : sinks["media"][i] \in Manager!Active
MgInTurn ==
  ~CapacityAware /\ ~removed =>
    \E q \in Nat, r \in Manager!Disk :
      /\ \A d \in Manager!Disk : Cardinality(MgLoad(d)) = IF d < r THEN q + 1 ELSE q
      /\ \/ MgFull /\ control.pc # "install" /\ (control.pc = "attach" => control.hub = "media")
         \/ control.pc = "idle" /\ cursor = r
         \/ control.pc \in {"attach", "install"} /\ control.disk = r /\ cursor = Manager!Advanced(r)

MgInv == MgTyped /\ MgPlaces /\ MgOwned /\ MgSubscribed /\ MgFlights /\ MgTables /\ MgInTurn

LEMMA MgConstants ==
  /\ NSlots \in Nat \ {0} /\ NSinks \in Nat \ {0} /\ NDisks \in Nat \ {0} /\ CapacityAware \in BOOLEAN
  /\ None \notin Channel /\ None \notin Engine /\ IsFiniteSet(Publisher)
<1>1. \A S : Manager!IsFiniteSet(S) <=> IsFiniteSet(S)
  BY DEF Manager!IsFiniteSet, IsFiniteSet
<1> QED
  BY <1>1, BoxAssumption DEF Manager!ManagerAssumption

LEMMA MgCounts == \A S : Manager!Cardinality(S) = Cardinality(S)
BY DEF Manager!Cardinality, Cardinality

LEMMA MgMin == ASSUME NEW S \in SUBSET Nat, S # {} PROVE Manager!Min(S) \in S
BY Least DEF Manager!Min

LEMMA MgFirstFree ==
  /\ \A h \in Manager!Hub : Manager!FreeSinks(h) # {} => Manager!Min(Manager!FreeSinks(h)) \in Manager!FreeSinks(h)
  /\ Manager!FreeSlots # {} => Manager!Min(Manager!FreeSlots) \in Manager!FreeSlots
<1>1. Manager!FreeSlots \in SUBSET Nat /\ \A h \in Manager!Hub : Manager!FreeSinks(h) \in SUBSET Nat
  BY MgConstants DEF Manager!FreeSlots, Manager!FreeSinks
<1> QED
  BY <1>1, MgMin

\* A hub with no call in flight is one at which no publisher is.
LEMMA MgDrained ==
  ASSUME NEW h, Manager!InFlight(h) = 0
  PROVE  \A p \in Publisher : flight[p].hub # h
<1> DEFINE P == {p \in Publisher : flight[p].hub = h}
<1>1. IsFiniteSet(P) /\ Cardinality(P) = 0
  BY MgConstants, MgCounts, FS_Subset DEF Manager!InFlight
<1>2. P = {}
  BY <1>1, FS_EmptySet
<1> QED
  BY <1>2

LEMMA MgAdvanced ==
  ASSUME NEW d \in Manager!Disk
  PROVE  /\ Manager!Advanced(d) \in Manager!Disk
         /\ Manager!Advanced(d) = IF d = NDisks - 1 THEN 0 ELSE d + 1
<1>1. d \in Nat /\ d < NDisks /\ NDisks \in Nat \ {0}
  BY MgConstants DEF Manager!Disk
<1>2. CASE d = NDisks - 1
  BY <1>1, <1>2 DEF Manager!Disk, Manager!Advanced
<1>3. CASE d # NDisks - 1
  BY <1>1, <1>3 DEF Manager!Disk, Manager!Advanced
<1> QED
  BY <1>2, <1>3

LEMMA MgInitInv == ASSUME Manager!Init PROVE MgInv
<1>1. 0 \in Manager!Disk
  BY MgConstants DEF Manager!Disk
<1>2. MgTyped
  BY <1>1 DEF Manager!Init, MgTyped, Manager!TypeOK, MgControl, Manager!Idle, Manager!Free, Manager!NotPublishing,
    Manager!Hub
<1>3. MgPlaces
  BY DEF Manager!Init, MgPlaces, Manager!Idle, Manager!Free
<1>4. Manager!Active = {} /\ \A h \in Manager!Hub : Manager!Subscribed(h) = {}
  BY DEF Manager!Init, Manager!Active, Manager!Subscribed, Manager!Free
<1>5. MgOwned
  BY <1>4 DEF Manager!Init, MgOwned, Manager!Idle, Manager!Free, Manager!InHand
<1>6. MgSubscribed
  BY <1>4 DEF Manager!Init, MgSubscribed, Manager!Idle, Manager!Free
<1>7. MgFlights /\ MgTables
  BY <1>4 DEF Manager!Init, MgFlights, MgTables, Manager!Idle, Manager!NotPublishing, Manager!Hub
<1>8. MgInTurn
  <2>1. \A d \in Manager!Disk : MgLoad(d) = {}
    BY DEF Manager!Init, MgLoad, Manager!Free
  <2>2. \A d \in Manager!Disk : Cardinality(MgLoad(d)) = 0 /\ ~(d < 0)
    BY <2>1, FS_EmptySet, MgConstants DEF Manager!Disk
  <2>3. control.pc = "idle" /\ cursor = 0 /\ 0 \in Nat
    BY DEF Manager!Init, Manager!Idle
  <2> QED
    BY <1>1, <2>2, <2>3 DEF MgInTurn
<1> QED
  BY <1>2, <1>3, <1>5, <1>6, <1>7, <1>8 DEF MgInv

-----------------------------------------------------------------------------
(* The publishers. *)

\* What the conjuncts that say nothing of the calls under way depend on.
LEMMA MgQuiet ==
  ASSUME MgInv, slots' = slots, cursor' = cursor, sinks' = sinks, control' = control,
         freed' = freed, used' = used, removed' = removed
  PROVE  MgPlaces' /\ MgOwned' /\ MgSubscribed' /\ MgTables' /\ MgInTurn'
<1>1. MgPlaces'
  BY DEF MgInv, MgPlaces, Manager!FreeSlots
<1>2. MgOwned'
  BY DEF MgInv, MgOwned, Manager!Active, Manager!InHand
<1>3. MgSubscribed'
  BY DEF MgInv, MgSubscribed, Manager!Subscribed
<1>4. MgTables'
  BY DEF MgInv, MgTables, Manager!Subscribed, Manager!FreeSinks
<1>5. MgInTurn'
  BY DEF MgInv, MgInTurn, MgLoad, MgFull, Manager!Active
<1> QED
  BY <1>1, <1>2, <1>3, <1>4, <1>5

LEMMA MgPublishes ==
  ASSUME MgInv, NEW p \in Publisher, NEW h \in Manager!Hub, Manager!Publish(p, h)
  PROVE  MgInv'
<1>1. MgPlaces' /\ MgOwned' /\ MgSubscribed' /\ MgTables' /\ MgInTurn'
  BY MgQuiet DEF Manager!Publish
<1>2. Manager!Subscribed(h) \subseteq Engine
  BY DEF MgInv, MgSubscribed, MgTyped, Manager!TypeOK
<1>3. \A q \in Publisher : flight'[q] = IF q = p THEN [hub |-> h, todo |-> Manager!Subscribed(h)] ELSE flight[q]
  BY DEF MgInv, MgTyped, Manager!TypeOK, Manager!Publish
<1>4. MgTyped'
  <2>1. flight' \in [Publisher -> [hub : Manager!Hub \cup {None}, todo : SUBSET Engine]]
    BY <1>2 DEF MgInv, MgTyped, Manager!TypeOK, Manager!Publish
  <2> QED
    BY <1>3, <2>1 DEF MgInv, MgTyped, Manager!TypeOK, Manager!Publish
<1>5. MgFlights'
  BY <1>3 DEF MgInv, MgFlights, Manager!Publish, Manager!Subscribed
<1> QED
  BY <1>1, <1>4, <1>5 DEF MgInv

LEMMA MgCalls == ASSUME MgInv, NEW p \in Publisher, Manager!Call(p) PROVE MgInv'
<1>1. MgPlaces' /\ MgOwned' /\ MgSubscribed' /\ MgTables' /\ MgInTurn'
  BY MgQuiet DEF Manager!Call
<1>2. PICK e \in flight[p].todo : flight' = [flight EXCEPT ![p].todo = @ \ {e}]
  BY DEF Manager!Call
<1>3. \A q \in Publisher : flight'[q].hub = flight[q].hub /\ flight'[q].todo \subseteq flight[q].todo
  BY <1>2 DEF MgInv, MgTyped, Manager!TypeOK
<1>4. MgTyped'
  <2>1. flight' \in [Publisher -> [hub : Manager!Hub \cup {None}, todo : SUBSET Engine]]
    BY <1>2 DEF MgInv, MgTyped, Manager!TypeOK
  <2>2. \A q \in Publisher : flight'[q].todo # {} => flight'[q].hub \in Manager!Hub
    BY <1>3 DEF MgInv, MgTyped
  <2> QED
    BY <2>1, <2>2 DEF MgInv, MgTyped, Manager!TypeOK, Manager!Call
<1>5. MgFlights'
  BY <1>3 DEF MgInv, MgFlights, Manager!Call, Manager!Subscribed
<1> QED
  BY <1>1, <1>4, <1>5 DEF MgInv

LEMMA MgReturns == ASSUME MgInv, NEW p \in Publisher, Manager!Published(p) PROVE MgInv'
<1>1. MgPlaces' /\ MgOwned' /\ MgSubscribed' /\ MgTables' /\ MgInTurn'
  BY MgQuiet DEF Manager!Published
<1>2. \A q \in Publisher : flight'[q] = IF q = p THEN [hub |-> None, todo |-> {}] ELSE flight[q]
  BY DEF MgInv, MgTyped, Manager!TypeOK, Manager!Published, Manager!NotPublishing
<1>3. MgTyped'
  <2>1. flight' \in [Publisher -> [hub : Manager!Hub \cup {None}, todo : SUBSET Engine]]
    BY DEF MgInv, MgTyped, Manager!TypeOK, Manager!Published, Manager!NotPublishing
  <2> QED
    BY <1>2, <2>1 DEF MgInv, MgTyped, Manager!TypeOK, Manager!Published
<1>4. MgFlights'
  BY <1>2 DEF MgInv, MgFlights, Manager!Published, Manager!Subscribed
<1> QED
  BY <1>1, <1>3, <1>4 DEF MgInv

-----------------------------------------------------------------------------
(* The control thread: Add, the attachments, Install. *)

LEMMA MgFacts ==
  ASSUME MgInv
  PROVE  /\ slots \in [1 .. NSlots -> [channel : Channel \cup {None}, engine : Engine \cup {None}, disk : Manager!Disk]]
         /\ cursor \in Manager!Disk
         /\ sinks \in [Manager!Hub -> [1 .. NSinks -> Engine \cup {None}]]
         /\ control \in MgControl
         /\ flight \in [Publisher -> [hub : Manager!Hub \cup {None}, todo : SUBSET Engine]]
         /\ freed \subseteq used /\ used \subseteq Engine /\ removed \in BOOLEAN
         /\ "media" \in Manager!Hub /\ "event" \in Manager!Hub
         /\ None \notin Engine /\ None \notin Channel
BY MgConstants DEF MgInv, MgTyped, Manager!TypeOK, Manager!Hub

\* While nobody drains, a publish holds what is subscribed, and that can grow.
LEMMA MgReach ==
  ASSUME MgInv, control.pc # "drain"
  PROVE  \A p \in Publisher : \A e \in flight[p].todo :
           flight[p].hub \in Manager!Hub /\ e \in Manager!Subscribed(flight[p].hub)
BY DEF MgInv, MgTyped, MgFlights

LEMMA MgFlown ==
  ASSUME MgInv, flight' = flight,
         \A p \in Publisher : \A e \in flight[p].todo : e \in Manager!Subscribed(flight[p].hub)'
  PROVE  MgFlights'
BY DEF MgFlights

LEMMA MgAdds == ASSUME MgInv, NEW c \in Channel, Manager!Add(c) PROVE MgInv'
<1> USE MgFacts
<1>1. PICK e \in {CHOOSE x \in Engine : x \notin used}, free \in [Manager!Disk -> Frees] :
        LET best == Manager!BestDisks(free)
            disk == IF best # {} THEN Manager!Min(best) ELSE cursor IN
        /\ used' = used \cup {e}
        /\ cursor' = IF best # {} THEN cursor ELSE Manager!Advanced(disk)
        /\ control' = [Manager!Idle EXCEPT !.pc = "attach", !.engine = e, !.channel = c, !.disk = disk]
  BY DEF Manager!Add
<1> DEFINE best == Manager!BestDisks(free)
           disk == IF best # {} THEN Manager!Min(best) ELSE cursor
<1>2. /\ control.pc = "idle" /\ Manager!FreeSlots # {} /\ used # Engine
      /\ slots' = slots /\ sinks' = sinks /\ flight' = flight /\ freed' = freed /\ removed' = removed
  BY DEF Manager!Add
<1>3. e \in Engine /\ e \notin used
  BY <1>2
<1>4. disk \in Manager!Disk /\ cursor' \in Manager!Disk
  <2>1. best \in SUBSET Nat /\ best \subseteq Manager!Disk
    BY MgConstants DEF Manager!BestDisks, Manager!Disk
  <2>2. best # {} => Manager!Min(best) \in best
    BY <2>1, MgMin
  <2>3. disk \in Manager!Disk
    BY <2>1, <2>2
  <2> QED
    BY <1>1, <2>3, MgAdvanced
<1>5. ~CapacityAware => best = {}
  BY DEF Manager!BestDisks
<1>6. control' = [pc |-> "attach", hub |-> "media", engine |-> e, channel |-> c, disk |-> disk,
                  pending |-> {}, then |-> "idle"]
  BY <1>1 DEF Manager!Idle
<1>7. used' = used \cup {e} /\ (~CapacityAware => cursor' = Manager!Advanced(cursor) /\ disk = cursor)
  BY <1>1, <1>5
<1> HIDE DEF best, disk
<1>8. MgTyped'
  <2>1. control' \in MgControl
    BY <1>3, <1>4, <1>6 DEF MgControl
  <2> QED
    BY <1>2, <1>3, <1>4, <1>6, <1>7, <2>1 DEF MgInv, MgTyped, Manager!TypeOK
<1>9. MgPlaces'
  BY <1>2, <1>3, <1>6 DEF MgInv, MgPlaces, Manager!FreeSlots
<1>10. \A i \in 1 .. NSlots : slots[i].engine = None \/ slots[i].engine \in used
  BY DEF MgInv, MgOwned, Manager!Active, Manager!InHand
<1>11. MgOwned'
  <2>1. control.engine = None /\ control.pending = {}
    BY <1>2 DEF MgInv, MgPlaces
  <2>2. Manager!Active' = Manager!Active /\ Manager!InHand = {None} /\ Manager!InHand' = {e}
    BY <1>2, <1>6, <2>1 DEF Manager!Active, Manager!InHand
  <2>3. (used \ freed)' = (Manager!Active \cup Manager!InHand)' \ {None}
    <3>1. used \ freed = (Manager!Active \cup {None}) \ {None}
      BY <2>2 DEF MgInv, MgOwned
    <3>2. (used \cup {e}) \ freed = (Manager!Active \cup {e}) \ {None}
      BY <3>1, <1>3
    <3> QED
      BY <3>2, <2>2, <1>2, <1>7
  <2> QED
    BY <1>2, <1>3, <1>6, <1>10, <2>3 DEF MgInv, MgOwned
<1>12. MgSubscribed'
  <2>1. \A h \in Manager!Hub : Manager!Subscribed(h)' = Manager!Subscribed(h) /\ Manager!Subscribed(h) \subseteq used \ freed
    BY <1>2 DEF Manager!Subscribed, MgInv, MgSubscribed
  <2>2. Manager!Subscribed("media")' = Manager!Subscribed("media") /\ Manager!Subscribed("event")' = Manager!Subscribed("event")
    BY <1>2 DEF Manager!Subscribed
  <2> QED
    BY <1>2, <1>3, <1>6, <1>7, <2>1, <2>2 DEF MgSubscribed
<1>13. MgFlights'
  BY <1>2 DEF MgInv, MgFlights, Manager!Subscribed
<1>14. MgTables'
  BY <1>2, <1>6 DEF MgInv, MgTables
<1>15. MgInTurn'
  <2> SUFFICES ASSUME ~CapacityAware, ~removed PROVE MgInTurn'
    BY <1>2 DEF MgInTurn
  <2>1. PICK q \in Nat, r \in Manager!Disk :
          /\ \A d \in Manager!Disk : Cardinality(MgLoad(d)) = IF d < r THEN q + 1 ELSE q
          /\ \/ MgFull
             \/ cursor = r
    BY <1>2 DEF MgInv, MgInTurn
  <2>2. \A d \in Manager!Disk : MgLoad(d)' = MgLoad(d)
    BY <1>2 DEF MgLoad
  <2>3. MgFull' <=> MgFull
    BY <1>2 DEF MgFull, Manager!Active
  <2>4. /\ \A d \in Manager!Disk : Cardinality(MgLoad(d)') = IF d < r THEN q + 1 ELSE q
        /\ \/ MgFull' /\ control'.pc # "install" /\ (control'.pc = "attach" => control'.hub = "media")
           \/ control'.pc = "attach" /\ control'.disk = r /\ cursor' = Manager!Advanced(r)
    BY <1>6, <1>7, <2>1, <2>2, <2>3
  <2> QED
    BY <2>4, <1>2 DEF MgInTurn
<1> QED
  BY <1>8, <1>9, <1>11, <1>12, <1>13, <1>14, <1>15 DEF MgInv

LEMMA MgAttaches == ASSUME MgInv, Manager!Attach PROVE MgInv'
<1> USE MgFacts
<1>1. PICK h \in Manager!Hub : h = control.hub
  BY DEF MgControl
<1>2. /\ control.pc = "attach" /\ Manager!FreeSinks(h) # {}
      /\ control' = IF h = "media" THEN [control EXCEPT !.hub = "event"] ELSE [control EXCEPT !.pc = "install"]
      /\ slots' = slots /\ cursor' = cursor /\ flight' = flight /\ freed' = freed /\ used' = used /\ removed' = removed
  BY <1>1 DEF Manager!Attach
<1>3. PICK n \in Manager!FreeSinks(h) : n = Manager!Min(Manager!FreeSinks(h))
  BY <1>2, MgFirstFree
<1>4. n \in 1 .. NSinks /\ sinks[h][n] = None
  BY <1>3 DEF Manager!FreeSinks
<1>5. sinks' = [sinks EXCEPT ![h][n] = control.engine]
  BY <1>1, <1>3 DEF Manager!Attach
<1>6. \A k \in Manager!Hub : sinks'[k] = IF k = h THEN [sinks[h] EXCEPT ![n] = control.engine] ELSE sinks[k]
  BY <1>5
<1>7. control.engine \in Engine
  BY <1>2 DEF MgInv, MgPlaces
<1>8. \A k \in Manager!Hub : Manager!Subscribed(k)' = IF k = h THEN Manager!Subscribed(h) \cup {control.engine}
                                                     ELSE Manager!Subscribed(k)
  <2>0. sinks'[h] = [sinks[h] EXCEPT ![n] = control.engine] /\ DOMAIN sinks[h] = 1 .. NSinks
    BY <1>6 DEF MgInv, MgTyped
  <2>1. \A i \in 1 .. NSinks : sinks'[h][i] = IF i = n THEN control.engine ELSE sinks[h][i]
    BY <2>0
  <2>2. Manager!Subscribed(h)' = Manager!Subscribed(h) \cup {control.engine}
    BY <2>1, <1>4, <1>7 DEF Manager!Subscribed
  <2>3. \A k \in Manager!Hub \ {h} : Manager!Subscribed(k)' = Manager!Subscribed(k)
    BY <1>6 DEF Manager!Subscribed
  <2> QED
    BY <2>2, <2>3
<1>9. /\ control'.engine = control.engine /\ control'.channel = control.channel /\ control'.disk = control.disk
      /\ control'.pending = control.pending /\ control'.then = control.then /\ control' \in MgControl
      /\ h = "media" => control'.pc = "attach" /\ control'.hub = "event"
      /\ h = "event" => control'.pc = "install"
      /\ h = "media" \/ h = "event"
  BY <1>2 DEF MgControl, Manager!Hub
<1>10. MgTyped'
  <2>1. sinks' \in [Manager!Hub -> [1 .. NSinks -> Engine \cup {None}]]
    BY <1>5, <1>7, <1>4
  <2> QED
    BY <1>2, <1>9, <2>1 DEF MgInv, MgTyped, Manager!TypeOK, MgControl
<1>11. MgPlaces'
  BY <1>2, <1>9 DEF MgInv, MgPlaces, Manager!FreeSlots
<1>12. MgOwned'
  BY <1>2, <1>9 DEF MgInv, MgOwned, Manager!Active, Manager!InHand
<1>13. MgSubscribed'
  <2>1. control.engine \in used \ freed
    BY <1>7 DEF MgInv, MgOwned, Manager!InHand
  <2>2. \A k \in Manager!Hub : Manager!Subscribed(k)' \subseteq (used \ freed)'
    BY <1>2, <1>8, <2>1 DEF MgInv, MgSubscribed
  <2>3. control'.pc = "attach" => control'.hub = "event" /\ control'.engine \notin Manager!Subscribed("event")'
    BY <1>2, <1>8, <1>9 DEF MgInv, MgSubscribed
  <2> QED
    BY <1>9, <2>2, <2>3 DEF MgSubscribed
<1>14. MgFlights'
  BY <1>2, <1>8, MgReach, MgFlown
<1>15. MgTables'
  <2> SUFFICES ASSUME ~removed PROVE MgTables'
    BY <1>2 DEF MgTables
  <2>1. CASE h = "media"
    <3>1. sinks["media"] = sinks["event"]
      BY <1>1, <2>1 DEF MgInv, MgTables
    <3>2. Manager!FreeSinks("event") = Manager!FreeSinks("media") /\ Manager!FreeSinks("event")' = Manager!FreeSinks("event")
      BY <3>1, <1>6, <2>1 DEF Manager!FreeSinks
    <3>3. sinks'["event"] = sinks["event"] /\ sinks'["media"] = [sinks["event"] EXCEPT ![n] = control.engine]
      BY <3>1, <1>6, <2>1
    <3> QED
      BY <3>2, <3>3, <1>2, <1>3, <1>9, <2>1 DEF MgTables
  <2>2. CASE h = "event"
    <3>1. sinks["media"] = [sinks["event"] EXCEPT ![n] = control.engine]
      BY <1>1, <1>2, <1>3, <2>2 DEF MgInv, MgTables
    <3> QED
      BY <3>1, <1>6, <1>9, <2>2 DEF MgTables
  <2> QED
    BY <2>1, <2>2, <1>9
<1>16. MgInTurn'
  <2> SUFFICES ASSUME ~CapacityAware, ~removed PROVE MgInTurn'
    BY <1>2 DEF MgInTurn
  <2>1. PICK q \in Nat, r \in Manager!Disk :
          /\ \A d \in Manager!Disk : Cardinality(MgLoad(d)) = IF d < r THEN q + 1 ELSE q
          /\ \/ MgFull /\ control.hub = "media"
             \/ control.disk = r /\ cursor = Manager!Advanced(r)
    BY <1>2 DEF MgInv, MgInTurn
  <2>2. ~(MgFull /\ h = "media")
    BY <1>4 DEF MgFull, Manager!Active
  <2>3. \A d \in Manager!Disk : MgLoad(d)' = MgLoad(d)
    BY <1>2 DEF MgLoad
  <2>4. /\ \A d \in Manager!Disk : Cardinality(MgLoad(d)') = IF d < r THEN q + 1 ELSE q
        /\ control'.pc \in {"attach", "install"} /\ control'.disk = r /\ cursor' = Manager!Advanced(r)
    BY <1>1, <1>2, <1>9, <2>1, <2>2, <2>3
  <2> QED
    BY <2>4, <1>2 DEF MgInTurn
<1> QED
  BY <1>10, <1>11, <1>12, <1>13, <1>14, <1>15, <1>16 DEF MgInv

LEMMA MgFails == ASSUME MgInv, Manager!AttachFails PROVE MgInv'
<1> USE MgFacts
<1>1. /\ control.pc = "attach" /\ Manager!FreeSinks(control.hub) = {}
      /\ slots' = slots /\ cursor' = cursor /\ sinks' = sinks /\ flight' = flight /\ freed' = freed /\ used' = used
      /\ removed' = removed
  BY DEF Manager!AttachFails
<1>2. /\ control'.pc = "detach" /\ control'.hub = "media" /\ control'.channel = None
      /\ control'.engine = control.engine /\ control'.pending = control.pending /\ control'.then = control.then
      /\ control' \in MgControl
  BY DEF Manager!AttachFails, Manager!Fail, MgControl
<1>3. control.pending = {} /\ control.then = "idle" /\ control.engine \in Engine
  BY <1>1 DEF MgInv, MgPlaces
<1>4. \A h \in Manager!Hub : Manager!Subscribed(h)' = Manager!Subscribed(h)
  BY <1>1 DEF Manager!Subscribed
<1>5. ~removed => control.hub = "media" /\ sinks["media"] = sinks["event"]
  BY <1>1 DEF MgInv, MgTables, MgControl, Manager!Hub
<1>6. MgTyped'
  BY <1>1, <1>2 DEF MgInv, MgTyped, Manager!TypeOK, MgControl
<1>7. MgPlaces'
  BY <1>1, <1>2, <1>3 DEF MgInv, MgPlaces
<1>8. MgOwned'
  BY <1>1, <1>2 DEF MgInv, MgOwned, Manager!Active, Manager!InHand
<1>9. MgSubscribed'
  BY <1>1, <1>2, <1>4 DEF MgInv, MgSubscribed
<1>10. MgFlights'
  BY <1>1, <1>4, MgReach, MgFlown
<1>11. MgTables'
  BY <1>1, <1>2, <1>4, <1>5 DEF MgInv, MgTables, MgSubscribed
<1>12. MgInTurn'
  <2> SUFFICES ASSUME ~CapacityAware, ~removed PROVE MgInTurn'
    BY <1>1 DEF MgInTurn
  <2>1. PICK q \in Nat, r \in Manager!Disk :
          \A d \in Manager!Disk : Cardinality(MgLoad(d)) = IF d < r THEN q + 1 ELSE q
    BY DEF MgInv, MgInTurn
  <2>2. \A d \in Manager!Disk : MgLoad(d)' = MgLoad(d)
    BY <1>1 DEF MgLoad
  <2>3. MgFull'
    <3> SUFFICES ASSUME NEW i \in 1 .. NSinks PROVE sinks["media"][i] \in Manager!Active
      BY <1>1 DEF MgFull, Manager!Active
    <3>1. sinks["media"][i] # None
      BY <1>1, <1>5 DEF Manager!FreeSinks
    <3>2. sinks["media"][i] \in Manager!Subscribed("media")
      BY <3>1 DEF Manager!Subscribed
    <3>3. sinks["media"][i] \in used \ freed /\ sinks["media"][i] # control.engine
      BY <3>2, <1>1, <1>5 DEF MgInv, MgSubscribed
    <3> QED
      BY <3>3, <1>3 DEF MgInv, MgOwned, Manager!InHand
  <2>4. /\ \A d \in Manager!Disk : Cardinality(MgLoad(d)') = IF d < r THEN q + 1 ELSE q
        /\ MgFull' /\ control'.pc # "install" /\ control'.pc # "attach"
    BY <2>1, <2>2, <2>3, <1>2
  <2> QED
    BY <2>4 DEF MgInTurn
<1> QED
  BY <1>6, <1>7, <1>8, <1>9, <1>10, <1>11, <1>12 DEF MgInv

LEMMA MgInstalls == ASSUME MgInv, Manager!Install PROVE MgInv'
<1> USE MgFacts
<1>1. /\ control.pc = "install" /\ control' = Manager!Idle
      /\ sinks' = sinks /\ cursor' = cursor /\ flight' = flight /\ freed' = freed /\ used' = used /\ removed' = removed
  BY DEF Manager!Install
<1>2. /\ control.engine \in Engine /\ control.channel \in Channel /\ control.disk \in Manager!Disk
      /\ control.pending = {} /\ Manager!FreeSlots # {}
  BY <1>1 DEF MgInv, MgPlaces, MgControl
<1>3. PICK n \in Manager!FreeSlots :
        slots' = [slots EXCEPT ![n] =
                   [channel |-> control.channel, engine |-> control.engine, disk |-> control.disk]]
  BY <1>2, MgFirstFree DEF Manager!Install
<1>4. n \in 1 .. NSlots /\ slots[n].channel = None /\ slots[n].engine = None
  BY <1>3 DEF Manager!FreeSlots, MgInv, MgTyped
<1>5. \A i \in 1 .. NSlots :
        slots'[i] = IF i = n THEN [channel |-> control.channel, engine |-> control.engine, disk |-> control.disk]
                    ELSE slots[i]
  BY <1>3
<1>6. /\ control'.pc = "idle" /\ control'.hub = "media" /\ control'.engine = None /\ control'.pending = {}
      /\ control'.then = "idle"
  BY <1>1 DEF Manager!Idle
<1>7. MgTyped'
  <2>1. slots' \in [1 .. NSlots -> [channel : Channel \cup {None}, engine : Engine \cup {None}, disk : Manager!Disk]]
    BY <1>2, <1>3
  <2>2. \A i \in 1 .. NSlots : slots'[i].channel = None <=> slots'[i].engine = None
    BY <1>2, <1>5 DEF MgInv, MgTyped
  <2>3. control' \in MgControl
    BY <1>1, MgConstants DEF Manager!Idle, MgControl, Manager!Hub, Manager!Disk
  <2> QED
    BY <1>1, <1>6, <2>1, <2>2, <2>3 DEF MgInv, MgTyped, Manager!TypeOK
<1>8. MgPlaces'
  BY <1>6 DEF MgPlaces
<1>9. Manager!Active' = Manager!Active \cup {control.engine}
  BY <1>2, <1>4, <1>5 DEF Manager!Active
<1>10. MgOwned'
  <2>1. (used \ freed)' = (Manager!Active \cup Manager!InHand)' \ {None}
    <3>1. Manager!InHand = {control.engine} /\ Manager!InHand' = {None}
      BY <1>2, <1>6 DEF Manager!InHand
    <3> QED
      BY <3>1, <1>9, <1>1, <1>2 DEF MgInv, MgOwned
  <2>2. \A i, j \in 1 .. NSlots : slots'[i].engine = slots'[j].engine => i = j \/ slots'[i].engine = None
    BY <1>5 DEF MgInv, MgOwned
  <2> QED
    BY <2>1, <2>2, <1>6 DEF MgOwned
<1>11. MgSubscribed'
  BY <1>1, <1>6 DEF MgInv, MgSubscribed, Manager!Subscribed
<1>12. MgFlights'
  BY <1>1 DEF MgInv, MgFlights, Manager!Subscribed
<1>13. MgTables'
  BY <1>1, <1>6 DEF MgInv, MgTables, Manager!Subscribed
<1>14. MgInTurn'
  <2> SUFFICES ASSUME ~CapacityAware, ~removed PROVE MgInTurn'
    BY <1>1 DEF MgInTurn
  <2>1. PICK q \in Nat, r \in Manager!Disk :
          /\ \A d \in Manager!Disk : Cardinality(MgLoad(d)) = IF d < r THEN q + 1 ELSE q
          /\ control.disk = r /\ cursor = Manager!Advanced(r)
    BY <1>1 DEF MgInv, MgInTurn
  <2>2. MgLoad(r)' = MgLoad(r) \cup {n} /\ n \notin MgLoad(r) /\ \A d \in Manager!Disk : d # r => MgLoad(d)' = MgLoad(d)
    BY <1>2, <1>4, <1>5, <2>1 DEF MgLoad
  <2>3. IsFiniteSet(MgLoad(r))
    <3>1. IsFiniteSet(1 .. NSlots)
      BY MgConstants, FS_Interval
    <3>2. MgLoad(r) \subseteq 1 .. NSlots
      BY DEF MgLoad
    <3> QED
      BY <3>1, <3>2, FS_Subset
  <2>4. Cardinality(MgLoad(r)') = Cardinality(MgLoad(r)) + 1
    BY <2>2, <2>3, FS_AddElement
  <2>5. r \in Nat /\ r < NDisks /\ NDisks \in Nat /\ \A d \in Manager!Disk : d \in Nat /\ d < NDisks
    BY MgConstants DEF Manager!Disk
  <2>6. \A d \in Manager!Disk : Cardinality(MgLoad(d)') = IF d <= r THEN q + 1 ELSE q
    <3> SUFFICES ASSUME NEW d \in Manager!Disk
                 PROVE  Cardinality(MgLoad(d)') = IF d <= r THEN q + 1 ELSE q
      OBVIOUS
    <3>1. CASE d = r
      <4>1. Cardinality(MgLoad(d)) = q
        BY <2>1, <2>5, <3>1
      <4> QED
        BY <4>1, <2>4, <2>5, <3>1
    <3>2. CASE d # r
      <4>1. MgLoad(d)' = MgLoad(d) /\ Cardinality(MgLoad(d)) = IF d < r THEN q + 1 ELSE q
        BY <2>1, <2>2, <3>2
      <4> QED
        BY <4>1, <2>5, <3>2
    <3> QED
      BY <3>1, <3>2
  <2>7. CASE r = NDisks - 1
    <3>1. \A d \in Manager!Disk : Cardinality(MgLoad(d)') = IF d < 0 THEN (q + 1) + 1 ELSE q + 1
      <4> SUFFICES ASSUME NEW d \in Manager!Disk PROVE Cardinality(MgLoad(d)') = q + 1 /\ ~(d < 0)
        OBVIOUS
      <4>1. d <= r /\ ~(d < 0)
        BY <2>5, <2>7
      <4> QED
        BY <4>1, <2>6
    <3>2. cursor' = 0 /\ 0 \in Manager!Disk /\ q + 1 \in Nat
      BY <1>1, <2>1, <2>5, <2>7, MgAdvanced
    <3> QED
      BY <3>1, <3>2, <1>6 DEF MgInTurn
  <2>8. CASE r # NDisks - 1
    <3>1. \A d \in Manager!Disk : Cardinality(MgLoad(d)') = IF d < r + 1 THEN q + 1 ELSE q
      BY <2>5, <2>6
    <3>2. cursor' = r + 1 /\ r + 1 \in Manager!Disk
      BY <1>1, <2>1, <2>5, <2>8, MgAdvanced
    <3> QED
      BY <3>1, <3>2, <1>6 DEF MgInTurn
  <2> QED
    BY <2>7, <2>8
<1> QED
  BY <1>7, <1>8, <1>10, <1>11, <1>12, <1>13, <1>14 DEF MgInv

-----------------------------------------------------------------------------
(* The control thread: what is taken out, detached, drained and freed. *)

LEMMA MgRemoves == ASSUME MgInv, NEW c \in Channel, Manager!Remove(c) PROVE MgInv'
<1> USE MgFacts
<1>1. PICK n \in 1 .. NSlots :
        /\ slots[n].channel = c
        /\ slots' = [slots EXCEPT ![n] = Manager!Free]
        /\ control' = [Manager!Idle EXCEPT !.pc = "detach", !.engine = slots[n].engine]
  BY DEF Manager!Remove
<1>2. /\ control.pc = "idle" /\ removed'
      /\ sinks' = sinks /\ cursor' = cursor /\ flight' = flight /\ freed' = freed /\ used' = used
  BY DEF Manager!Remove
<1>3. PICK e \in Engine : e = slots[n].engine
  BY <1>1 DEF MgInv, MgTyped
<1>4. /\ control'.pc = "detach" /\ control'.hub = "media" /\ control'.engine = e /\ control'.pending = {}
      /\ control'.then = "idle" /\ control' \in MgControl
  <2>1. control' = [pc |-> "detach", hub |-> "media", engine |-> e, channel |-> None, disk |-> 0,
                    pending |-> {}, then |-> "idle"]
    BY <1>1, <1>3 DEF Manager!Idle
  <2> QED
    BY <2>1, MgConstants DEF MgControl, Manager!Disk
<1>5. \A i \in 1 .. NSlots : slots'[i] = IF i = n THEN [channel |-> None, engine |-> None, disk |-> 0] ELSE slots[i]
  BY <1>1 DEF Manager!Free
<1>6. MgTyped'
  <2>1. slots' \in [1 .. NSlots -> [channel : Channel \cup {None}, engine : Engine \cup {None}, disk : Manager!Disk]]
    BY <1>1, MgConstants DEF Manager!Free, Manager!Disk
  <2>2. \A i \in 1 .. NSlots : slots'[i].channel = None <=> slots'[i].engine = None
    BY <1>5 DEF MgInv, MgTyped
  <2> QED
    BY <1>2, <1>4, <2>1, <2>2 DEF MgInv, MgTyped, Manager!TypeOK
<1>7. MgPlaces'
  BY <1>2, <1>4 DEF MgPlaces
<1>8. MgOwned'
  <2>1. control.engine = None /\ control.pending = {}
    BY <1>2 DEF MgInv, MgPlaces
  <2>2. \A i, j \in 1 .. NSlots : slots'[i].engine = slots'[j].engine => i = j \/ slots'[i].engine = None
    BY <1>5 DEF MgInv, MgOwned
  <2>3. \A i \in 1 .. NSlots : slots'[i].engine # e
    BY <1>3, <1>5 DEF MgInv, MgOwned
  <2>a. e \in Manager!Active /\ e # None
    BY <1>1, <1>3, MgConstants DEF Manager!Active
  <2>b. \A i \in 1 .. NSlots : slots'[i].engine = IF i = n THEN None ELSE slots[i].engine
    BY <1>5
  <2>c. \A i \in 1 .. NSlots : slots[i].engine = e => i = n
    BY <2>3, <2>b
  <2>d. Manager!Active' = Manager!Active \ {e}
    BY <1>3, <2>a, <2>b, <2>c DEF Manager!Active
  <2>4. Manager!Active' = Manager!Active \ {e} /\ e \in Manager!Active
    BY <2>a, <2>d
  <2>5. Manager!InHand = {None} /\ Manager!InHand' = {e}
    BY <1>4, <2>1 DEF Manager!InHand
  <2>6. used \ freed = (Manager!Active \cup Manager!InHand) \ {None}
    BY DEF MgInv, MgOwned
  <2>7. (used \ freed)' = (Manager!Active \cup Manager!InHand)' \ {None}
    BY <2>4, <2>5, <2>6, <1>2
  <2> QED
    BY <2>2, <2>3, <2>7, <1>4 DEF MgOwned
<1>9. MgSubscribed'
  BY <1>2, <1>4 DEF MgInv, MgSubscribed, Manager!Subscribed
<1>10. MgFlights'
  BY <1>2, MgReach, MgFlown DEF Manager!Subscribed
<1>11. MgTables' /\ MgInTurn'
  BY <1>2 DEF MgTables, MgInTurn
<1> QED
  BY <1>6, <1>7, <1>8, <1>9, <1>10, <1>11 DEF MgInv

LEMMA MgDestroys == ASSUME MgInv, Manager!DestroyManager PROVE MgInv'
<1> USE MgFacts
<1>1. /\ control.pc = "idle" /\ removed' /\ slots' = [i \in 1 .. NSlots |-> Manager!Free]
      /\ sinks' = sinks /\ cursor' = cursor /\ flight' = flight /\ freed' = freed /\ used' = used
  BY DEF Manager!DestroyManager
<1>2. control.engine = None /\ control.pending = {}
  BY <1>1 DEF MgInv, MgPlaces
<1>3. \/ Manager!Active = {} /\ control' = [Manager!Idle EXCEPT !.pc = "gone"]
      \/ \E e \in Manager!Active : control' = [Manager!Idle EXCEPT !.pc = "detach", !.engine = e, !.then = "gone",
                                                                   !.pending = Manager!Active \ {e}]
  BY DEF Manager!DestroyManager, Manager!Active
<1>4. Manager!Active \subseteq Engine
  BY DEF Manager!Active
<1> DEFINE Taken ==
             /\ control' \in MgControl /\ control'.hub = "media" /\ control'.engine \notin control'.pending
             /\ control'.pc \in {"gone", "detach"}
             /\ control'.pc = "gone" => control'.engine = None /\ control'.pending = {}
             /\ control'.pc = "detach" => control'.engine \in Engine
             /\ Manager!InHand' \ {None} = Manager!Active
<1>5. Taken
  <2>0. 0 \in Manager!Disk
    BY MgConstants DEF Manager!Disk
  <2>1. CASE Manager!Active = {} /\ control' = [Manager!Idle EXCEPT !.pc = "gone"]
    <3>1. control' = [pc |-> "gone", hub |-> "media", engine |-> None, channel |-> None, disk |-> 0,
                      pending |-> {}, then |-> "idle"]
      BY <2>1 DEF Manager!Idle
    <3>2. control' \in MgControl
      BY <2>0, <3>1 DEF MgControl
    <3>3. Manager!InHand' = {None} /\ Manager!Active = {}
      BY <2>1, <3>1 DEF Manager!InHand
    <3> QED
      BY <3>1, <3>2, <3>3
  <2>2. ASSUME NEW e \in Manager!Active,
               control' = [Manager!Idle EXCEPT !.pc = "detach", !.engine = e, !.then = "gone",
                                               !.pending = Manager!Active \ {e}]
        PROVE  Taken
    <3>1. control' = [pc |-> "detach", hub |-> "media", engine |-> e, channel |-> None, disk |-> 0,
                      pending |-> Manager!Active \ {e}, then |-> "gone"]
      BY <2>2 DEF Manager!Idle
    <3>2. Manager!InHand' = Manager!Active
      BY <3>1 DEF Manager!InHand
    <3>3. control' \in MgControl
      BY <2>0, <3>1, <1>4 DEF MgControl
    <3>4. None \notin Manager!Active /\ e \in Engine
      BY <1>4
    <3> QED
      BY <3>1, <3>2, <3>3, <3>4
  <2> QED
    BY <2>1, <2>2, <1>3
<1>6. \A i \in 1 .. NSlots : slots'[i].engine = None /\ slots'[i].channel = None
  BY <1>1 DEF Manager!Free
<1>7. MgTyped'
  <2>1. slots' \in [1 .. NSlots -> [channel : Channel \cup {None}, engine : Engine \cup {None}, disk : Manager!Disk]]
    BY <1>1, MgConstants DEF Manager!Free, Manager!Disk
  <2>2. control'.pc \in {"idle", "attach", "install", "detach", "drain", "close", "gone"}
    BY <1>5
  <2> QED
    BY <1>1, <1>5, <1>6, <2>1, <2>2 DEF MgInv, MgTyped, Manager!TypeOK
<1>8. MgPlaces'
  BY <1>1, <1>5, <1>6 DEF MgPlaces
<1>9. MgOwned'
  <2>1. Manager!Active' = {}
    BY <1>6 DEF Manager!Active
  <2>2. used \ freed = Manager!Active
    BY <1>2, <1>4 DEF MgInv, MgOwned, Manager!InHand
  <2>3. (used \ freed)' = (Manager!Active \cup Manager!InHand)' \ {None}
    BY <2>1, <2>2, <1>1, <1>5
  <2>4. None \notin control'.pending
    BY <1>5 DEF MgControl
  <2> QED
    BY <2>3, <2>4, <1>5, <1>6 DEF MgOwned
<1>10. MgSubscribed'
  BY <1>1, <1>5 DEF MgInv, MgSubscribed, Manager!Subscribed
<1>11. MgFlights'
  BY <1>1, MgReach, MgFlown DEF Manager!Subscribed
<1>12. MgTables' /\ MgInTurn'
  BY <1>1 DEF MgTables, MgInTurn
<1> QED
  BY <1>7, <1>8, <1>9, <1>10, <1>11, <1>12 DEF MgInv

LEMMA MgDetaches == ASSUME MgInv, Manager!Detach PROVE MgInv'
<1> USE MgFacts
<1>1. PICK h \in Manager!Hub : h = control.hub
  BY DEF MgControl
<1>2. PICK e \in Engine : e = control.engine
  BY DEF MgInv, MgPlaces, Manager!Detach
<1>3. /\ control.pc = "detach"
      /\ sinks' = [sinks EXCEPT ![h] = [i \in 1 .. NSinks |-> IF @[i] = e THEN None ELSE @[i]]]
      /\ slots' = slots /\ cursor' = cursor /\ flight' = flight /\ freed' = freed /\ used' = used /\ removed' = removed
  BY <1>1, <1>2 DEF Manager!Detach
<1>4. /\ control'.engine = e /\ control'.hub = h /\ control'.channel = control.channel
      /\ control'.disk = control.disk /\ control'.pending = control.pending /\ control'.then = control.then
      /\ control'.pc = IF e \in Manager!Subscribed(h) \/ h = "media" THEN "drain" ELSE "close"
      /\ control' \in MgControl
  <2>1. control' = [control EXCEPT !.pc = IF e \in Manager!Subscribed(h) THEN "drain"
                                          ELSE IF h = "media" THEN "drain" ELSE "close"]
    BY <1>1, <1>2 DEF Manager!Detach
  <2> QED
    BY <2>1, <1>1, <1>2 DEF MgControl
<1>5. \A k \in Manager!Hub : \A i \in 1 .. NSinks :
        sinks'[k][i] = IF k = h /\ sinks[k][i] = e THEN None ELSE sinks[k][i]
  BY <1>3
<1>6. \A k \in Manager!Hub : Manager!Subscribed(k)' = IF k = h THEN Manager!Subscribed(h) \ {e}
                                                     ELSE Manager!Subscribed(k)
  <2>1. Manager!Subscribed(h)' = Manager!Subscribed(h) \ {e}
    BY <1>5 DEF Manager!Subscribed
  <2>2. \A k \in Manager!Hub : k # h => Manager!Subscribed(k)' = Manager!Subscribed(k)
    BY <1>5 DEF Manager!Subscribed
  <2> QED
    BY <2>1, <2>2
<1>7. MgTyped'
  <2>1. sinks' \in [Manager!Hub -> [1 .. NSinks -> Engine \cup {None}]]
    BY <1>3
  <2> QED
    BY <1>3, <1>4, <2>1 DEF MgInv, MgTyped, Manager!TypeOK, MgControl
<1>8. MgPlaces'
  BY <1>2, <1>3, <1>4 DEF MgInv, MgPlaces
<1>9. MgOwned'
  BY <1>2, <1>3, <1>4 DEF MgInv, MgOwned, Manager!Active, Manager!InHand
<1>10. MgSubscribed'
  <2>1. \A k \in Manager!Hub : Manager!Subscribed(k)' \subseteq (used \ freed)'
    BY <1>3, <1>6 DEF MgInv, MgSubscribed
  <2>2. e \notin Manager!Subscribed(h)'
    BY <1>6
  <2>3. h = "event" => e \notin Manager!Subscribed("media")'
    BY <1>1, <1>2, <1>3, <1>6 DEF MgInv, MgSubscribed
  <2>4. h = "media" \/ h = "event"
    BY DEF Manager!Hub
  <2>5. control'.pc = "close" => h = "event"
    BY <1>4, <2>4
  <2>6. control'.pc = "close" => \A k \in Manager!Hub : e \notin Manager!Subscribed(k)'
    BY <2>2, <2>3, <2>5 DEF Manager!Hub
  <2>7. control'.pc = "drain" \/ control'.pc = "close"
    BY <1>4
  <2> QED
    BY <1>4, <2>1, <2>2, <2>3, <2>6, <2>7 DEF MgSubscribed
<1>11. MgFlights'
  <2> SUFFICES ASSUME NEW p \in Publisher, NEW x \in flight[p].todo
               PROVE  \/ x \in Manager!Subscribed(flight[p].hub)'
                      \/ control'.pc = "drain" /\ control'.hub = flight[p].hub /\ x = control'.engine
    BY <1>3 DEF MgFlights
  <2>1. PICK k \in Manager!Hub : k = flight[p].hub /\ flight'[p].hub = k /\ x \in Manager!Subscribed(k)
    BY <1>3, MgReach
  <2>2. x \in Manager!Subscribed(k)' \/ (k = h /\ x = e)
    BY <2>1, <1>6
  <2>3. x = e /\ k = h => control'.pc = "drain"
    BY <2>1, <1>4
  <2> QED
    BY <2>1, <2>2, <2>3, <1>4
<1>12. ~removed => sinks' = sinks
  <2> SUFFICES ASSUME ~removed PROVE sinks' = sinks
    OBVIOUS
  <2>1. sinks["media"] = sinks["event"] /\ e \notin Manager!Subscribed("media")
    BY <1>2, <1>3 DEF MgInv, MgTables
  <2>2. \A k \in Manager!Hub : \A i \in 1 .. NSinks : sinks[k][i] # e
    BY <2>1, <1>2 DEF Manager!Subscribed, Manager!Hub
  <2>3. \A k \in Manager!Hub : sinks'[k] = sinks[k]
    <3> SUFFICES ASSUME NEW k \in Manager!Hub PROVE sinks'[k] = sinks[k]
      OBVIOUS
    <3>1. sinks'[k] \in [1 .. NSinks -> Engine \cup {None}] /\ sinks[k] \in [1 .. NSinks -> Engine \cup {None}]
      BY <1>7 DEF MgTyped, Manager!TypeOK
    <3>2. \A i \in 1 .. NSinks : sinks'[k][i] = sinks[k][i]
      BY <1>5, <2>2
    <3>3. sinks'[k] = [i \in 1 .. NSinks |-> sinks[k][i]] /\ sinks[k] = [i \in 1 .. NSinks |-> sinks[k][i]]
      BY <3>1, <3>2
    <3> QED
      BY <3>3
  <2>4. sinks' \in [Manager!Hub -> [1 .. NSinks -> Engine \cup {None}]]
    BY <1>7 DEF MgTyped, Manager!TypeOK
  <2> QED
    BY <2>3, <2>4
<1>13. MgTables'
  BY <1>3, <1>4, <1>12 DEF MgInv, MgTables
<1>14. MgInTurn'
  <2> SUFFICES ASSUME ~CapacityAware, ~removed PROVE MgInTurn'
    BY <1>3 DEF MgInTurn
  <2>1. PICK q \in Nat, r \in Manager!Disk :
          /\ \A d \in Manager!Disk : Cardinality(MgLoad(d)) = IF d < r THEN q + 1 ELSE q
          /\ MgFull
    BY <1>3 DEF MgInv, MgInTurn
  <2>2. MgFull' /\ \A d \in Manager!Disk : MgLoad(d)' = MgLoad(d)
    <3>1. sinks' = sinks /\ Manager!Active' = Manager!Active
      BY <1>3, <1>12 DEF Manager!Active
    <3> QED
      BY <3>1, <1>3, <2>1 DEF MgFull, MgLoad
  <2>3. /\ \A d \in Manager!Disk : Cardinality(MgLoad(d)') = IF d < r THEN q + 1 ELSE q
        /\ MgFull' /\ control'.pc # "install" /\ control'.pc # "attach"
    BY <2>1, <2>2, <1>4
  <2> QED
    BY <2>3 DEF MgInTurn
<1> QED
  BY <1>7, <1>8, <1>9, <1>10, <1>11, <1>13, <1>14 DEF MgInv

LEMMA MgDrains == ASSUME MgInv, Manager!Drain PROVE MgInv'
<1> USE MgFacts
<1>1. /\ control.pc = "drain" /\ Manager!InFlight(control.hub) = 0
      /\ slots' = slots /\ cursor' = cursor /\ sinks' = sinks /\ flight' = flight /\ freed' = freed /\ used' = used
      /\ removed' = removed
  BY DEF Manager!Drain, Manager!Drained
<1>2. /\ control'.engine = control.engine /\ control'.pending = control.pending /\ control'.then = control.then
      /\ control' \in MgControl
      /\ \/ control.hub = "media" /\ control'.pc = "detach" /\ control'.hub = "event"
         \/ control.hub = "event" /\ control'.pc = "close"
  BY DEF Manager!Drain, MgControl, Manager!Hub
<1>3. \A k \in Manager!Hub : Manager!Subscribed(k)' = Manager!Subscribed(k)
  BY <1>1 DEF Manager!Subscribed
<1>4. MgTyped'
  BY <1>1, <1>2 DEF MgInv, MgTyped, Manager!TypeOK, MgControl
<1>5. MgPlaces'
  BY <1>1, <1>2 DEF MgInv, MgPlaces
<1>6. MgOwned'
  BY <1>1, <1>2 DEF MgInv, MgOwned, Manager!Active, Manager!InHand
<1>7. MgSubscribed'
  <2>1. \A k \in Manager!Hub : Manager!Subscribed(k)' \subseteq (used \ freed)'
    BY <1>1, <1>3 DEF MgInv, MgSubscribed
  <2>2. CASE control'.pc = "detach"
    BY <1>1, <1>2, <1>3, <2>1, <2>2 DEF MgInv, MgSubscribed
  <2>3. CASE control'.pc = "close"
    <3>1. control.hub = "event"
      BY <1>2, <2>3
    <3>2. control.engine \notin Manager!Subscribed("event") /\ control.engine \notin Manager!Subscribed("media")
      BY <1>1, <3>1 DEF MgInv, MgSubscribed
    <3>3. \A k \in Manager!Hub : control'.engine \notin Manager!Subscribed(k)'
      BY <1>2, <1>3, <3>2 DEF Manager!Hub
    <3> QED
      BY <2>1, <2>3, <3>3 DEF MgSubscribed
  <2> QED
    BY <2>2, <2>3, <1>2
<1>8. MgFlights'
  <2> SUFFICES ASSUME NEW p \in Publisher, NEW x \in flight[p].todo
               PROVE  x \in Manager!Subscribed(flight[p].hub)'
    BY <1>1 DEF MgFlights
  <2>1. PICK k \in Manager!Hub : k = flight[p].hub /\ flight'[p].hub = k
    BY <1>1 DEF MgInv, MgTyped
  <2>2. k # control.hub
    BY <1>1, <2>1, MgDrained
  <2>3. x \in Manager!Subscribed(k)
    BY <2>1, <2>2 DEF MgInv, MgFlights
  <2> QED
    BY <2>1, <2>3, <1>3
<1>9. MgTables'
  <2> SUFFICES ASSUME ~removed PROVE MgTables'
    BY <1>1 DEF MgTables
  <2>1. sinks["media"] = sinks["event"]
    BY <1>1 DEF MgInv, MgTables
  <2>2. control'.pc = "detach" => control.engine \notin Manager!Subscribed("media")
    BY <1>1, <1>2 DEF MgInv, MgSubscribed
  <2> QED
    BY <1>1, <1>2, <1>3, <2>1, <2>2 DEF MgTables
<1>10. MgInTurn'
  <2> SUFFICES ASSUME ~CapacityAware, ~removed PROVE MgInTurn'
    BY <1>1 DEF MgInTurn
  <2>1. PICK q \in Nat, r \in Manager!Disk :
          /\ \A d \in Manager!Disk : Cardinality(MgLoad(d)) = IF d < r THEN q + 1 ELSE q
          /\ MgFull
    BY <1>1 DEF MgInv, MgInTurn
  <2>2. MgFull' /\ \A d \in Manager!Disk : MgLoad(d)' = MgLoad(d)
    BY <1>1, <2>1 DEF MgFull, MgLoad, Manager!Active
  <2>3. /\ \A d \in Manager!Disk : Cardinality(MgLoad(d)') = IF d < r THEN q + 1 ELSE q
        /\ MgFull' /\ control'.pc # "install" /\ control'.pc # "attach"
    BY <2>1, <2>2, <1>2
  <2> QED
    BY <2>3 DEF MgInTurn
<1> QED
  BY <1>4, <1>5, <1>6, <1>7, <1>8, <1>9, <1>10 DEF MgInv

LEMMA MgCloses == ASSUME MgInv, Manager!Close PROVE MgInv'
<1> USE MgFacts
<1>1. PICK e \in Engine : e = control.engine
  BY DEF MgInv, MgPlaces, Manager!Close
<1>2. /\ control.pc = "close" /\ freed' = freed \cup {e}
      /\ slots' = slots /\ cursor' = cursor /\ sinks' = sinks /\ flight' = flight /\ used' = used
      /\ removed' = removed
  BY <1>1 DEF Manager!Close
<1>3. PICK next \in MgControl : next = control'
  <2>1. 0 \in Manager!Disk
    BY MgConstants DEF Manager!Disk
  <2> QED
    BY <2>1 DEF Manager!Close, Manager!Idle, MgControl
<1>4. \/ /\ control.pending = {} /\ next.pc = control.then /\ next.engine = None /\ next.pending = {}
         /\ next.then = "idle"
      \/ /\ next.pc = "detach" /\ next.engine \in control.pending /\ next.then = control.then
         /\ next.pending = control.pending \ {next.engine} /\ next.hub = "media"
  BY <1>3 DEF Manager!Close, Manager!Idle, MgControl
<1>5. \A k \in Manager!Hub : Manager!Subscribed(k)' = Manager!Subscribed(k) /\ e \notin Manager!Subscribed(k)
  BY <1>1, <1>2 DEF Manager!Subscribed, MgInv, MgSubscribed
<1>6. control.pending \subseteq Engine /\ control.then \in {"idle", "gone"}
  BY DEF MgControl
<1>7. e \in used /\ used \ freed = (Manager!Active \cup {e} \cup control.pending) \ {None} /\ e \notin Manager!Active
      /\ e \notin control.pending
  BY <1>1 DEF MgInv, MgOwned, Manager!InHand, Manager!Active
<1>8. MgTyped'
  <2>1. next.pc \in {"idle", "attach", "install", "detach", "drain", "close", "gone"}
    BY DEF MgControl
  <2> QED
    BY <1>2, <1>3, <1>7, <2>1 DEF MgInv, MgTyped, Manager!TypeOK
<1>9. MgPlaces'
  BY <1>2, <1>3, <1>4, <1>6 DEF MgInv, MgPlaces
<1>10. MgOwned'
  <2>1. Manager!Active' = Manager!Active
    BY <1>2 DEF Manager!Active
  <2>2. Manager!InHand' \ {None} = control.pending
    <3>1. Manager!InHand' = {next.engine} \cup next.pending
      BY <1>3 DEF Manager!InHand
    <3> QED
      BY <3>1, <1>4, <1>6
  <2>3. used' \ freed' = (used \ freed) \ {e}
    BY <1>2
  <2>4. (used \ freed)' = (Manager!Active \cup Manager!InHand)' \ {None}
    BY <2>1, <2>2, <2>3, <1>7
  <2>5. \A i \in 1 .. NSlots : slots[i].engine \notin control.pending
    BY DEF MgInv, MgOwned
  <2>6. next.pending \subseteq control.pending /\ next.engine \notin next.pending
        /\ (next.engine = None \/ next.engine \in control.pending)
    BY <1>4
  <2>7. \A i \in 1 .. NSlots : (slots[i].engine # next.engine \/ slots[i].engine = None) /\ slots[i].engine \notin next.pending
    BY <2>5, <2>6
  <2>8. \A i, j \in 1 .. NSlots : slots[i].engine = slots[j].engine => i = j \/ slots[i].engine = None
    BY DEF MgInv, MgOwned
  <2> QED
    BY <2>4, <2>6, <2>7, <2>8, <1>2, <1>3 DEF MgOwned
<1>11. MgSubscribed'
  <2>1. \A k \in Manager!Hub : Manager!Subscribed(k)' \subseteq (used \ freed)'
    BY <1>2, <1>5 DEF MgInv, MgSubscribed
  <2>2. next.pc \in {"idle", "gone"} \/ (next.pc = "detach" /\ next.hub = "media")
    BY <1>4, <1>6
  <2> QED
    BY <2>1, <2>2, <1>3 DEF MgSubscribed
<1>12. MgFlights'
  BY <1>2, <1>5, MgReach, MgFlown
<1>13. MgTables'
  <2> SUFFICES ASSUME ~removed PROVE MgTables'
    BY <1>2 DEF MgTables
  <2>1. sinks["media"] = sinks["event"] /\ control.pending = {}
    BY <1>2 DEF MgInv, MgTables, MgPlaces
  <2>2. next.pc \in {"idle", "gone"}
    BY <1>4, <1>6, <2>1
  <2> QED
    BY <1>2, <1>3, <2>1, <2>2 DEF MgTables
<1>14. MgInTurn'
  <2> SUFFICES ASSUME ~CapacityAware, ~removed PROVE MgInTurn'
    BY <1>2 DEF MgInTurn
  <2>1. PICK q \in Nat, r \in Manager!Disk :
          /\ \A d \in Manager!Disk : Cardinality(MgLoad(d)) = IF d < r THEN q + 1 ELSE q
          /\ MgFull
    BY <1>2 DEF MgInv, MgInTurn
  <2>2. MgFull' /\ \A d \in Manager!Disk : MgLoad(d)' = MgLoad(d)
    BY <1>2, <2>1 DEF MgFull, MgLoad, Manager!Active
  <2>3. /\ \A d \in Manager!Disk : Cardinality(MgLoad(d)') = IF d < r THEN q + 1 ELSE q
        /\ MgFull' /\ control'.pc # "install" /\ control'.pc # "attach"
    BY <2>1, <2>2, <1>3, <1>4, <1>6
  <2> QED
    BY <2>3 DEF MgInTurn
<1> QED
  BY <1>8, <1>9, <1>10, <1>11, <1>12, <1>13, <1>14 DEF MgInv

LEMMA MgStep == ASSUME MgInv, Manager!Next PROVE MgInv'
BY MgAdds, MgRemoves, MgAttaches, MgFails, MgInstalls, MgDestroys, MgDetaches, MgDrains, MgCloses,
   MgPublishes, MgCalls, MgReturns, Zenon DEF Manager!Next, Manager!ControlNext

LEMMA MgIsSafe == ASSUME MgInv PROVE Manager!EnginesSafe
<1> USE MgFacts
<1>1. Manager!TypeOK
  BY DEF MgInv, MgTyped
<1>2. Manager!NoUseAfterFree
  <2> SUFFICES ASSUME NEW p \in Publisher, NEW e \in flight[p].todo PROVE e \notin freed
    BY DEF Manager!NoUseAfterFree
  <2>1. e \in Engine /\ flight[p].hub \in Manager!Hub
    BY DEF MgInv, MgTyped
  <2>2. CASE e \in Manager!Subscribed(flight[p].hub)
    BY <2>1, <2>2 DEF MgInv, MgSubscribed
  <2>3. CASE e = control.engine
    BY <2>1, <2>3 DEF MgInv, MgOwned, Manager!InHand
  <2> QED
    BY <2>2, <2>3 DEF MgInv, MgFlights
<1>3. Manager!EnginesOwned
  <2>1. used \ freed \subseteq Manager!Active \cup Manager!InHand
    BY DEF MgInv, MgOwned
  <2>2. \A h \in Manager!Hub : Manager!Subscribed(h) \cap freed = {}
    BY DEF MgInv, MgSubscribed
  <2>3. control.pc = "gone" => used = freed
    <3> SUFFICES ASSUME control.pc = "gone" PROVE used \ freed = {}
      OBVIOUS
    <3>1. control.engine = None /\ control.pending = {} /\ \A i \in 1 .. NSlots : slots[i].engine = None
      BY DEF MgInv, MgPlaces
    <3>2. Manager!Active = {} /\ Manager!InHand = {None}
      BY <3>1 DEF Manager!Active, Manager!InHand
    <3> QED
      BY <3>2 DEF MgInv, MgOwned
  <2> QED
    BY <2>1, <2>2, <2>3 DEF Manager!EnginesOwned
<1>4. Manager!EvenPlacement
  <2> SUFFICES ASSUME ~CapacityAware, ~removed, NEW d \in Manager!Disk, NEW e \in Manager!Disk
               PROVE  Cardinality(MgLoad(d)) <= Cardinality(MgLoad(e)) + 1
    BY MgCounts DEF Manager!EvenPlacement, MgLoad
  <2>1. PICK q \in Nat, r \in Manager!Disk :
          \A x \in Manager!Disk : Cardinality(MgLoad(x)) = IF x < r THEN q + 1 ELSE q
    BY DEF MgInv, MgInTurn
  <2> QED
    BY <2>1
<1> QED
  BY <1>1, <1>2, <1>3, <1>4 DEF Manager!EnginesSafe

(***************************************************************************)
(* svc_nvr_recorder.c, nop_media.c: no thread calls into an engine that    *)
(* was freed, none is lost, and the disks share them evenly: for any       *)
(* number of channels, slots, places in the hubs, disks and publishers.    *)
(***************************************************************************)
THEOREM EnginesAreOwned == BoxSpec => []EnginesSafe
<1>1. BoxInit => MgInv
  BY MgInitInv, Zenon DEF BoxInit
<1>2. MgInv /\ [BoxNext]_boxVars => MgInv'
  <2> SUFFICES ASSUME MgInv, [BoxNext]_boxVars PROVE MgInv'
    OBVIOUS
  <2>1. CASE UNCHANGED managerVars
    <3>1. /\ slots' = slots /\ cursor' = cursor /\ sinks' = sinks /\ control' = control /\ flight' = flight
          /\ freed' = freed /\ used' = used /\ removed' = removed
      BY <2>1 DEF managerVars
    <3>2. MgPlaces' /\ MgOwned' /\ MgSubscribed' /\ MgTables' /\ MgInTurn'
      BY <3>1, MgQuiet
    <3>3. MgTyped' /\ MgFlights'
      BY <3>1 DEF MgInv, MgTyped, Manager!TypeOK, MgFlights, Manager!Subscribed
    <3> QED
      BY <3>2, <3>3 DEF MgInv
  <2>2. CASE Manager!Next
    BY <2>2, MgStep, Zenon
  <2> QED
    BY <2>1, <2>2, Zenon DEF BoxNext, boxVars
<1>3. MgInv => EnginesSafe
  BY MgIsSafe, Zenon DEF EnginesSafe
<1> QED
  BY <1>1, <1>2, <1>3, PTL DEF BoxSpec

-----------------------------------------------------------------------------
(***************************************************************************)
(* PtzTables and Setup.  A preset in use is numbered as its slot, so what  *)
(* the camera keeps under the number is nobody else's; the engine runs a   *)
(* patrol of the table; an offer takes a slot only for a new chime.        *)
(***************************************************************************)
TbPreset == [used : BOOLEAN, index : Nat, token : Ptz!Token \cup {Beginning, Nowhere},
             at : (Camera \cup {Nowhere}) \X (Position \cup {Nowhere})]
TbPatrol == [used : BOOLEAN, token : (0 .. SeqMax) \cup {Nowhere}, spots : Ptz!Spots]
TbEngine == [running : BOOLEAN, camera : Camera \cup {Nowhere}, spots : Ptz!Spots,
             origin : (0 .. SeqMax) \cup {Nowhere}]

TbTyped ==
  /\ Ptz!PtzTypeOK
  /\ presetTab \in [PresetSlot -> TbPreset] /\ patrolTab \in [PatrolSlot -> TbPatrol] /\ engine \in TbEngine
  /\ kept \in [Camera -> [PresetSlot -> Position \cup {Nowhere}]] /\ gimbal \in [Camera -> Position]

\* The number of a preset is that of its slot, and the camera that keeps it is a camera.
TbNumbered ==
  \A i \in PresetSlot : presetTab[i].used => presetTab[i].index = i /\ presetTab[i].at[1] \in Camera

TbInv == TbTyped /\ TbNumbered /\ Ptz!PresetsKept /\ Ptz!RunningIsListed /\ Ptz!OnePresetPerToken

LEMMA TbConstants ==
  /\ CutWord \subseteq Word /\ Word \cap Nat = {} /\ Beginning \notin Word \cup Nat /\ SeqMax \in Nat
  /\ PresetSlot \subseteq Nat /\ PatrolSlot \subseteq Nat /\ Position # {}
BY BoxAssumption DEF Ptz!PtzTablesAssumption

LEMMA TbFirst == ASSUME NEW S \in SUBSET Nat, S # {} PROVE Ptz!First(S) \in S
BY Least DEF Ptz!First

\* The slots that a search finds, and the one it takes.
LEMMA TbSlots ==
  ASSUME TbInv
  PROVE  /\ \A t : Ptz!Finds(presetTab, t) # {} =>
              LET i == Ptz!First(Ptz!Finds(presetTab, t)) IN
              i \in PresetSlot /\ presetTab[i].used /\ presetTab[i].token = t
         /\ Ptz!Alloc(presetTab) # {} =>
              LET i == Ptz!First(Ptz!Alloc(presetTab)) IN i \in PresetSlot /\ ~presetTab[i].used
         /\ Ptz!Alloc(patrolTab) # {} =>
              LET i == Ptz!First(Ptz!Alloc(patrolTab)) IN i \in PatrolSlot /\ ~patrolTab[i].used
<1>1. DOMAIN presetTab = PresetSlot /\ DOMAIN patrolTab = PatrolSlot
  BY DEF TbInv, TbTyped
<1>2. Ptz!Alloc(presetTab) \in SUBSET Nat /\ Ptz!Alloc(patrolTab) \in SUBSET Nat
  BY <1>1, TbConstants DEF Ptz!Alloc
<1>3. \A t : Ptz!Finds(presetTab, t) \in SUBSET Nat
  BY <1>1, TbConstants DEF Ptz!Finds
<1>4. \A t : Ptz!Finds(presetTab, t) # {} => Ptz!First(Ptz!Finds(presetTab, t)) \in Ptz!Finds(presetTab, t)
  BY <1>3, TbFirst
<1>5. /\ Ptz!Alloc(presetTab) # {} => Ptz!First(Ptz!Alloc(presetTab)) \in Ptz!Alloc(presetTab)
      /\ Ptz!Alloc(patrolTab) # {} => Ptz!First(Ptz!Alloc(patrolTab)) \in Ptz!Alloc(patrolTab)
  BY <1>2, TbFirst
<1> QED
  BY <1>1, <1>4, <1>5 DEF Ptz!Finds, Ptz!Alloc

LEMMA TbInitInv == ASSUME Ptz!PtzInit PROVE TbInv
<1>1. /\ presetTab = [i \in PresetSlot |-> [used |-> FALSE, index |-> 0, token |-> Nowhere, at |-> <<Nowhere, Nowhere>>]]
      /\ patrolTab = [i \in PatrolSlot |-> [used |-> FALSE, token |-> Nowhere, spots |-> {}]]
      /\ engine = [running |-> FALSE, camera |-> Nowhere, spots |-> {}, origin |-> Nowhere]
  BY DEF Ptz!PtzInit, Ptz!FreePreset, Ptz!FreePatrol, Ptz!Idle
<1>2. gimbal \in [Camera -> Position]
  BY TbConstants DEF Ptz!PtzInit
<1>3. kept \in [Camera -> [PresetSlot -> Position \cup {Nowhere}]]
  BY DEF Ptz!PtzInit
<1>4. /\ \A i \in PresetSlot : ~presetTab[i].used
      /\ \A i \in PatrolSlot : ~patrolTab[i].used
      /\ ~engine.running
  BY <1>1, Zenon
<1>5. Ptz!PtzTypeOK
  BY <1>2, <1>4, TbConstants DEF Ptz!PtzTypeOK, Ptz!PtzInit
<1>6. presetTab \in [PresetSlot -> TbPreset] /\ patrolTab \in [PatrolSlot -> TbPatrol] /\ engine \in TbEngine
  BY <1>1 DEF TbPreset, TbPatrol, TbEngine, Ptz!Spots
<1> QED
  BY <1>2, <1>3, <1>4, <1>5, <1>6 DEF TbInv, TbTyped, TbNumbered, Ptz!PresetsKept, Ptz!RunningIsListed, Ptz!OnePresetPerToken

-----------------------------------------------------------------------------
(* Presets. *)

\* What the presets have to do with the patrols: nothing.
LEMMA TbPresetsOnly ==
  ASSUME TbInv, patrolTab' = patrolTab, patrolSeq' = patrolSeq, activePatrol' = activePatrol, engine' = engine,
         presetSeq' \in 0 .. SeqMax + 1,
         \A i \in PresetSlot : presetTab'[i].used => presetTab'[i].token \in (Ptz!Token \ CutWord) \cup {Beginning},
         presetTab' \in [PresetSlot -> TbPreset],
         kept' \in [Camera -> [PresetSlot -> Position \cup {Nowhere}]], gimbal' \in [Camera -> Position],
         TbNumbered', Ptz!PresetsKept', Ptz!OnePresetPerToken'
  PROVE  TbInv'
<1>1. Ptz!RunningIsListed'
  BY DEF TbInv, Ptz!RunningIsListed
<1>2. Ptz!PtzTypeOK'
  BY DEF TbInv, TbTyped, Ptz!PtzTypeOK
<1>3. TbTyped'
  BY <1>2 DEF TbInv, TbTyped
<1> QED
  BY <1>1, <1>3 DEF TbInv

LEMMA TbSaves ==
  ASSUME TbInv, NEW c \in Camera, NEW i \in PresetSlot, NEW t \in (Ptz!Token \ CutWord) \cup {Beginning},
         Ptz!Save(c, i, t), presetSeq' \in 0 .. SeqMax + 1,
         (t \in 0 .. SeqMax) \/ t = Beginning
           \/ \A j \in PresetSlot : j # i => ~(presetTab[j].used /\ presetTab[j].token = t)
           \/ (presetTab[i].used /\ presetTab[i].token = t)
  PROVE  TbInv'
<1>1. Ptz!Index(i) = i
  BY DEF Ptz!Index, TbInv, TbNumbered
<1>2. /\ presetTab' = [presetTab EXCEPT ![i] = [used |-> TRUE, index |-> i, token |-> t, at |-> <<c, gimbal[c]>>]]
      /\ kept' = [kept EXCEPT ![c][i] = gimbal[c]] /\ gimbal' = gimbal
      /\ patrolTab' = patrolTab /\ patrolSeq' = patrolSeq /\ activePatrol' = activePatrol /\ engine' = engine
  BY <1>1 DEF Ptz!Save, Ptz!patVars
<1>3. PICK p \in Position : p = gimbal[c]
  BY DEF TbInv, TbTyped
<1>4. /\ presetTab \in [PresetSlot -> TbPreset] /\ gimbal \in [Camera -> Position]
      /\ kept \in [Camera -> [PresetSlot -> Position \cup {Nowhere}]]
  BY DEF TbInv, TbTyped
<1> DEFINE new == [used |-> TRUE, index |-> i, token |-> t, at |-> <<c, p>>]
<1>5. new \in TbPreset
  BY TbConstants DEF TbPreset
<1>6. new.used /\ new.index = i /\ new.token = t /\ new.at[1] = c /\ new.at[2] = p
  BY Zenon
<1>7. presetTab' = [presetTab EXCEPT ![i] = new]
  BY <1>2, <1>3
<1> HIDE DEF new
<1>8. presetTab' \in [PresetSlot -> TbPreset] /\ \A j \in PresetSlot : presetTab'[j] = IF j = i THEN new ELSE presetTab[j]
  BY <1>4, <1>5, <1>7
<1>9. /\ kept' \in [Camera -> [PresetSlot -> Position \cup {Nowhere}]]
      /\ \A d \in Camera : \A j \in PresetSlot : kept'[d][j] = IF d = c /\ j = i THEN p ELSE kept[d][j]
  BY <1>2, <1>3, <1>4
<1>10. TbNumbered'
  BY <1>6, <1>8 DEF TbInv, TbNumbered
<1>11. Ptz!PresetsKept'
  <2> SUFFICES ASSUME NEW j \in PresetSlot, presetTab'[j].used
               PROVE  kept'[presetTab'[j].at[1]][presetTab'[j].index] = presetTab'[j].at[2]
    BY DEF Ptz!PresetsKept
  <2>1. CASE j = i
    BY <1>6, <1>8, <1>9, <2>1
  <2>2. CASE j # i
    <3>1. presetTab'[j] = presetTab[j] /\ presetTab[j].used
      BY <1>8, <2>2
    <3>2. presetTab[j].index = j /\ presetTab[j].at[1] \in Camera
      BY <3>1 DEF TbInv, TbNumbered
    <3>3. kept[presetTab[j].at[1]][j] = presetTab[j].at[2]
      BY <3>1, <3>2 DEF TbInv, Ptz!PresetsKept
    <3> QED
      BY <3>1, <3>2, <3>3, <1>9, <2>2
  <2> QED
    BY <2>1, <2>2
<1>12. Ptz!OnePresetPerToken'
  <2> SUFFICES ASSUME NEW j \in PresetSlot, NEW k \in PresetSlot, j # k, presetTab'[j].used, presetTab'[k].used,
                      presetTab'[j].token = presetTab'[k].token
               PROVE  presetTab'[j].token \in (0 .. SeqMax) \cup {Beginning}
    BY DEF Ptz!OnePresetPerToken
  <2>1. \A m \in PresetSlot : m # i => presetTab'[m] = presetTab[m]
    BY <1>8
  <2>2. presetTab'[i].token = t
    BY <1>6, <1>8
  <2>3. CASE j # i /\ k # i
    BY <2>1, <2>3 DEF TbInv, Ptz!OnePresetPerToken
  <2>4. ASSUME NEW m \in PresetSlot, m # i, presetTab[m].used, presetTab[m].token = t
        PROVE  t \in (0 .. SeqMax) \cup {Beginning}
    <3>1. CASE presetTab[i].used /\ presetTab[i].token = t
      BY <3>1, <2>4 DEF TbInv, Ptz!OnePresetPerToken
    <3> QED
      BY <3>1, <2>4
  <2>5. CASE j = i
    BY <2>1, <2>2, <2>4, <2>5
  <2>6. CASE k = i
    BY <2>1, <2>2, <2>4, <2>6
  <2> QED
    BY <2>3, <2>5, <2>6
<1>13. \A j \in PresetSlot : presetTab'[j].used => presetTab'[j].token \in (Ptz!Token \ CutWord) \cup {Beginning}
  BY <1>6, <1>8 DEF TbInv, TbTyped, Ptz!PtzTypeOK
<1> QED
  BY <1>2, <1>4, <1>8, <1>9, <1>10, <1>11, <1>12, <1>13, TbPresetsOnly

LEMMA TbSetsPreset == ASSUME TbInv, NEW c \in Camera, NEW t \in Ptz!Token, Ptz!SetPreset(c, t) PROVE TbInv'
<1>1. PICK i \in PresetSlot : presetTab[i].used /\ presetTab[i].token = t /\ Ptz!Save(c, i, t)
  BY TbSlots DEF Ptz!SetPreset
<1>2. t \in (Ptz!Token \ CutWord) \cup {Beginning}
  BY <1>1 DEF TbInv, TbTyped, Ptz!PtzTypeOK
<1>3. presetSeq' \in 0 .. SeqMax + 1
  BY DEF Ptz!SetPreset, TbInv, TbTyped, Ptz!PtzTypeOK
<1> QED
  BY <1>1, <1>2, <1>3, TbSaves

LEMMA TbSetsNew == ASSUME TbInv, NEW c \in Camera, NEW t \in Ptz!Token, Ptz!SetNewPreset(c, t) PROVE TbInv'
<1>1. PICK i \in PresetSlot : Ptz!Save(c, i, Ptz!Copied(t))
  BY TbSlots DEF Ptz!SetNewPreset
<1>2. Ptz!Copied(t) \in (Ptz!Token \ CutWord) \cup {Beginning}
  BY DEF Ptz!Copied
<1>3. presetSeq' \in 0 .. SeqMax + 1
  BY DEF Ptz!SetNewPreset, TbInv, TbTyped, Ptz!PtzTypeOK
<1>4. Ptz!Copied(t) # Beginning =>
        \A j \in PresetSlot : ~(presetTab[j].used /\ presetTab[j].token = Ptz!Copied(t))
  BY DEF Ptz!SetNewPreset, Ptz!Finds, Ptz!Copied, TbInv, TbTyped
<1> QED
  BY <1>1, <1>2, <1>3, <1>4, TbSaves

LEMMA TbSetsAny == ASSUME TbInv, NEW c \in Camera, Ptz!SetAnyPreset(c) PROVE TbInv'
<1>1. PICK i \in PresetSlot : Ptz!Save(c, i, presetSeq)
  BY TbSlots DEF Ptz!SetAnyPreset
<1>2. presetSeq \in 0 .. SeqMax /\ presetSeq' \in 0 .. SeqMax + 1
  BY TbConstants DEF Ptz!SetAnyPreset, TbInv, TbTyped, Ptz!PtzTypeOK
<1>3. presetSeq \in (Ptz!Token \ CutWord) \cup {Beginning}
  BY <1>2, TbConstants DEF Ptz!Token
<1> QED
  BY <1>1, <1>2, <1>3, TbSaves

LEMMA TbRemovesPreset == ASSUME TbInv, NEW c \in Camera, NEW t \in Ptz!Token, Ptz!RemovePreset(c, t) PROVE TbInv'
<1>1. PICK i \in PresetSlot :
        /\ presetTab[i].used /\ presetTab[i].token = t
        /\ kept' = [kept EXCEPT ![c][presetTab[i].index] = Nowhere]
        /\ presetTab' = [presetTab EXCEPT ![i] = Ptz!FreePreset]
  BY TbSlots DEF Ptz!RemovePreset
<1>2. presetTab[i].index = i
  BY <1>1 DEF TbInv, TbNumbered
<1>3. /\ presetSeq' = presetSeq /\ gimbal' = gimbal
      /\ patrolTab' = patrolTab /\ patrolSeq' = patrolSeq /\ activePatrol' = activePatrol /\ engine' = engine
  BY DEF Ptz!RemovePreset, Ptz!patVars
<1>4. /\ presetTab \in [PresetSlot -> TbPreset] /\ gimbal \in [Camera -> Position]
      /\ kept \in [Camera -> [PresetSlot -> Position \cup {Nowhere}]] /\ presetSeq \in 0 .. SeqMax + 1
  BY DEF TbInv, TbTyped, Ptz!PtzTypeOK
<1>5. Ptz!FreePreset \in TbPreset /\ ~Ptz!FreePreset.used
  BY DEF TbPreset, Ptz!FreePreset
<1>6. presetTab' \in [PresetSlot -> TbPreset] /\ ~presetTab'[i].used
      /\ \A j \in PresetSlot : j # i => presetTab'[j] = presetTab[j]
  BY <1>1, <1>4, <1>5
<1>7. /\ kept' \in [Camera -> [PresetSlot -> Position \cup {Nowhere}]]
      /\ \A d \in Camera : \A j \in PresetSlot : j # i => kept'[d][j] = kept[d][j]
  BY <1>1, <1>2, <1>4
<1>8. TbNumbered'
  BY <1>6 DEF TbInv, TbNumbered
<1>9. Ptz!PresetsKept'
  <2> SUFFICES ASSUME NEW j \in PresetSlot, presetTab'[j].used
               PROVE  kept'[presetTab'[j].at[1]][presetTab'[j].index] = presetTab'[j].at[2]
    BY DEF Ptz!PresetsKept
  <2>1. j # i /\ presetTab'[j] = presetTab[j] /\ presetTab[j].used
    BY <1>6
  <2>2. presetTab[j].index = j /\ presetTab[j].at[1] \in Camera
    BY <2>1 DEF TbInv, TbNumbered
  <2>3. kept[presetTab[j].at[1]][j] = presetTab[j].at[2]
    BY <2>1, <2>2 DEF TbInv, Ptz!PresetsKept
  <2> QED
    BY <2>1, <2>2, <2>3, <1>7
<1>10. Ptz!OnePresetPerToken'
  BY <1>6 DEF TbInv, Ptz!OnePresetPerToken
<1>11. \A j \in PresetSlot : presetTab'[j].used => presetTab'[j].token \in (Ptz!Token \ CutWord) \cup {Beginning}
  BY <1>6 DEF TbInv, TbTyped, Ptz!PtzTypeOK
<1> QED
  BY <1>3, <1>4, <1>6, <1>7, <1>8, <1>9, <1>10, <1>11, TbPresetsOnly

\* The camera turns: the tables stay.
LEMMA TbTurns ==
  ASSUME TbInv, gimbal' \in [Camera -> Position], UNCHANGED Ptz!tabVars, UNCHANGED Ptz!patVars
  PROVE  TbInv'
<1>1. /\ presetTab' = presetTab /\ presetSeq' = presetSeq /\ kept' = kept
      /\ patrolTab' = patrolTab /\ patrolSeq' = patrolSeq /\ activePatrol' = activePatrol /\ engine' = engine
  BY DEF Ptz!tabVars, Ptz!patVars
<1>2. Ptz!PtzTypeOK'
  BY <1>1 DEF TbInv, TbTyped, Ptz!PtzTypeOK
<1> QED
  BY <1>1, <1>2 DEF TbInv, TbTyped, TbNumbered, Ptz!PresetsKept, Ptz!RunningIsListed, Ptz!OnePresetPerToken

LEMMA TbGoes ==
  ASSUME TbInv, NEW c \in Camera, NEW i \in PresetSlot, Ptz!Goes(c, i)
  PROVE  gimbal' \in [Camera -> Position]
<1>1. kept[c][i] \in Position \cup {Nowhere} /\ gimbal \in [Camera -> Position]
  BY DEF TbInv, TbTyped
<1> QED
  BY <1>1 DEF Ptz!Goes

LEMMA TbGoesTo == ASSUME TbInv, NEW c \in Camera, NEW t \in Ptz!Token, Ptz!GotoPreset(c, t) PROVE TbInv'
<1>1. PICK i \in PresetSlot : presetTab[i].used /\ Ptz!Goes(c, presetTab[i].index)
  BY TbSlots DEF Ptz!GotoPreset
<1>2. Ptz!Goes(c, i)
  BY <1>1 DEF TbInv, TbNumbered
<1> QED
  BY <1>2, TbGoes, TbTurns DEF Ptz!GotoPreset, Ptz!tabVars, Ptz!patVars

LEMMA TbDrives == ASSUME TbInv, NEW c \in Camera, NEW p \in Position, Ptz!Drive(c, p) PROVE TbInv'
<1>1. gimbal' \in [Camera -> Position]
  BY DEF Ptz!Drive, TbInv, TbTyped
<1> QED
  BY <1>1, TbTurns DEF Ptz!Drive, Ptz!tabVars, Ptz!patVars

LEMMA TbVisits == ASSUME TbInv, NEW i \in PresetSlot, Ptz!Visit(i) PROVE TbInv'
<1>1. engine.running /\ engine.camera \in Camera /\ Ptz!Goes(engine.camera, i)
  BY DEF Ptz!Visit, TbInv, TbTyped, Ptz!PtzTypeOK
<1> QED
  BY <1>1, TbGoes, TbTurns DEF Ptz!Visit, Ptz!tabVars, Ptz!patVars

-----------------------------------------------------------------------------
(* Patrols. *)

LEMMA TbPatrolsOnly ==
  ASSUME TbInv, presetTab' = presetTab, presetSeq' = presetSeq, kept' = kept, gimbal' = gimbal,
         patrolTab' \in [PatrolSlot -> TbPatrol], engine' \in TbEngine, patrolSeq' \in 0 .. SeqMax + 1,
         activePatrol' \in (0 .. SeqMax) \cup {Nowhere},
         \A i \in PatrolSlot : patrolTab'[i].used => patrolTab'[i].token \in 0 .. patrolSeq' - 1,
         engine'.running => engine'.camera \in Camera /\ engine'.spots # {},
         Ptz!RunningIsListed'
  PROVE  TbInv'
<1>1. \A i \in PatrolSlot : patrolTab'[i].spots \in Ptz!Spots
  BY DEF TbPatrol
<1>2. engine'.spots \in Ptz!Spots
  BY DEF TbEngine
<1>3. Ptz!PtzTypeOK'
  BY <1>1, <1>2 DEF TbInv, TbTyped, Ptz!PtzTypeOK
<1> QED
  BY <1>3 DEF TbInv, TbTyped, TbNumbered, Ptz!PresetsKept, Ptz!OnePresetPerToken

LEMMA TbPatrolFacts ==
  ASSUME TbInv
  PROVE  /\ patrolTab \in [PatrolSlot -> TbPatrol] /\ engine \in TbEngine /\ patrolSeq \in 0 .. SeqMax + 1
         /\ activePatrol \in (0 .. SeqMax) \cup {Nowhere}
         /\ \A i \in PatrolSlot : patrolTab[i].used => patrolTab[i].token \in 0 .. patrolSeq - 1 /\ patrolTab[i].token \in 0 .. SeqMax
         /\ engine.running => engine.camera \in Camera /\ engine.spots # {}
         /\ Ptz!RunningIsListed
         /\ Ptz!Idle \in TbEngine /\ ~Ptz!Idle.running
<1>1. Ptz!Idle \in TbEngine /\ ~Ptz!Idle.running
  BY DEF Ptz!Idle, TbEngine, Ptz!Spots
<1>2. \A i \in PatrolSlot : patrolTab[i].used => patrolTab[i].token \in 0 .. patrolSeq - 1
  BY DEF TbInv, TbTyped, Ptz!PtzTypeOK
<1>3. patrolSeq \in 0 .. SeqMax + 1 /\ SeqMax \in Nat
  BY TbConstants DEF TbInv, TbTyped, Ptz!PtzTypeOK
<1>4. \A i \in PatrolSlot : patrolTab[i].used => patrolTab[i].token \in 0 .. SeqMax
  BY <1>2, <1>3
<1> QED
  BY <1>1, <1>2, <1>3, <1>4 DEF TbInv, TbTyped, Ptz!PtzTypeOK

LEMMA TbCreates == ASSUME TbInv, NEW s \in Ptz!Spots, Ptz!CreatePatrol(s) PROVE TbInv'
<1>1. PICK i \in PatrolSlot :
        /\ ~patrolTab[i].used
        /\ patrolTab' = [patrolTab EXCEPT ![i] = [used |-> TRUE, token |-> patrolSeq, spots |-> s]]
  BY TbSlots DEF Ptz!CreatePatrol
<1>2. /\ patrolSeq <= SeqMax /\ patrolSeq' = patrolSeq + 1 /\ activePatrol' = activePatrol /\ engine' = engine
      /\ presetTab' = presetTab /\ presetSeq' = presetSeq /\ kept' = kept /\ gimbal' = gimbal
  BY DEF Ptz!CreatePatrol, Ptz!tabVars
<1>3. patrolSeq \in 0 .. SeqMax /\ patrolSeq' \in 0 .. SeqMax + 1 /\ patrolSeq \in 0 .. patrolSeq' - 1
  BY <1>2, TbPatrolFacts, TbConstants
<1>4. \A x \in 0 .. patrolSeq - 1 : x \in 0 .. patrolSeq' - 1
  BY <1>2, <1>3
<1> DEFINE new == [used |-> TRUE, token |-> patrolSeq, spots |-> s]
<1>5. new \in TbPatrol /\ new.token = patrolSeq
  BY <1>3 DEF TbPatrol
<1> HIDE DEF new
<1>6. /\ patrolTab' \in [PatrolSlot -> TbPatrol]
      /\ patrolTab'[i] = new /\ \A j \in PatrolSlot : j # i => patrolTab'[j] = patrolTab[j]
  BY <1>1, <1>5, TbPatrolFacts DEF new
<1>7. \A j \in PatrolSlot : patrolTab'[j].used => patrolTab'[j].token \in 0 .. patrolSeq' - 1
  BY <1>3, <1>4, <1>5, <1>6, TbPatrolFacts
<1>8. Ptz!RunningIsListed'
  <2> SUFFICES ASSUME engine.running
               PROVE  engine.origin = activePatrol /\ \E j \in PatrolSlot : patrolTab'[j].used /\ patrolTab'[j].token = activePatrol
    BY <1>2 DEF Ptz!RunningIsListed
  <2> QED
    BY <1>1, <1>6, TbPatrolFacts DEF Ptz!RunningIsListed
<1> QED
  BY <1>2, <1>3, <1>6, <1>7, <1>8, TbPatrolFacts, TbPatrolsOnly

LEMMA TbModifies ==
  ASSUME TbInv, NEW s \in Ptz!Spots, NEW i \in PatrolSlot, Ptz!ModifyPatrol(i, s)
  PROVE  TbInv'
<1>1. /\ patrolTab' = [patrolTab EXCEPT ![i].spots = s] /\ patrolSeq' = patrolSeq
      /\ activePatrol' = activePatrol /\ engine' = engine
      /\ presetTab' = presetTab /\ presetSeq' = presetSeq /\ kept' = kept /\ gimbal' = gimbal
  BY DEF Ptz!ModifyPatrol, Ptz!tabVars
<1>2. patrolTab' \in [PatrolSlot -> TbPatrol]
  BY <1>1, TbPatrolFacts DEF TbPatrol
<1>3. \A j \in PatrolSlot : patrolTab'[j].used = patrolTab[j].used /\ patrolTab'[j].token = patrolTab[j].token
  BY <1>1, TbPatrolFacts, Zenon DEF TbPatrol
<1>4. \A j \in PatrolSlot : patrolTab'[j].used => patrolTab'[j].token \in 0 .. patrolSeq - 1
  BY <1>3, TbPatrolFacts
<1>5. Ptz!RunningIsListed'
  BY <1>1, <1>3, TbPatrolFacts DEF Ptz!RunningIsListed
<1> QED
  BY <1>1, <1>2, <1>4, <1>5, TbPatrolFacts, TbPatrolsOnly

LEMMA TbStarts ==
  ASSUME TbInv, NEW c \in Camera, NEW i \in PatrolSlot, Ptz!StartPatrol(c, i)
  PROVE  TbInv'
<1>1. /\ patrolTab' = patrolTab /\ patrolSeq' = patrolSeq
      /\ presetTab' = presetTab /\ presetSeq' = presetSeq /\ kept' = kept /\ gimbal' = gimbal
      /\ patrolTab[i].used /\ patrolTab[i].spots # {} /\ activePatrol' = patrolTab[i].token
  BY DEF Ptz!StartPatrol, Ptz!tabVars
<1>2. PICK k \in 0 .. SeqMax : k = patrolTab[i].token
  BY <1>1, TbPatrolFacts
<1>3. PICK s \in Ptz!Spots : s = patrolTab[i].spots
  BY TbPatrolFacts DEF TbPatrol
<1>4. engine' = [running |-> TRUE, camera |-> c, spots |-> s, origin |-> k]
  BY <1>2, <1>3 DEF Ptz!StartPatrol
<1>5. engine' \in TbEngine
  BY <1>4 DEF TbEngine
<1>6. engine'.camera = c /\ engine'.spots = s /\ engine'.origin = k
  BY <1>4
<1>7. Ptz!RunningIsListed'
  BY <1>1, <1>2, <1>6 DEF Ptz!RunningIsListed
<1>8. activePatrol' \in (0 .. SeqMax) \cup {Nowhere}
  BY <1>1, <1>2
<1> QED
  BY <1>1, <1>3, <1>5, <1>6, <1>7, <1>8, TbPatrolFacts, TbPatrolsOnly

LEMMA TbStartFails == ASSUME TbInv, NEW i \in PatrolSlot, Ptz!StartFails(i) PROVE TbInv'
<1>1. /\ patrolTab' = patrolTab /\ patrolSeq' = patrolSeq /\ activePatrol' = activePatrol /\ engine' = Ptz!Idle
      /\ presetTab' = presetTab /\ presetSeq' = presetSeq /\ kept' = kept /\ gimbal' = gimbal
  BY DEF Ptz!StartFails, Ptz!tabVars
<1>2. Ptz!RunningIsListed'
  BY <1>1, TbPatrolFacts DEF Ptz!RunningIsListed
<1> QED
  BY <1>1, <1>2, TbPatrolFacts, TbPatrolsOnly

LEMMA TbHalts ==
  ASSUME TbInv, NEW i \in PatrolSlot, Ptz!Halt(i)
  PROVE  /\ engine' \in TbEngine /\ activePatrol' \in (0 .. SeqMax) \cup {Nowhere}
         /\ engine'.running => /\ engine' = engine /\ activePatrol' = activePatrol
                               /\ activePatrol # patrolTab[i].token
<1>1. CASE activePatrol = patrolTab[i].token
  BY <1>1, TbPatrolFacts DEF Ptz!Halt
<1>2. CASE activePatrol # patrolTab[i].token
  BY <1>2, TbPatrolFacts DEF Ptz!Halt
<1> QED
  BY <1>1, <1>2

LEMMA TbStops == ASSUME TbInv, NEW i \in PatrolSlot, Ptz!StopPatrol(i) PROVE TbInv'
<1>1. /\ patrolTab' = patrolTab /\ patrolSeq' = patrolSeq /\ Ptz!Halt(i)
      /\ presetTab' = presetTab /\ presetSeq' = presetSeq /\ kept' = kept /\ gimbal' = gimbal
  BY DEF Ptz!StopPatrol, Ptz!tabVars
<1>2. Ptz!RunningIsListed'
  BY <1>1, TbHalts, TbPatrolFacts DEF Ptz!RunningIsListed
<1>3. engine'.running => engine'.camera \in Camera /\ engine'.spots # {}
  BY <1>1, TbHalts, TbPatrolFacts
<1> QED
  BY <1>1, <1>2, <1>3, TbHalts, TbPatrolFacts, TbPatrolsOnly

LEMMA TbRemovesPatrol == ASSUME TbInv, NEW i \in PatrolSlot, Ptz!RemovePatrol(i) PROVE TbInv'
<1>1. /\ patrolTab' = [patrolTab EXCEPT ![i] = Ptz!FreePatrol] /\ patrolSeq' = patrolSeq /\ Ptz!Halt(i)
      /\ presetTab' = presetTab /\ presetSeq' = presetSeq /\ kept' = kept /\ gimbal' = gimbal
  BY DEF Ptz!RemovePatrol, Ptz!tabVars
<1>2. Ptz!FreePatrol \in TbPatrol /\ ~Ptz!FreePatrol.used
  BY DEF Ptz!FreePatrol, TbPatrol, Ptz!Spots
<1>3. /\ patrolTab' \in [PatrolSlot -> TbPatrol] /\ ~patrolTab'[i].used
      /\ \A j \in PatrolSlot : j # i => patrolTab'[j] = patrolTab[j]
  BY <1>1, <1>2, TbPatrolFacts
<1>4. \A j \in PatrolSlot : patrolTab'[j].used => patrolTab'[j].token \in 0 .. patrolSeq - 1
  BY <1>3, TbPatrolFacts
<1>5. Ptz!RunningIsListed'
  <2> SUFFICES ASSUME engine'.running
               PROVE  engine'.origin = activePatrol' /\ \E j \in PatrolSlot : patrolTab'[j].used /\ patrolTab'[j].token = activePatrol'
    BY DEF Ptz!RunningIsListed
  <2>1. engine' = engine /\ activePatrol' = activePatrol /\ activePatrol # patrolTab[i].token
    BY <1>1, TbHalts
  <2>2. PICK j \in PatrolSlot : patrolTab[j].used /\ patrolTab[j].token = activePatrol
    BY <2>1, TbPatrolFacts DEF Ptz!RunningIsListed
  <2>3. j # i
    BY <2>1, <2>2
  <2>4. engine.origin = activePatrol
    BY <2>1, TbPatrolFacts DEF Ptz!RunningIsListed
  <2> QED
    BY <1>3, <2>1, <2>2, <2>3, <2>4
<1>6. engine'.running => engine'.camera \in Camera /\ engine'.spots # {}
  BY <1>1, TbHalts, TbPatrolFacts
<1> QED
  BY <1>1, <1>3, <1>4, <1>5, <1>6, TbHalts, TbPatrolFacts, TbPatrolsOnly

LEMMA TbStep == ASSUME TbInv, Ptz!PtzNext PROVE TbInv'
BY TbSetsPreset, TbSetsNew, TbSetsAny, TbRemovesPreset, TbGoesTo, TbDrives, TbVisits, TbCreates, TbModifies, TbStarts, TbStartFails,
   TbStops, TbRemovesPatrol, Zenon DEF Ptz!PtzNext

-----------------------------------------------------------------------------
(* The table of chimes and the wizard. *)

GuSlots == [Guide!Slots -> [id : ChimeId \cup {"none"}, tone : {0, 1}]]
GuPairing == [state : {"idle", "pairing", "done"}, elapsed : BOOLEAN, added : 0 .. Capacity]
GuWizard == [state : {"pending", "progress", "complete"}, has : SUBSET Guide!Facts]

GuInv ==
  /\ chimes \in GuSlots /\ pairing \in GuPairing /\ wizard \in GuWizard
  /\ wizard.state = "pending" => wizard.has = {}
  /\ chimeCount = Cardinality(Guide!Taken)
  /\ \A i, j \in Guide!Slots : chimes[i].id = chimes[j].id => i = j \/ chimes[i].id = "none"

LEMMA GuConstants == Capacity \in Nat /\ "none" \notin ChimeId
BY BoxAssumption DEF Guide!SetupAssumption

LEMMA GuFirst == ASSUME NEW S \in SUBSET Guide!Slots, S # {} PROVE Guide!FirstSlot(S) \in S
<1>1. S \in SUBSET Nat
  BY GuConstants DEF Guide!Slots
<1> QED
  BY <1>1, Least DEF Guide!FirstSlot

LEMMA GuTaken == IsFiniteSet(Guide!Taken) /\ Guide!Taken \in SUBSET Guide!Slots
<1>1. IsFiniteSet(Guide!Slots) /\ Guide!Taken \in SUBSET Guide!Slots
  BY GuConstants, FS_Interval DEF Guide!Slots, Guide!Taken
<1> QED
  BY <1>1, FS_Subset

LEMMA GuInitInv == ASSUME Guide!SetupInit PROVE GuInv
<1>1. Guide!Taken = {}
  BY DEF Guide!SetupInit, Guide!Taken, Guide!Empty
<1>2. chimeCount = Cardinality(Guide!Taken)
  BY <1>1, FS_EmptySet DEF Guide!SetupInit
<1>3. chimes \in GuSlots /\ \A i \in Guide!Slots : chimes[i].id = "none"
  BY DEF Guide!SetupInit, GuSlots, Guide!Empty
<1>4. pairing \in GuPairing /\ wizard \in GuWizard /\ wizard.has = {}
  BY GuConstants DEF Guide!SetupInit, GuPairing, GuWizard
<1> QED
  BY <1>2, <1>3, <1>4 DEF GuInv

LEMMA GuPairs ==
  ASSUME GuInv, Guide!PairStart \/ Guide!PairStop \/ Guide!PairStatus \/ Guide!PairElapses
  PROVE  GuInv'
<1>1. chimes' = chimes /\ chimeCount' = chimeCount /\ wizard' = wizard
  BY DEF Guide!PairStart, Guide!PairStop, Guide!PairStatus, Guide!PairElapses
<1>2. Guide!Refresh \in GuPairing
  BY DEF GuInv, GuPairing, Guide!Refresh
<1>3. pairing' \in GuPairing
  <2>1. CASE Guide!PairStart
    BY <2>1, <1>2, GuConstants DEF Guide!PairStart, GuPairing
  <2>2. CASE Guide!PairStop \/ Guide!PairElapses
    BY <2>2 DEF GuInv, GuPairing, Guide!PairStop, Guide!PairElapses
  <2>3. CASE Guide!PairStatus
    BY <2>3, <1>2 DEF Guide!PairStatus
  <2> QED
    BY <2>1, <2>2, <2>3
<1> QED
  BY <1>1, <1>3 DEF GuInv, Guide!Taken

\* A tone that is changed disturbs nothing.
LEMMA GuTunes ==
  ASSUME GuInv, NEW i \in Guide!Slots, NEW tone \in {0, 1}, chimes' = [chimes EXCEPT ![i].tone = tone],
         chimeCount' = chimeCount, pairing' = pairing, wizard' = wizard
  PROVE  GuInv'
<1>1. chimes' \in GuSlots /\ \A j \in Guide!Slots : chimes'[j].id = chimes[j].id
  BY DEF GuInv, GuSlots
<1>2. Guide!Taken' = Guide!Taken
  BY <1>1 DEF Guide!Taken
<1> QED
  BY <1>1, <1>2 DEF GuInv

LEMMA GuHolds ==
  ASSUME GuInv, NEW id \in ChimeId, Guide!Holding(id) # {}
  PROVE  /\ Guide!FirstSlot(Guide!Holding(id)) \in Guide!Slots
         /\ chimes[Guide!FirstSlot(Guide!Holding(id))].id = id
<1>1. Guide!Holding(id) \in SUBSET Guide!Slots
  BY DEF Guide!Holding
<1>2. Guide!FirstSlot(Guide!Holding(id)) \in Guide!Holding(id)
  BY <1>1, GuFirst
<1> QED
  BY <1>2 DEF Guide!Holding

LEMMA GuOffers == ASSUME GuInv, NEW id \in ChimeId, NEW tone \in {0, 1}, Guide!Offer(id, tone) PROVE GuInv'
<1>0. wizard' = wizard
  BY DEF Guide!Offer
<1>1. CASE pairing' = Guide!Refresh /\ chimes' = chimes /\ chimeCount' = chimeCount
  <2>1. Guide!Refresh \in GuPairing
    BY DEF GuInv, GuPairing, Guide!Refresh
  <2> QED
    BY <1>0, <1>1, <2>1 DEF GuInv, Guide!Taken
<1>2. CASE /\ Guide!Holding(id) # {}
           /\ chimes' = [chimes EXCEPT ![Guide!FirstSlot(Guide!Holding(id))].tone = tone]
           /\ chimeCount' = chimeCount /\ pairing' = pairing
  BY <1>0, <1>2, GuHolds, GuTunes
<1>3. CASE /\ Guide!Holding(id) = {} /\ Guide!Taken # Guide!Slots
           /\ chimes' = [chimes EXCEPT ![Guide!FirstSlot(Guide!Slots \ Guide!Taken)] = [id |-> id, tone |-> tone]]
           /\ chimeCount' = chimeCount + 1
           /\ pairing' = [pairing EXCEPT !.added = IF @ < Capacity THEN @ + 1 ELSE @]
  <2>1. Guide!Slots \ Guide!Taken \in SUBSET Guide!Slots /\ Guide!Slots \ Guide!Taken # {}
    BY <1>3, GuTaken
  <2>2. PICK i \in Guide!Slots \ Guide!Taken : chimes' = [chimes EXCEPT ![i] = [id |-> id, tone |-> tone]]
    BY <1>3, <2>1, GuFirst
  <2>3. chimes' \in GuSlots /\ chimes'[i].id = id /\ \A j \in Guide!Slots : j # i => chimes'[j] = chimes[j]
    BY <2>2 DEF GuInv, GuSlots
  <2>4. \A j \in Guide!Slots : chimes[j].id # id
    BY <1>3 DEF Guide!Holding
  <2>5. \A j, k \in Guide!Slots : chimes'[j].id = chimes'[k].id => j = k \/ chimes'[j].id = "none"
    BY <2>3, <2>4 DEF GuInv
  <2>6. Guide!Taken' = Guide!Taken \cup {i} /\ i \notin Guide!Taken
    BY <2>2, <2>3, GuConstants DEF Guide!Taken
  <2>7. chimeCount' = Cardinality(Guide!Taken')
    BY <1>3, <2>6, GuTaken, FS_AddElement DEF GuInv
  <2>8. pairing' \in GuPairing
    BY <1>3, GuConstants DEF GuInv, GuPairing
  <2> QED
    BY <1>0, <2>3, <2>5, <2>7, <2>8 DEF GuInv
<1>4. CASE chimes' = chimes /\ chimeCount' = chimeCount /\ pairing' = pairing
  BY <1>0, <1>4 DEF GuInv, Guide!Taken
<1> QED
  BY <1>1, <1>2, <1>3, <1>4 DEF Guide!Offer

LEMMA GuSets == ASSUME GuInv, NEW id \in ChimeId, NEW tone \in {0, 1}, Guide!SetChime(id, tone) PROVE GuInv'
BY GuHolds, GuTunes DEF Guide!SetChime

LEMMA GuRemoves == ASSUME GuInv, NEW id \in ChimeId, Guide!RemoveChime(id) PROVE GuInv'
<1>1. PICK i \in Guide!Slots : chimes[i].id = id /\ chimes' = [chimes EXCEPT ![i] = Guide!Empty]
  BY GuHolds DEF Guide!RemoveChime
<1>2. chimeCount' = chimeCount - 1 /\ pairing' = pairing /\ wizard' = wizard
  BY DEF Guide!RemoveChime
<1>3. chimes' \in GuSlots /\ chimes'[i].id = "none" /\ \A j \in Guide!Slots : j # i => chimes'[j] = chimes[j]
  BY <1>1 DEF GuInv, GuSlots, Guide!Empty
<1>4. \A j, k \in Guide!Slots : chimes'[j].id = chimes'[k].id => j = k \/ chimes'[j].id = "none"
  BY <1>3 DEF GuInv
<1>5. Guide!Taken' = Guide!Taken \ {i} /\ i \in Guide!Taken
  BY <1>1, <1>3, GuConstants DEF Guide!Taken
<1>6. chimeCount' = Cardinality(Guide!Taken')
  BY <1>2, <1>5, GuTaken, FS_RemoveElement DEF GuInv
<1> QED
  BY <1>2, <1>3, <1>4, <1>6 DEF GuInv

LEMMA GuWizards ==
  ASSUME GuInv, (\E fact \in Guide!Facts : Guide!Does(fact)) \/ Guide!CompleteWizard \/ Guide!ResetWizard
  PROVE  GuInv'
<1>1. chimes' = chimes /\ chimeCount' = chimeCount /\ pairing' = pairing
  BY DEF Guide!Does, Guide!CompleteWizard, Guide!ResetWizard, Guide!chimeVars
<1>2. wizard' \in GuWizard /\ (wizard'.state = "pending" => wizard'.has = {})
  <2>1. ASSUME NEW fact \in Guide!Facts, Guide!Does(fact)
        PROVE  wizard' \in GuWizard /\ (wizard'.state = "pending" => wizard'.has = {})
    BY <2>1 DEF Guide!Does, Guide!Touched, GuInv, GuWizard
  <2>2. CASE Guide!CompleteWizard
    BY <2>2 DEF Guide!CompleteWizard, GuInv, GuWizard
  <2>3. CASE Guide!ResetWizard
    BY <2>3 DEF Guide!ResetWizard, GuWizard
  <2> QED
    BY <2>1, <2>2, <2>3
<1> QED
  BY <1>1, <1>2 DEF GuInv, Guide!Taken

LEMMA GuStep == ASSUME GuInv, Guide!SetupNext PROVE GuInv'
BY GuPairs, GuOffers, GuSets, GuRemoves, GuWizards, Zenon DEF Guide!SetupNext

LEMMA GuIsSafe == ASSUME GuInv PROVE Guide!SetupSafe
<1>1. \A S : Guide!Cardinality(S) = Cardinality(S)
  BY DEF Guide!Cardinality, Cardinality
<1>2. Guide!SetupTypeOK
  BY DEF GuInv, GuSlots, GuPairing, GuWizard, Guide!SetupTypeOK
<1>3. \A id \in ChimeId : Cardinality(Guide!Holding(id)) <= 1
  <2> SUFFICES ASSUME NEW id \in ChimeId PROVE Cardinality(Guide!Holding(id)) <= 1
    OBVIOUS
  <2>1. CASE Guide!Holding(id) = {}
    BY <2>1, FS_EmptySet
  <2>2. ASSUME NEW i \in Guide!Holding(id) PROVE Cardinality(Guide!Holding(id)) <= 1
    <3>1. Guide!Holding(id) = {i}
      BY <2>2, GuConstants DEF Guide!Holding, GuInv
    <3>2. Cardinality({i}) = 1
      BY FS_Singleton
    <3> QED
      BY <3>1, <3>2
  <2> QED
    BY <2>1, <2>2
<1> QED
  BY <1>1, <1>2, <1>3 DEF GuInv, Guide!SetupSafe, Guide!OneSlotPerChime

(***************************************************************************)
(* cap_ptz_patrol.c, svc_chime.c: whatever is set, removed and set again,  *)
(* a preset stands for the position its camera had, the patrol that is     *)
(* listed is the one that runs, and a chime has one slot, which is counted:*)
(* for any cameras, slots, tokens and chimes.                              *)
(***************************************************************************)
THEOREM TablesStandForWhatIsThere == BoxSpec => []TablesAgree
<1>1. BoxInit => TbInv /\ GuInv
  BY TbInitInv, GuInitInv, Zenon DEF BoxInit
<1>2. TbInv /\ GuInv /\ [BoxNext]_boxVars => TbInv' /\ GuInv'
  <2> SUFFICES ASSUME TbInv, GuInv, [BoxNext]_boxVars PROVE TbInv' /\ GuInv'
    OBVIOUS
  <2>1. ASSUME UNCHANGED ptzVars PROVE TbInv'
    <3>1. Ptz!PtzTypeOK'
      BY <2>1 DEF ptzVars, TbInv, TbTyped, Ptz!PtzTypeOK
    <3> QED
      BY <2>1, <3>1 DEF ptzVars, TbInv, TbTyped, TbNumbered, Ptz!PresetsKept, Ptz!RunningIsListed,
        Ptz!OnePresetPerToken
  <2>2. ASSUME UNCHANGED setupVars PROVE GuInv'
    BY <2>2 DEF setupVars, GuInv, Guide!Taken
  <2>3. CASE Ptz!PtzNext /\ UNCHANGED setupVars
    BY <2>2, <2>3, TbStep
  <2>4. CASE Guide!SetupNext /\ UNCHANGED ptzVars
    BY <2>1, <2>4, GuStep
  <2>5. CASE UNCHANGED ptzVars /\ UNCHANGED setupVars
    BY <2>1, <2>2, <2>5
  <2>6. \/ Ptz!PtzNext /\ UNCHANGED setupVars
        \/ Guide!SetupNext /\ UNCHANGED ptzVars
        \/ UNCHANGED ptzVars /\ UNCHANGED setupVars
    BY Zenon DEF BoxNext, boxVars
  <2> QED
    BY <2>3, <2>4, <2>5, <2>6
<1>3. TbInv /\ GuInv => TablesAgree
  <2>1. TbInv => Ptz!PtzSafe
    BY DEF TbInv, TbTyped, Ptz!PtzSafe
  <2> QED
    BY <2>1, GuIsSafe DEF TablesAgree
<1> QED
  BY <1>1, <1>2, <1>3, PTL DEF BoxSpec

-----------------------------------------------------------------------------
(***************************************************************************)
(* Storage.  Its theorem holds for any number of faults, so for the one of *)
(* this box, whose part of the disks it is.                                *)
(***************************************************************************)
Proved == INSTANCE Storage_proofs WITH MaxFaults <- 1, faults <- storageFaults

LEMMA StInit == Store!StorageInit => Proved!StorageInit
BY Zenon DEF Store!StorageInit, Proved!StorageInit, Store!Disk, Proved!Disk, Store!Formatted, Proved!Formatted,
  Store!NoSlots, Proved!NoSlots, Store!Absent, Proved!Absent, Store!Chunk, Proved!Chunk

LEMMA StNext == Store!StorageNext => Proved!StorageNext
BY Zenon DEF Store!StorageNext, Proved!StorageNext, Store!Scan, Proved!Scan, Store!Disk, Proved!Disk,
  Store!Identified, Proved!Identified, Store!Absent, Proved!Absent, Store!Opens, Proved!Opens, Store!Goto,
  Proved!Goto, Store!Assemble, Proved!Assemble, Store!Ours, Proved!Ours, Store!Placed, Proved!Placed,
  Store!Expect, Proved!Expect, Store!Tick, Proved!Tick, Store!Poll, Proved!Poll, Store!Health,
  Proved!Health, Store!Healthy, Proved!Healthy, Store!Fails, Proved!Fails, Store!Full, Proved!Full,
  Store!Format, Proved!Format, Store!Up, Proved!Up, Store!First, Proved!First, Store!Formatted,
  Proved!Formatted, Store!NoSlots, Proved!NoSlots, Store!Chunk, Proved!Chunk, Store!Stop, Proved!Stop,
  Store!Written, Proved!Written, Store!Finalized, Proved!Finalized, Store!Flushed, Proved!Flushed,
  Store!Closed, Proved!Closed, Store!Kill, Proved!Kill, Store!Start, Proved!Start, Store!Record,
  Proved!Record, Store!Refuses, Proved!Refuses, Store!Advanced, Proved!Advanced, Store!FlushedAfter,
  Proved!FlushedAfter, Store!RecordRefused, Proved!RecordRefused, Store!Unplug, Proved!Unplug,
  Store!TurnReadOnly, Proved!TurnReadOnly
LEMMA StSafe == Proved!StorageSafe => Store!StorageSafe
BY Zenon DEF Store!StorageSafe, Proved!StorageSafe, Store!StorageTypeOK, Proved!StorageTypeOK, Store!Disk,
  Proved!Disk, Store!Superblock, Proved!Superblock, Store!Generation, Proved!Generation, Store!Chunk,
  Proved!Chunk, Store!DiskInfo, Proved!DiskInfo, Store!KeysMatch, Proved!KeysMatch, Store!ReportedOnce,
  Proved!ReportedOnce, Store!ReadyOrDisplaced, Proved!ReadyOrDisplaced, Store!HeldKeys, Proved!HeldKeys,
  Store!NoSlots, Proved!NoSlots, Store!DownIdle, Proved!DownIdle, Store!Up, Proved!Up, Store!OursAlone,
  Proved!OursAlone

(***************************************************************************)
(* storage_mgr.c, storage_disk.c and the recorder on the group: every step *)
(* keeps the disks readable with the keys that are on them, tells a        *)
(* failure once, and shows as ready only what is or was to be recorded to: *)
(* for any number of disks, chunks and formats.                            *)
(***************************************************************************)
THEOREM DisksAreSafe == BoxSpec => []StorageSafe
<1>1. Proved!StorageAssumption
  BY BoxAssumption DEF Store!StorageAssumption, Proved!StorageAssumption
<1>2. Proved!StorageSpec => []Proved!StorageSafe
  BY <1>1, Proved!StorageIsSafe
<1>3. BoxInit => Proved!StorageInit
  BY StInit, Zenon DEF BoxInit
<1>4. [BoxNext]_boxVars => [Proved!StorageNext]_Proved!storageVars
  <2> SUFFICES ASSUME [BoxNext]_boxVars PROVE [Proved!StorageNext]_Proved!storageVars
    OBVIOUS
  <2>1. CASE UNCHANGED storageVars
    BY <2>1, Zenon DEF storageVars, Proved!storageVars
  <2>2. CASE Store!StorageNext
    BY <2>2, StNext, Zenon
  <2> QED
    BY <2>1, <2>2, Zenon DEF BoxNext, boxVars
<1>5. Proved!StorageSafe => StorageSafe
  BY StSafe, Zenon DEF StorageSafe
<1> QED
  BY <1>2, <1>3, <1>4, <1>5, PTL DEF BoxSpec, Proved!StorageSpec

-----------------------------------------------------------------------------
(***************************************************************************)
(* CameraLink.  A client that was greeted, that is, whose ACK_OK is what   *)
(* it reads first or has been read, is logged in and was answered once;    *)
(* its stream ends with a header only while its picture is being written   *)
(* or after it broke.  A client that a fan-out has not come to yet is one  *)
(* detection behind.                                                       *)
(***************************************************************************)
LkConn == [pc : {"none", "linked", "check", "read", "ok", "fail", "remove", "gone"}, logged : BOOLEAN, dead : BOOLEAN]
LkMsg == [kind : {"ok", "fail", "event", "head", "body", "torn"}, n : 0 .. MaxEvents]
LkClient == [pc : {"off", "login", "up", "refused", "over"}, got : Seq(0 .. MaxEvents)]

LkTyped ==
  /\ stopping \in {"no", "flag", "join", "drain", "shutdown", "wait", "freed"}
  /\ acceptor \in [pc : {"off", "check", "select", "create", "detach", "gone"}, conn : Client \cup {None}]
  /\ conn \in [Client -> LkConn] /\ client \in [Client -> LkClient] /\ down \in [Client -> Seq(LkMsg)]
  /\ up \in [Client -> {<<>>, <<"login">>, <<"wrong">>, <<"beat">>}]
  /\ shut \subseteq Client /\ left \subseteq Client
  /\ pub \in [Publisher -> Link!Event \cup {None}] /\ fanned \in Seq(Link!Event)
  /\ fan \in [by : Publisher \cup {None}, todo : SUBSET Client, body : Client \cup {None}]

LkStop ==
  /\ stopping \in {"join", "drain", "shutdown", "wait", "freed"} => acceptor.pc = "gone"
  /\ stopping \in {"shutdown", "wait", "freed"} => \A p \in Publisher : pub[p] = None
  /\ stopping = "freed" => Link!Linked = {}
  /\ acceptor.pc = "create" => acceptor.conn \in Client /\ conn[acceptor.conn].pc = "linked"

LkFan ==
  /\ fan.by = None => fan.todo = {} /\ fan.body = None
  /\ fan.by # None => pub[fan.by] # None /\ fanned # <<>> /\ fanned[Len(fanned)] = pub[fan.by]
  /\ fan.todo \subseteq Link!Linked
  /\ fan.body # None => fan.body \in fan.todo /\ Link!Writable(fan.body) /\ Len(down[fan.body]) <= Room

LkGreeted(w, d) == w.pc = "up" \/ (w.pc = "login" /\ d # <<>> /\ d[1].kind = "ok")
LkOne(b) == IF b THEN 1 ELSE 0

LkSession(v, u, w, d) ==
  /\ w.pc = "off" => v.pc = "none" /\ u = <<>>
  /\ v.pc \in {"none", "linked", "fail"} => ~v.logged
  /\ v.pc = "ok" => v.logged
  /\ u \in {<<"login">>, <<"wrong">>} => ~v.logged /\ v.pc # "fail"
  /\ ~v.logged => /\ w.got = <<>>
                  /\ d = <<>> \/ (v.pc \in {"remove", "gone"} /\ Len(d) = 1 /\ d[1].kind \in {"fail", "torn"})
  /\ LkGreeted(w, d) => v.logged /\ v.pc # "ok"
  /\ Len(d) <= Room + 1 + LkOne(v.pc # "ok") + LkOne(v.dead)

\* A stream of whole messages; b is the detection whose picture is being written to it, if there is one.
LkWhole(v, d, b) ==
  /\ \A i \in 1 .. Len(d) - 1 :
       /\ d[i].kind # "torn"
       /\ d[i].kind = "head" => d[i + 1].kind \in {"body", "torn"} /\ d[i + 1].n = d[i].n
  /\ d # <<>> => /\ d[Len(d)].kind = "torn" => v.dead
                 /\ d[Len(d)].kind = "head" => v.dead \/ d[Len(d)].n = b

\* On f, the detections in the order of the fan-outs, what was received (g) and is under way (d) follows place k.
LkFollows(f, k, g, d) ==
  /\ \A i \in DOMAIN g : g[i] = f[k + i]
  /\ \A i \in Link!Starts(d) : d[i].n = f[k + Len(g) + Link!UpTo(d, i)]
LkSent(g, d) == Len(g) + Cardinality(Link!Starts(d))

\* A connection that fan-outs write to; z is 1 when the present one has yet to come to it.
LkOpen(v) == v.logged /\ ~v.dead /\ v.pc \notin {"none", "gone"}
LkRun(v, g, d, f, z) ==
  LkSent(g, d) > 0 =>
    \E k \in 0 .. Len(f) - LkSent(g, d) :
      LkFollows(f, k, g, d) /\ (LkOpen(v) => k + LkSent(g, d) = Len(f) - z)

LkGood(v, u, w, d, f, b, z) ==
  /\ LkSession(v, u, w, d)
  /\ LkGreeted(w, d) => LkWhole(v, d, b)
  /\ LkRun(v, w.got, d, f, z)

LkBody(c) == IF fan.body = c THEN pub[fan.by] ELSE None
LkBehind(c) == LkOne(c \in fan.todo /\ fan.body # c)
LkAt(c) == LkGood(conn[c], up[c], client[c], down[c], fanned, LkBody(c), LkBehind(c))

LkInv == LkTyped /\ LkStop /\ LkFan /\ \A c \in Client : LkAt(c)

LEMMA LkConstants ==
  /\ MaxEvents \in Nat /\ Room \in Nat \ {0} /\ IsFiniteSet(Publisher)
  /\ None \notin Client /\ None \notin Publisher /\ None \notin 0 .. MaxEvents
<1>1. \A S : Link!IsFiniteSet(S) <=> IsFiniteSet(S)
  BY DEF Link!IsFiniteSet, IsFiniteSet
<1> QED
  BY <1>1, BoxAssumption DEF Link!LinkAssumption

LEMMA LkCounts == \A S : Link!Cardinality(S) = Cardinality(S)
BY DEF Link!Cardinality, Cardinality

\* Where detections start in a stream.
LEMMA LkStarts ==
  ASSUME NEW d \in Seq(LkMsg)
  PROVE  /\ Link!Starts(d) \in SUBSET (1 .. Len(d)) /\ IsFiniteSet(Link!Starts(d))
         /\ Cardinality(Link!Starts(d)) \in Nat
         /\ \A i \in 1 .. Len(d) : i \in Link!Starts(d) <=> d[i].kind \in {"event", "head"}
         /\ \A i \in Nat : /\ IsFiniteSet({j \in Link!Starts(d) : j <= i})
                           /\ Link!UpTo(d, i) = Cardinality({j \in Link!Starts(d) : j <= i})
                           /\ Link!UpTo(d, i) \in Nat
<1>1. Len(d) \in Nat /\ DOMAIN d = 1 .. Len(d)
  OBVIOUS
<1>2. /\ Link!Starts(d) \in SUBSET (1 .. Len(d))
      /\ \A i \in 1 .. Len(d) : i \in Link!Starts(d) <=> d[i].kind \in {"event", "head"}
  BY <1>1 DEF Link!Starts
<1>3. IsFiniteSet(1 .. Len(d))
  BY <1>1, FS_Interval
<1>4. IsFiniteSet(Link!Starts(d)) /\ Cardinality(Link!Starts(d)) \in Nat
  BY <1>2, <1>3, FS_Subset, FS_CardinalityType
<1>5. ASSUME NEW i \in Nat
      PROVE  /\ IsFiniteSet({j \in Link!Starts(d) : j <= i})
             /\ Link!UpTo(d, i) = Cardinality({j \in Link!Starts(d) : j <= i})
             /\ Link!UpTo(d, i) \in Nat
  <2>1. IsFiniteSet({j \in Link!Starts(d) : j <= i}) /\ Cardinality({j \in Link!Starts(d) : j <= i}) \in Nat
    <3>1. {j \in Link!Starts(d) : j <= i} \in SUBSET Link!Starts(d)
      OBVIOUS
    <3> QED
      BY <1>4, <3>1, FS_Subset, FS_CardinalityType
  <2> QED
    BY <2>1, LkCounts DEF Link!UpTo
<1> QED
  BY <1>2, <1>4, <1>5

\* A message more.
LEMMA LkAppend ==
  ASSUME NEW d \in Seq(LkMsg), NEW m \in LkMsg, NEW e, e = Append(d, m)
  PROVE  /\ e \in Seq(LkMsg) /\ Len(e) = Len(d) + 1 /\ e[Len(d) + 1] = m /\ Len(d) \in Nat
         /\ \A i \in 1 .. Len(d) : e[i] = d[i]
OBVIOUS

LEMMA LkMoreStarts ==
  ASSUME NEW d \in Seq(LkMsg), NEW m \in LkMsg, NEW e, e = Append(d, m)
  PROVE  Link!Starts(e) = IF m.kind \in {"event", "head"} THEN Link!Starts(d) \cup {Len(d) + 1} ELSE Link!Starts(d)
<1>1. /\ e \in Seq(LkMsg) /\ Len(e) = Len(d) + 1 /\ e[Len(d) + 1] = m /\ Len(d) \in Nat
      /\ \A i \in 1 .. Len(d) : e[i] = d[i]
  OBVIOUS
<1>2. /\ Link!Starts(d) \subseteq 1 .. Len(d)
      /\ \A i \in 1 .. Len(d) : i \in Link!Starts(d) <=> d[i].kind \in {"event", "head"}
  BY LkStarts
<1>3. /\ Link!Starts(e) \subseteq 1 .. Len(d) + 1
      /\ \A i \in 1 .. Len(d) + 1 : i \in Link!Starts(e) <=> e[i].kind \in {"event", "head"}
  BY <1>1, LkStarts
<1>4. \A i \in 1 .. Len(d) : i \in Link!Starts(e) <=> i \in Link!Starts(d)
  BY <1>1, <1>2, <1>3
<1>5. Len(d) + 1 \in Link!Starts(e) <=> m.kind \in {"event", "head"}
  BY <1>1, <1>3
<1>6. \A i \in 1 .. Len(d) + 1 : i \in 1 .. Len(d) \/ i = Len(d) + 1
  BY <1>1
<1> QED
  BY <1>1, <1>2, <1>3, <1>4, <1>5, <1>6

LEMMA LkMoreUpTo ==
  ASSUME NEW d \in Seq(LkMsg), NEW m \in LkMsg, NEW e, e = Append(d, m)
  PROVE  \A i \in 1 .. Len(d) : Link!UpTo(e, i) = Link!UpTo(d, i)
<1> SUFFICES ASSUME NEW i \in 1 .. Len(d) PROVE Link!UpTo(e, i) = Link!UpTo(d, i)
  OBVIOUS
<1>1. {j \in Link!Starts(e) : j <= i} = {j \in Link!Starts(d) : j <= i}
  <2>1. Len(d) \in Nat
    OBVIOUS
  <2>2. Link!Starts(e) = IF m.kind \in {"event", "head"} THEN Link!Starts(d) \cup {Len(d) + 1} ELSE Link!Starts(d)
    BY LkMoreStarts, Zenon
  <2>3. Link!Starts(e) = Link!Starts(d) \cup {Len(d) + 1} \/ Link!Starts(e) = Link!Starts(d)
    BY <2>2, Zenon
  <2> QED
    BY <2>1, <2>3
<1> QED
  BY <1>1 DEF Link!UpTo

LEMMA LkMoreCounts ==
  ASSUME NEW d \in Seq(LkMsg), NEW m \in LkMsg, NEW e, e = Append(d, m), m.kind \in {"event", "head"}
  PROVE  /\ Cardinality(Link!Starts(e)) = Cardinality(Link!Starts(d)) + 1
         /\ Link!UpTo(e, Len(d) + 1) = Cardinality(Link!Starts(d)) + 1
<1>1. e \in Seq(LkMsg) /\ Len(e) = Len(d) + 1 /\ Len(d) \in Nat
  OBVIOUS
<1>2. Link!Starts(e) = Link!Starts(d) \cup {Len(d) + 1}
  BY LkMoreStarts
<1>3. Len(d) + 1 \notin Link!Starts(d) /\ IsFiniteSet(Link!Starts(d))
  BY <1>1, LkStarts
<1>4. Cardinality(Link!Starts(e)) = Cardinality(Link!Starts(d)) + 1
  BY <1>2, <1>3, FS_AddElement
<1>5. Link!Starts(e) \in SUBSET (1 .. Len(d) + 1)
  BY <1>1, LkStarts
<1>6. {j \in Link!Starts(e) : j <= Len(d) + 1} = Link!Starts(e)
  BY <1>1, <1>5
<1>7. Link!UpTo(e, Len(d) + 1) = Cardinality({j \in Link!Starts(e) : j <= Len(d) + 1})
  BY LkCounts DEF Link!UpTo
<1> QED
  BY <1>4, <1>6, <1>7

\* A message less.
LEMMA LkLess ==
  ASSUME NEW d \in Seq(LkMsg), d # <<>>, NEW e, e = Tail(d), NEW x, x = LkOne(d[1].kind \in {"event", "head"})
  PROVE  /\ e \in Seq(LkMsg) /\ Len(e) = Len(d) - 1 /\ Len(e) \in Nat /\ d[1] \in LkMsg
         /\ \A i \in 1 .. Len(e) : e[i] = d[i + 1] /\ (i \in Link!Starts(e) <=> i + 1 \in Link!Starts(d))
         /\ Cardinality(Link!Starts(e)) = Cardinality(Link!Starts(d)) - x
         /\ \A i \in 1 .. Len(e) : Link!UpTo(e, i) = Link!UpTo(d, i + 1) - x
         /\ x = 1 => Link!UpTo(d, 1) = 1
<1>1. /\ e \in Seq(LkMsg) /\ Len(e) = Len(d) - 1 /\ Len(e) \in Nat /\ d[1] \in LkMsg /\ Len(d) \in Nat \ {0}
      /\ \A i \in 1 .. Len(e) : e[i] = d[i + 1]
  OBVIOUS
<1>2. \A i \in 1 .. Len(e) : i \in Link!Starts(e) <=> i + 1 \in Link!Starts(d)
  <2>1. \A i \in 1 .. Len(d) : i \in Link!Starts(d) <=> d[i].kind \in {"event", "head"}
    BY LkStarts
  <2>2. \A i \in 1 .. Len(e) : i \in Link!Starts(e) <=> e[i].kind \in {"event", "head"}
    BY <1>1, LkStarts
  <2> QED
    BY <1>1, <2>1, <2>2
<1>3. Link!Starts(e) \in SUBSET (1 .. Len(e)) /\ Link!Starts(d) \in SUBSET (1 .. Len(d))
  BY <1>1, LkStarts
<1>4. ASSUME NEW i \in 1 .. Len(d)
      PROVE  Cardinality({j \in Link!Starts(e) : j <= i - 1}) = Cardinality({j \in Link!Starts(d) : j <= i}) - x
  <2> DEFINE S == {j \in Link!Starts(e) : j <= i - 1}
             T == {j \in Link!Starts(d) : j <= i}
             U == T \ {1}
             h == [j \in S |-> j + 1]
  <2>1. IsFiniteSet(S) /\ IsFiniteSet(T)
    <3>1. i \in Nat /\ i - 1 \in Nat
      BY <1>1
    <3> QED
      BY <1>1, <3>1, LkStarts
  <2>2. IsFiniteSet(U) /\ Cardinality(U) = IF 1 \in T THEN Cardinality(T) - 1 ELSE Cardinality(T)
    BY <2>1, FS_RemoveElement
  <2>3. 1 \in T <=> d[1].kind \in {"event", "head"}
    BY <1>1, LkStarts
  <2>4. \A j \in S : j \in Int /\ j + 1 \in U
    BY <1>1, <1>2, <1>3
  <2>5. \A j \in U : j - 1 \in S /\ j \in Int
    <3> SUFFICES ASSUME NEW j \in U PROVE j - 1 \in S /\ j \in Int
      OBVIOUS
    <3>1. j \in 1 .. Len(d) /\ j # 1 /\ j <= i /\ j \in Link!Starts(d)
      BY <1>3
    <3>2. j - 1 \in 1 .. Len(e) /\ (j - 1) + 1 = j
      BY <1>1, <3>1
    <3>3. j - 1 \in Link!Starts(e)
      BY <1>2, <3>1, <3>2
    <3> QED
      BY <3>1, <3>2, <3>3
  <2> HIDE DEF S, T, U
  <2>6. ExistsBijection(S, U)
    <3>1. h \in [S -> U] /\ DOMAIN h = S
      BY <2>4
    <3>2. \A y, z \in S : h[y] = h[z] => y = z
      BY <2>4
    <3>3. \A y \in U : \E z \in S : h[z] = y
      BY <2>5, <2>4
    <3>4. h \in Bijection(S, U)
      BY <3>1, <3>2, <3>3, Zenon DEF Bijection, Injection, Surjection, IsInjective
    <3> QED
      BY <3>4 DEF ExistsBijection
  <2>7. Cardinality(U) = Cardinality(S)
    BY <2>1, <2>6, FS_Bijection
  <2>8. Cardinality(T) \in Nat
    BY <2>1, FS_CardinalityType
  <2> QED
    BY <2>2, <2>3, <2>7, <2>8 DEF LkOne, S, T
<1>5. Cardinality(Link!Starts(e)) = Cardinality(Link!Starts(d)) - x
  <2>1. {j \in Link!Starts(e) : j <= Len(d) - 1} = Link!Starts(e) /\ {j \in Link!Starts(d) : j <= Len(d)} = Link!Starts(d)
    BY <1>1, <1>3
  <2>2. Len(d) \in 1 .. Len(d)
    BY <1>1
  <2> QED
    BY <1>4, <2>1, <2>2
<1>6. ASSUME NEW i \in 1 .. Len(e)
      PROVE  Link!UpTo(e, i) = Link!UpTo(d, i + 1) - x
  <2>1. i + 1 \in 1 .. Len(d) /\ (i + 1) - 1 = i /\ i \in Nat /\ i + 1 \in Nat
    BY <1>1
  <2>2. Cardinality({j \in Link!Starts(e) : j <= i}) = Cardinality({j \in Link!Starts(d) : j <= i + 1}) - x
    BY <1>4, <2>1
  <2>3. Link!UpTo(e, i) = Cardinality({j \in Link!Starts(e) : j <= i})
    BY <1>1, <2>1, LkStarts
  <2>4. Link!UpTo(d, i + 1) = Cardinality({j \in Link!Starts(d) : j <= i + 1})
    BY <2>1, LkStarts
  <2> QED
    BY <2>2, <2>3, <2>4
<1>7. x = 1 => Link!UpTo(d, 1) = 1
  <2> SUFFICES ASSUME x = 1 PROVE Link!UpTo(d, 1) = 1
    OBVIOUS
  <2>1. 1 \in Link!Starts(d)
    BY <1>1, LkStarts DEF LkOne
  <2>2. {j \in Link!Starts(d) : j <= 1} = {1}
    BY <1>3, <2>1
  <2>3. Link!UpTo(d, 1) = Cardinality({j \in Link!Starts(d) : j <= 1})
    BY LkCounts DEF Link!UpTo
  <2>4. Cardinality({1}) = 1
    BY FS_Singleton
  <2> QED
    BY <2>2, <2>3, <2>4
<1> QED
  BY <1>1, <1>2, <1>5, <1>6, <1>7

-----------------------------------------------------------------------------
(* What was sent to a client and is under way, when a message comes or goes. *)

LEMMA LkSentNat ==
  ASSUME NEW g \in Seq(0 .. MaxEvents), NEW d \in Seq(LkMsg)
  PROVE  LkSent(g, d) \in Nat /\ Len(g) \in Nat /\ Cardinality(Link!Starts(d)) \in Nat
BY LkStarts DEF LkSent

LEMMA LkSum == \A k, a, b \in Nat : k + a + (b + 1) = k + ((a + b) + 1)
OBVIOUS

LEMMA LkGot ==
  \A g \in Seq(0 .. MaxEvents), m \in 0 .. MaxEvents :
    /\ Append(g, m) \in Seq(0 .. MaxEvents) /\ Len(Append(g, m)) = Len(g) + 1
    /\ DOMAIN Append(g, m) = 1 .. Len(g) + 1
    /\ \A i \in 1 .. Len(g) : Append(g, m)[i] = g[i]
    /\ Append(g, m)[Len(g) + 1] = m
OBVIOUS

LEMMA LkRunMore ==
  ASSUME NEW v, NEW x, NEW g \in Seq(0 .. MaxEvents), NEW d \in Seq(LkMsg), NEW f \in Seq(Link!Event), NEW z,
         NEW m \in LkMsg, m.kind \notin {"event", "head"}, LkRun(v, g, d, f, z), LkOpen(x) => LkOpen(v)
  PROVE  LkRun(x, g, Append(d, m), f, z)
<1> DEFINE e == Append(d, m)
<1>0. e = Append(d, m)
  OBVIOUS
<1> HIDE DEF e
<1>1. /\ Link!Starts(e) = Link!Starts(d) /\ Len(d) \in Nat
      /\ \A i \in 1 .. Len(d) : e[i] = d[i] /\ Link!UpTo(e, i) = Link!UpTo(d, i)
  <2>1. Link!Starts(e) = Link!Starts(d)
    BY <1>0, LkMoreStarts
  <2>2. Len(d) \in Nat /\ \A i \in 1 .. Len(d) : e[i] = d[i]
    BY <1>0
  <2>3. \A i \in 1 .. Len(d) : Link!UpTo(e, i) = Link!UpTo(d, i)
    BY <1>0, LkMoreUpTo
  <2> QED
    BY <2>1, <2>2, <2>3
<1>2. Link!Starts(d) \in SUBSET (1 .. Len(d))
  BY LkStarts
<1>3. LkSent(g, e) = LkSent(g, d)
  BY <1>1 DEF LkSent
<1>4. \A k : LkFollows(f, k, g, d) => LkFollows(f, k, g, e)
  BY <1>1, <1>2 DEF LkFollows
<1> QED
  BY <1>3, <1>4 DEF LkRun, e

\* The fan-out that is at its turn writes its detection.
LEMMA LkRunNext ==
  ASSUME NEW v, LkOpen(v), NEW g \in Seq(0 .. MaxEvents), NEW d \in Seq(LkMsg), NEW f \in Seq(Link!Event), f # <<>>,
         NEW m \in LkMsg, m.kind \in {"event", "head"}, m.n = f[Len(f)], LkRun(v, g, d, f, 1)
  PROVE  LkRun(v, g, Append(d, m), f, 0)
<1> DEFINE e == Append(d, m)
           n == LkSent(g, d)
<1>0. e = Append(d, m)
  OBVIOUS
<1> HIDE DEF e
<1>1. /\ Link!Starts(e) = Link!Starts(d) \cup {Len(d) + 1} /\ Len(d) \in Nat
      /\ \A i \in 1 .. Len(d) : e[i] = d[i] /\ Link!UpTo(e, i) = Link!UpTo(d, i)
      /\ e[Len(d) + 1] = m /\ Link!UpTo(e, Len(d) + 1) = Cardinality(Link!Starts(d)) + 1
      /\ Cardinality(Link!Starts(e)) = Cardinality(Link!Starts(d)) + 1
  <2>1. Link!Starts(e) = Link!Starts(d) \cup {Len(d) + 1}
    BY <1>0, LkMoreStarts
  <2>2. Len(d) \in Nat /\ e[Len(d) + 1] = m /\ \A i \in 1 .. Len(d) : e[i] = d[i]
    BY <1>0
  <2>3. \A i \in 1 .. Len(d) : Link!UpTo(e, i) = Link!UpTo(d, i)
    BY <1>0, LkMoreUpTo
  <2>4. /\ Link!UpTo(e, Len(d) + 1) = Cardinality(Link!Starts(d)) + 1
        /\ Cardinality(Link!Starts(e)) = Cardinality(Link!Starts(d)) + 1
    BY <1>0, LkMoreCounts
  <2> QED
    BY <2>1, <2>2, <2>3, <2>4
<1>2. Link!Starts(d) \in SUBSET (1 .. Len(d)) /\ n \in Nat /\ Len(g) \in Nat
      /\ Cardinality(Link!Starts(d)) \in Nat /\ n = Len(g) + Cardinality(Link!Starts(d))
  BY LkStarts, LkSentNat DEF LkSent
<1>3. Len(f) \in Nat \ {0}
  OBVIOUS
<1> HIDE DEF n
<1>4. LkSent(g, e) = n + 1
  BY <1>1, <1>2 DEF LkSent
<1>5. \E k \in 0 .. Len(f) - (n + 1) : k + (n + 1) = Len(f) /\ LkFollows(f, k, g, d)
  <2>1. CASE n = 0
    <3>1. Len(g) = 0 /\ Cardinality(Link!Starts(d)) = 0
      BY <1>2, <2>1
    <3>2. Link!Starts(d) = {} /\ DOMAIN g = {}
      <4>1. IsFiniteSet(Link!Starts(d))
        BY LkStarts
      <4> QED
        BY <3>1, <4>1, FS_EmptySet
    <3>3. LkFollows(f, Len(f) - 1, g, d)
      BY <3>2 DEF LkFollows
    <3> QED
      BY <1>3, <2>1, <3>3
  <2>2. CASE n > 0
    <3>1. PICK k \in 0 .. Len(f) - n : LkFollows(f, k, g, d) /\ k + n = Len(f) - 1
      BY <2>2 DEF LkRun, n
    <3>2. k \in Nat /\ n \in Nat /\ Len(f) \in Nat /\ k + n = Len(f) - 1
      BY <1>2, <1>3, <3>1
    <3> HIDE DEF n
    <3>3. k \in 0 .. Len(f) - (n + 1) /\ k + (n + 1) = Len(f)
      BY <3>2
    <3> QED
      BY <3>1, <3>3
  <2> QED
    BY <1>2, <2>1, <2>2
<1>6. PICK k \in 0 .. Len(f) - (n + 1) : k + (n + 1) = Len(f) /\ LkFollows(f, k, g, d)
  BY <1>5
<1>7. LkFollows(f, k, g, e)
  <2>1. \A i \in DOMAIN g : g[i] = f[k + i]
    BY <1>6 DEF LkFollows
  <2>2. ASSUME NEW i \in Link!Starts(e) PROVE e[i].n = f[k + Len(g) + Link!UpTo(e, i)]
    <3>1. CASE i \in Link!Starts(d)
      <4>1. i \in 1 .. Len(d) /\ d[i].n = f[k + Len(g) + Link!UpTo(d, i)]
        BY <1>2, <1>6, <3>1 DEF LkFollows
      <4> QED
        BY <1>1, <4>1
    <3>2. CASE i = Len(d) + 1
      <4>0. Link!UpTo(e, i) = Cardinality(Link!Starts(d)) + 1
        BY <1>1, <3>2
      <4>1. k + Len(g) + Link!UpTo(e, i) = Len(f)
        <5>1. k \in Nat /\ Len(f) \in Nat /\ k + (n + 1) = Len(f)
          BY <1>2, <1>3, <1>6
        <5>2. Len(g) \in Nat /\ Cardinality(Link!Starts(d)) \in Nat /\ n = Len(g) + Cardinality(Link!Starts(d))
          BY <1>2
        <5>3. n \in Nat /\ Link!UpTo(e, i) = Cardinality(Link!Starts(d)) + 1
          BY <1>2, <4>0
        <5> HIDE DEF n, e
        <5>4. k + Len(g) + (Cardinality(Link!Starts(d)) + 1) = k + ((Len(g) + Cardinality(Link!Starts(d))) + 1)
          BY <5>1, <5>2, LkSum, Zenon
        <5> QED
          BY <5>1, <5>2, <5>3, <5>4, Zenon
      <4> QED
        BY <1>1, <3>2, <4>1
    <3> QED
      BY <1>1, <3>1, <3>2
  <2> QED
    BY <2>1, <2>2 DEF LkFollows
<1>8. LkRun(v, g, e, f, 0)
  BY <1>2, <1>3, <1>4, <1>6, <1>7 DEF LkRun
<1> QED
  BY <1>8 DEF e

\* A message is read: a detection goes over to what was received.
LEMMA LkRunLess ==
  ASSUME NEW v, NEW g \in Seq(0 .. MaxEvents), NEW d \in Seq(LkMsg), d # <<>>, NEW f \in Seq(Link!Event), NEW z,
         NEW h, h = (IF d[1].kind \in {"event", "head"} THEN Append(g, d[1].n) ELSE g), LkRun(v, g, d, f, z)
  PROVE  LkRun(v, h, Tail(d), f, z) /\ h \in Seq(0 .. MaxEvents)
<1> DEFINE e == Tail(d)
           x == LkOne(d[1].kind \in {"event", "head"})
           n == LkSent(g, d)
<1>1. /\ e \in Seq(LkMsg) /\ Len(e) = Len(d) - 1 /\ Len(e) \in Nat /\ d[1] \in LkMsg
      /\ \A i \in 1 .. Len(e) : e[i] = d[i + 1] /\ (i \in Link!Starts(e) <=> i + 1 \in Link!Starts(d))
      /\ Cardinality(Link!Starts(e)) = Cardinality(Link!Starts(d)) - x
      /\ \A i \in 1 .. Len(e) : Link!UpTo(e, i) = Link!UpTo(d, i + 1) - x
      /\ x = 1 => Link!UpTo(d, 1) = 1
  BY LkLess
<1>2. /\ n \in Nat /\ Len(g) \in Nat /\ Cardinality(Link!Starts(d)) \in Nat
      /\ n = Len(g) + Cardinality(Link!Starts(d)) /\ Link!Starts(d) \in SUBSET (1 .. Len(d))
      /\ \A i \in Nat : Link!UpTo(d, i) \in Nat
      /\ 1 \in Link!Starts(d) <=> d[1].kind \in {"event", "head"}
  <2>1. 1 \in 1 .. Len(d)
    OBVIOUS
  <2> QED
    BY <2>1, LkStarts, LkSentNat DEF LkSent
<1>3. Link!Starts(e) \in SUBSET (1 .. Len(e))
  BY <1>1, LkStarts
<1>4. x \in {0, 1} /\ (x = 1 <=> d[1].kind \in {"event", "head"})
  BY DEF LkOne
<1> HIDE DEF e, x, n
<1>5. /\ h \in Seq(0 .. MaxEvents) /\ Len(h) = Len(g) + x /\ DOMAIN h = 1 .. Len(h) /\ DOMAIN g = 1 .. Len(g)
      /\ \A i \in 1 .. Len(g) : h[i] = g[i]
      /\ x = 1 => h[Len(g) + 1] = d[1].n
  <2>1. d[1].n \in 0 .. MaxEvents
    BY <1>1 DEF LkMsg
  <2>2. Len(g) \in Nat /\ DOMAIN g = 1 .. Len(g)
    OBVIOUS
  <2>3. CASE x = 0
    <3>1. h = g /\ x # 1
      BY <1>4, <2>3
    <3>2. Len(g) + 0 = Len(g) /\ g \in Seq(0 .. MaxEvents)
      BY <2>2
    <3> QED
      BY <2>2, <2>3, <3>1, <3>2, Zenon
  <2>4. CASE x = 1
    <3>1. PICK y \in 0 .. MaxEvents : y = d[1].n
      BY <2>1
    <3>2. h = Append(g, y)
      BY <1>4, <2>4, <3>1
    <3>3. /\ h \in Seq(0 .. MaxEvents) /\ Len(h) = Len(g) + 1 /\ DOMAIN h = 1 .. Len(g) + 1
          /\ \A i \in 1 .. Len(g) : h[i] = g[i]
          /\ h[Len(g) + 1] = y
      <4>1. g \in Seq(0 .. MaxEvents) /\ y \in 0 .. MaxEvents
        OBVIOUS
      <4>2. /\ Append(g, y) \in Seq(0 .. MaxEvents) /\ Len(Append(g, y)) = Len(g) + 1
            /\ DOMAIN Append(g, y) = 1 .. Len(g) + 1
            /\ \A i \in 1 .. Len(g) : Append(g, y)[i] = g[i]
            /\ Append(g, y)[Len(g) + 1] = y
        BY <4>1, LkGot, ZenonT(30)
      <4> QED
        BY <3>2, <4>2, ZenonT(30)
    <3> QED
      BY <2>2, <2>4, <3>1, <3>3, Zenon
  <2> QED
    BY <1>4, <2>3, <2>4
<1>6. LkSent(h, e) = n
  BY <1>1, <1>2, <1>4, <1>5 DEF LkSent
<1>7. ASSUME NEW k \in Nat, LkFollows(f, k, g, d)
      PROVE  LkFollows(f, k, h, e)
  <2>1. /\ \A i \in 1 .. Len(g) : g[i] = f[k + i]
        /\ \A i \in Link!Starts(d) : d[i].n = f[k + Len(g) + Link!UpTo(d, i)]
    BY <1>5, <1>7 DEF LkFollows
  <2>2. ASSUME NEW i \in 1 .. Len(h) PROVE h[i] = f[k + i]
    <3>1. CASE i \in 1 .. Len(g)
      BY <1>5, <2>1, <3>1
    <3>2. CASE x = 1 /\ i = Len(g) + 1
      <4>1. d[1].n = f[k + Len(g) + 1]
        BY <1>1, <1>2, <1>4, <2>1, <3>2
      <4>2. k + Len(g) + 1 = k + i
        BY <1>2, <3>2
      <4> QED
        BY <1>5, <3>2, <4>1, <4>2
    <3>3. i \in 1 .. Len(g) \/ (x = 1 /\ i = Len(g) + 1)
      <4>1. Len(h) = Len(g) + x /\ x \in {0, 1} /\ Len(g) \in Nat
        BY <1>2, <1>4, <1>5
      <4> QED
        BY <4>1
    <3> QED
      BY <3>1, <3>2, <3>3
  <2>3. ASSUME NEW i \in Link!Starts(e) PROVE e[i].n = f[k + Len(h) + Link!UpTo(e, i)]
    <3>1. i \in 1 .. Len(e) /\ i + 1 \in Link!Starts(d) /\ e[i] = d[i + 1]
      BY <1>1, <1>3
    <3>2. d[i + 1].n = f[k + Len(g) + Link!UpTo(d, i + 1)]
      BY <2>1, <3>1
    <3>3. Link!UpTo(e, i) = Link!UpTo(d, i + 1) - x /\ Link!UpTo(d, i + 1) \in Nat
      BY <1>1, <1>2, <3>1
    <3>4. Len(h) = Len(g) + x /\ x \in {0, 1} /\ Len(g) \in Nat
      BY <1>2, <1>4, <1>5
    <3>5. k + Len(h) + Link!UpTo(e, i) = k + Len(g) + Link!UpTo(d, i + 1)
      BY <3>3, <3>4
    <3> QED
      BY <3>1, <3>2, <3>5
  <2> QED
    BY <1>5, <2>2, <2>3 DEF LkFollows
<1>8. ASSUME LkSent(h, e) > 0
      PROVE  \E k \in 0 .. Len(f) - LkSent(h, e) :
               LkFollows(f, k, h, e) /\ (LkOpen(v) => k + LkSent(h, e) = Len(f) - z)
  <2>1. PICK k \in 0 .. Len(f) - n : LkFollows(f, k, g, d) /\ (LkOpen(v) => k + n = Len(f) - z)
    BY <1>6, <1>8 DEF LkRun, n
  <2>2. k \in Nat
    BY <1>2
  <2> QED
    BY <1>6, <1>7, <2>1, <2>2
<1>9. LkRun(v, h, e, f, z)
  BY <1>8, Zenon DEF LkRun
<1> QED
  BY <1>5, <1>9 DEF e

\* A detection takes the lock of the list.
LEMMA LkRunGrows ==
  ASSUME NEW v, NEW g \in Seq(0 .. MaxEvents), NEW d \in Seq(LkMsg), NEW f \in Seq(Link!Event), NEW e \in Link!Event,
         NEW z, LkOpen(v) => z = 1, LkRun(v, g, d, f, 0)
  PROVE  LkRun(v, g, d, Append(f, e), z)
<1> DEFINE a == Append(f, e)
           n == LkSent(g, d)
<1>1. Len(f) \in Nat /\ Len(a) = Len(f) + 1 /\ \A i \in 1 .. Len(f) : a[i] = f[i]
  OBVIOUS
<1>2. /\ n \in Nat /\ Len(g) \in Nat /\ Cardinality(Link!Starts(d)) \in Nat
      /\ n = Len(g) + Cardinality(Link!Starts(d)) /\ Link!Starts(d) \in SUBSET (1 .. Len(d))
  BY LkStarts, LkSentNat DEF LkSent
<1>3. \A i \in Link!Starts(d) : Link!UpTo(d, i) \in 1 .. Cardinality(Link!Starts(d))
  <2> SUFFICES ASSUME NEW i \in Link!Starts(d)
               PROVE  Link!UpTo(d, i) \in 1 .. Cardinality(Link!Starts(d))
    OBVIOUS
  <2> DEFINE T == {j \in Link!Starts(d) : j <= i}
  <2>1. i \in Nat
    BY <1>2
  <2>2. IsFiniteSet(Link!Starts(d)) /\ IsFiniteSet(T) /\ Link!UpTo(d, i) = Cardinality(T) /\ Cardinality(T) \in Nat
    BY <2>1, LkStarts
  <2>3. i \in T /\ T \in SUBSET Link!Starts(d)
    BY <2>1
  <2> HIDE DEF T
  <2>4. Cardinality(T) <= Cardinality(Link!Starts(d))
    BY <2>2, <2>3, FS_Subset
  <2>5. Cardinality(T) # 0
    BY <2>2, <2>3, FS_EmptySet
  <2> QED
    BY <1>2, <2>2, <2>4, <2>5
<1> HIDE DEF a, n
<1>4. ASSUME NEW k \in 0 .. Len(f) - n, LkFollows(f, k, g, d) PROVE LkFollows(a, k, g, d)
  <2>1. ASSUME NEW i \in DOMAIN g PROVE g[i] = a[k + i]
    <3>1. i \in 1 .. Len(g) /\ g[i] = f[k + i]
      BY <1>4 DEF LkFollows
    <3>2. k + i \in 1 .. Len(f)
      BY <1>1, <1>2, <3>1
    <3> QED
      BY <1>1, <3>1, <3>2
  <2>2. ASSUME NEW i \in Link!Starts(d) PROVE d[i].n = a[k + Len(g) + Link!UpTo(d, i)]
    <3>1. d[i].n = f[k + Len(g) + Link!UpTo(d, i)]
      BY <1>4 DEF LkFollows
    <3>2. k + Len(g) + Link!UpTo(d, i) \in 1 .. Len(f)
      BY <1>1, <1>2, <1>3
    <3> QED
      BY <1>1, <3>1, <3>2
  <2> QED
    BY <2>1, <2>2 DEF LkFollows
<1>5. ASSUME n > 0
      PROVE  \E k \in 0 .. Len(a) - n : LkFollows(a, k, g, d) /\ (LkOpen(v) => k + n = Len(a) - z)
  <2>1. PICK k \in 0 .. Len(f) - n : LkFollows(f, k, g, d) /\ (LkOpen(v) => k + n = Len(f) - 0)
    BY <1>5 DEF LkRun, n
  <2>a. k \in Nat /\ k <= Len(f) - n
    BY <1>1, <1>2, <2>1
  <2>b. k \in 0 .. Len(a) - n
    BY <1>1, <1>2, <2>a
  <2>c. ASSUME LkOpen(v) PROVE k + n = Len(a) - z
    <3>1. z = 1 /\ k + n = Len(f)
      BY <1>1, <1>2, <2>1, <2>a, <2>c
    <3> QED
      BY <1>1, <1>2, <2>a, <3>1
  <2>2. k \in 0 .. Len(a) - n /\ (LkOpen(v) => k + n = Len(a) - z)
    BY <2>b, <2>c, Zenon
  <2>3. LkFollows(a, k, g, d)
    BY <1>4, <2>1
  <2> QED
    BY <2>2, <2>3, Zenon
<1>6. LkRun(v, g, d, a, z)
  BY <1>5, Zenon DEF LkRun, n
<1> QED
  BY <1>6 DEF a

-----------------------------------------------------------------------------
(* How the session of one client goes on. *)

LEMMA LkRunClosed ==
  ASSUME NEW v, NEW x, NEW g, NEW d, NEW f, NEW z, NEW y, LkRun(v, g, d, f, z), ~LkOpen(x)
  PROVE  LkRun(x, g, d, f, y)
BY Zenon DEF LkRun

LEMMA LkRunSame ==
  ASSUME NEW v, NEW x, NEW g, NEW d, NEW f, NEW z, LkRun(v, g, d, f, z), LkOpen(x) => LkOpen(v)
  PROVE  LkRun(x, g, d, f, z)
BY Zenon DEF LkRun

LEMMA LkRunEmpty == \A v, f, z : LkRun(v, <<>>, <<>>, f, z)
<1>1. Len(<<>>) = 0 /\ <<>> \in Seq(LkMsg)
  OBVIOUS
<1>2. Link!Starts(<<>>) = {}
  BY DEF Link!Starts
<1>3. Cardinality({}) = 0
  BY FS_EmptySet
<1>4. LkSent(<<>>, <<>>) = 0 + 0
  BY <1>1, <1>2, <1>3, Zenon DEF LkSent
<1>5. LkSent(<<>>, <<>>) = 0 /\ ~(0 > 0)
  BY <1>4
<1> QED
  BY <1>5, Zenon DEF LkRun

\* The thread of the connection goes on without a word of its own.
LEMMA LkMoves ==
  ASSUME NEW v \in LkConn, NEW x, NEW u, NEW t, NEW w, NEW d, NEW f, NEW b, NEW z, LkGood(v, u, w, d, f, b, z),
         w.pc # "off", v.pc \notin {"ok", "fail", "gone"}, x.logged = v.logged, x.dead = v.dead,
         x.pc \in {"linked", "check", "read", "remove", "gone"}, x.pc = "linked" => ~v.logged,
         v.pc = "remove" => x.pc = "gone", t \in {u, <<>>}
  PROVE  LkGood(x, t, w, d, f, b, z)
<1>1. LkSession(v, u, w, d) /\ (LkGreeted(w, d) => LkWhole(v, d, b)) /\ LkRun(v, w.got, d, f, z)
  BY DEF LkGood
<1>2. LkOpen(x) => LkOpen(v)
  BY <1>1 DEF LkOpen, LkSession
<1>3. LkRun(x, w.got, d, f, z)
  BY <1>1, <1>2, LkRunSame, Zenon
<1>4. LkGreeted(w, d) => LkWhole(x, d, b)
  BY <1>1, Zenon DEF LkWhole
<1>5. <<>> # <<"login">> /\ <<>> # <<"wrong">>
  OBVIOUS
<1>6. LkSession(x, t, w, d)
  BY <1>1, <1>5 DEF LkSession
<1> QED
  BY <1>3, <1>4, <1>6 DEF LkGood

\* It reads the login: from now on it is written to.
LEMMA LkLogsIn ==
  ASSUME NEW v \in LkConn, NEW x, NEW u, NEW w, NEW d, NEW f, NEW b, NEW z, NEW y, NEW a, LkGood(v, u, w, d, f, b, z),
         v.pc = "read", u \in {<<"login">>, <<"wrong">>}, Room \in Nat,
         \/ x.pc = "ok" /\ x.logged
         \/ x.pc = "fail" /\ ~x.logged
  PROVE  LkGood(x, <<>>, w, d, f, a, y)
<1>1. LkSession(v, u, w, d)
  BY DEF LkGood
<1>2. ~v.logged /\ w.got = <<>> /\ d = <<>> /\ w.pc # "off"
  BY <1>1 DEF LkSession
<1>3. w.pc # "up"
  BY <1>1, <1>2, Zenon DEF LkSession, LkGreeted
<1>4. ~LkGreeted(w, d)
  BY <1>2, <1>3, Zenon DEF LkGreeted
<1>5. LkRun(x, w.got, d, f, y)
  BY <1>2, LkRunEmpty, Zenon
<1>6. <<>> # <<"login">> /\ <<>> # <<"wrong">> /\ Len(<<>>) = 0
  OBVIOUS
<1>7. Len(d) <= Room + 1 + LkOne(x.pc # "ok") + LkOne(x.dead)
  BY <1>2, <1>6 DEF LkOne
<1>8. LkSession(x, <<>>, w, d)
  BY <1>2, <1>4, <1>6, <1>7 DEF LkSession
<1> QED
  BY <1>4, <1>5, <1>8 DEF LkGood

LEMMA LkOneIs == \A b : LkOne(b) \in {0, 1}
BY Zenon DEF LkOne

\* A message is put behind a stream, or the write fails and the stream is as it was.
LEMMA LkLonger ==
  \A d \in Seq(LkMsg), m \in LkMsg :
    /\ Append(d, m) \in Seq(LkMsg) /\ Append(d, m) # <<>> /\ Len(Append(d, m)) = Len(d) + 1 /\ Len(d) \in Nat
    /\ d # <<>> => Append(d, m)[1] = d[1]
    /\ d = <<>> => Append(d, m)[1] = m /\ Len(Append(d, m)) = 1
<1> SUFFICES ASSUME NEW d \in Seq(LkMsg), NEW m \in LkMsg
             PROVE  /\ Append(d, m) \in Seq(LkMsg) /\ Append(d, m) # <<>> /\ Len(Append(d, m)) = Len(d) + 1 /\ Len(d) \in Nat
                    /\ d # <<>> => Append(d, m)[1] = d[1]
                    /\ d = <<>> => Append(d, m)[1] = m /\ Len(Append(d, m)) = 1
  OBVIOUS
<1>1. Append(d, m) \in Seq(LkMsg) /\ Append(d, m) # <<>> /\ Len(Append(d, m)) = Len(d) + 1 /\ Len(d) \in Nat
  OBVIOUS
<1>2. d # <<>> => Append(d, m)[1] = d[1]
  <2>1. d # <<>> => 1 \in 1 .. Len(d)
    OBVIOUS
  <2> QED
    BY <2>1
<1>3. d = <<>> => Append(d, m)[1] = m /\ Len(Append(d, m)) = 1
  OBVIOUS
<1> QED
  BY <1>1, <1>2, <1>3

LEMMA LkBound == \A n \in Nat, a, b \in {0, 1} : Room \in Nat /\ n <= 1 => n <= Room + 1 + a + b
OBVIOUS

\* The answer to a login is taken by the socket, or only a part of it, or nothing.
LEMMA LkAcks ==
  ASSUME NEW v \in LkConn, NEW x, NEW u, NEW w, NEW d \in Seq(LkMsg), NEW m \in LkMsg, NEW e, NEW f \in Seq(Link!Event),
         NEW b, NEW z, LkGood(v, u, w, d, f, b, z), w.got \in Seq(0 .. MaxEvents), Room \in Nat \ {0},
         v.pc = "ok", x.pc = "check", x.logged = v.logged, x.dead = v.dead,
         e = d \/ (e = Append(d, m) /\ m.kind \in {"ok", "torn"} /\ Len(d) <= Room + 1 + LkOne(v.dead))
  PROVE  LkGood(x, u, w, e, f, b, z)
<1>1. LkSession(v, u, w, d) /\ (LkGreeted(w, d) => LkWhole(v, d, b)) /\ LkRun(v, w.got, d, f, z)
  BY DEF LkGood
<1>2. v.logged /\ x.logged /\ w.pc # "off" /\ ~LkGreeted(w, d) /\ w.pc # "up"
  BY <1>1 DEF LkSession, LkGreeted
<1>3. LkOpen(x) => LkOpen(v)
  BY DEF LkOpen
<1>4. LkRun(x, w.got, d, f, z)
  BY <1>1, <1>3, LkRunSame, Zenon
<1>5. LkOne(x.pc # "ok") = 1 /\ LkOne(v.pc # "ok") = 0 /\ LkOne(v.dead) \in {0, 1}
  BY DEF LkOne
<1>6. CASE e = d
  <2>1. Len(d) <= Room + 1 + LkOne(x.pc # "ok") + LkOne(x.dead)
    BY <1>1, <1>5 DEF LkSession
  <2>2. LkSession(x, u, w, e)
    BY <1>1, <1>2, <1>6, <2>1, Zenon DEF LkSession
  <2> QED
    BY <1>2, <1>4, <1>6, <2>2, Zenon DEF LkGood
<1>7. CASE e = Append(d, m) /\ m.kind \in {"ok", "torn"} /\ Len(d) <= Room + 1 + LkOne(v.dead)
  <2>1. /\ e # <<>> /\ Len(e) = Len(d) + 1 /\ Len(d) \in Nat
        /\ d # <<>> => e[1] = d[1]
        /\ d = <<>> => e[1] = m /\ Len(e) = 1
    BY <1>7, LkLonger, Zenon
  <2>2. LkRun(x, w.got, e, f, z)
    BY <1>4, <1>7, LkRunMore
  <2>3. LkGreeted(w, e) => d = <<>> /\ m.kind = "ok"
    BY <1>2, <2>1 DEF LkGreeted
  <2>4. LkGreeted(w, e) => LkWhole(x, e, b)
    BY <2>1, <2>3 DEF LkWhole
  <2>5. Len(e) <= Room + 1 + LkOne(x.pc # "ok") + LkOne(x.dead)
    BY <1>5, <1>7, <2>1
  <2>6. LkSession(x, u, w, e)
    BY <1>1, <1>2, <2>5, Zenon DEF LkSession
  <2> QED
    BY <2>2, <2>4, <2>6, Zenon DEF LkGood
<1> QED
  BY <1>6, <1>7

LEMMA LkRefuses ==
  ASSUME NEW v \in LkConn, NEW x, NEW u, NEW w, NEW d \in Seq(LkMsg), NEW m \in LkMsg, NEW e, NEW f \in Seq(Link!Event),
         NEW b, NEW z, LkGood(v, u, w, d, f, b, z), w.got \in Seq(0 .. MaxEvents), Room \in Nat \ {0},
         v.pc = "fail", x.pc = "remove", x.logged = v.logged, x.dead = v.dead,
         e = d \/ (e = Append(d, m) /\ m.kind \in {"fail", "torn"})
  PROVE  LkGood(x, u, w, e, f, b, z)
<1>1. LkSession(v, u, w, d) /\ LkRun(v, w.got, d, f, z)
  BY DEF LkGood
<1>2. ~v.logged /\ ~x.logged /\ w.pc # "off" /\ w.got = <<>> /\ d = <<>>
  BY <1>1 DEF LkSession
<1>3. ~LkOpen(x)
  BY <1>2, Zenon DEF LkOpen
<1>4. LkRun(x, w.got, d, f, z)
  BY <1>1, <1>3, LkRunClosed, Zenon
<1>5. w.pc # "up"
  BY <1>1, <1>2, Zenon DEF LkSession, LkGreeted
<1>6. /\ e = <<>> \/ (Len(e) = 1 /\ e[1].kind \in {"fail", "torn"})
      /\ Len(e) \in {0, 1}
      /\ LkRun(x, w.got, e, f, z)
  <2>1. CASE e = d
    <3>1. Len(<<>>) = 0
      OBVIOUS
    <3> QED
      BY <1>2, <1>4, <2>1, <3>1, Zenon
  <2>2. CASE e = Append(d, m) /\ m.kind \in {"fail", "torn"}
    <3>1. e[1] = m /\ Len(e) = 1
      BY <1>2, <2>2, LkLonger, Zenon
    <3>2. LkRun(x, w.got, e, f, z)
      BY <1>4, <2>2, LkRunMore
    <3> QED
      BY <2>2, <3>1, <3>2, Zenon
  <2> QED
    BY <2>1, <2>2
<1>7. ~LkGreeted(w, e)
  BY <1>5, <1>6 DEF LkGreeted
<1>8. Len(e) <= Room + 1 + LkOne(x.pc # "ok") + LkOne(x.dead)
  <2>1. LkOne(x.pc # "ok") \in {0, 1} /\ LkOne(x.dead) \in {0, 1}
    BY LkOneIs, Zenon
  <2>2. Len(e) \in Nat /\ Len(e) <= 1
    <3>1. Len(e) = 0 \/ Len(e) = 1
      BY <1>6, Zenon
    <3>2. 0 \in Nat /\ 1 \in Nat /\ 0 <= 1 /\ 1 <= 1
      OBVIOUS
    <3> QED
      BY <3>1, <3>2, Zenon
  <2> QED
    BY <2>1, <2>2, LkBound, Zenon
<1>9. u \notin {<<"login">>, <<"wrong">>}
  BY <1>1, Zenon DEF LkSession
<1>10. LkSession(x, u, w, e)
  BY <1>2, <1>6, <1>7, <1>8, <1>9, Zenon DEF LkSession
<1> QED
  BY <1>6, <1>7, <1>10, Zenon DEF LkGood

LEMMA LkLast == \A d \in Seq(LkMsg) : d # <<>> => d[Len(d)] \in LkMsg /\ d[Len(d)].n \in 0 .. MaxEvents
<1> SUFFICES ASSUME NEW d \in Seq(LkMsg), d # <<>> PROVE d[Len(d)] \in LkMsg /\ d[Len(d)].n \in 0 .. MaxEvents
  OBVIOUS
<1>1. Len(d) \in 1 .. Len(d)
  OBVIOUS
<1>2. d[Len(d)] \in LkMsg
  BY <1>1
<1> QED
  BY <1>2 DEF LkMsg

\* The fan-out writes what it has to say, whole or the header of it, to a connection it has not been at.
LEMMA LkWrites ==
  ASSUME NEW v \in LkConn, NEW u, NEW w, NEW d \in Seq(LkMsg), NEW m \in LkMsg, NEW e, NEW f \in Seq(Link!Event), f # <<>>,
         NEW b, LkGood(v, u, w, d, f, None, 1), w.got \in Seq(0 .. MaxEvents),
         LkOpen(v), Len(d) < Room, m.kind \in {"event", "head"}, m.n = f[Len(f)], m.kind = "head" => b = m.n,
         e = Append(d, m)
  PROVE  LkGood(v, u, w, e, f, b, 0)
<1>0. Room \in Nat /\ None \notin 0 .. MaxEvents
  BY LkConstants
<1>1. LkSession(v, u, w, d) /\ (LkGreeted(w, d) => LkWhole(v, d, None)) /\ LkRun(v, w.got, d, f, 1)
  BY DEF LkGood
<1>2. v.logged /\ ~v.dead
  BY DEF LkOpen
<1>3. /\ e \in Seq(LkMsg) /\ e # <<>> /\ Len(e) = Len(d) + 1 /\ Len(d) \in Nat
      /\ d # <<>> => e[1] = d[1]
      /\ d = <<>> => e[1] = m /\ Len(e) = 1
  BY LkLonger, Zenon
<1>4. LkRun(v, w.got, e, f, 0)
  BY <1>1, LkRunNext
<1>5. "event" # "ok" /\ "head" # "ok" /\ m.kind # "ok"
  OBVIOUS
<1>6. LkGreeted(w, e) => LkGreeted(w, d)
  BY <1>3, <1>5, Zenon DEF LkGreeted
<1>7. LkGreeted(w, e) => LkWhole(v, e, b)
  <2> SUFFICES ASSUME LkGreeted(w, e) PROVE LkWhole(v, e, b)
    OBVIOUS
  <2>1. LkWhole(v, d, None)
    BY <1>1, <1>6
  <2>2. d # <<>> => d[Len(d)].kind # "torn" /\ d[Len(d)].kind # "head"
    <3>1. d # <<>> => d[Len(d)].n \in 0 .. MaxEvents
      BY LkLast, Zenon
    <3> QED
      BY <1>0, <1>2, <2>1, <3>1, Zenon DEF LkWhole
  <2>3. /\ \A i \in 1 .. Len(d) : e[i] = d[i]
        /\ e[Len(d) + 1] = m /\ (d # <<>> <=> Len(d) > 0)
    OBVIOUS
  <2>4. ASSUME NEW i \in 1 .. Len(e) - 1
        PROVE  /\ e[i].kind # "torn"
               /\ e[i].kind = "head" => e[i + 1].kind \in {"body", "torn"} /\ e[i + 1].n = e[i].n
    <3>1. CASE i = Len(d)
      <4>1. d # <<>> /\ e[i] = d[Len(d)]
        BY <1>3, <2>3, <3>1
      <4> QED
        BY <2>2, <4>1, Zenon
    <3>2. CASE i # Len(d)
      <4>1. i \in 1 .. Len(d) - 1 /\ e[i] = d[i] /\ e[i + 1] = d[i + 1]
        BY <1>3, <2>3, <3>2
      <4> QED
        BY <2>1, <4>1, Zenon DEF LkWhole
    <3> QED
      BY <3>1, <3>2
  <2>5. e[Len(e)] = m
    BY <1>3, <2>3
  <2>6. m.kind # "torn"
    OBVIOUS
  <2> QED
    BY <2>4, <2>5, <2>6, Zenon DEF LkWhole
<1>8. Len(e) <= Room + 1 + LkOne(v.pc # "ok") + LkOne(v.dead)
  <2>1. LkOne(v.pc # "ok") \in {0, 1} /\ LkOne(v.dead) \in {0, 1}
    BY LkOneIs, Zenon
  <2>2. \A n \in Nat, a, c \in {0, 1} : n < Room => n + 1 <= Room + 1 + a + c
    BY <1>0
  <2> QED
    BY <1>3, <2>1, <2>2, Zenon
<1>9. LkSession(v, u, w, e)
  BY <1>1, <1>2, <1>6, <1>8, Zenon DEF LkSession
<1> QED
  BY <1>4, <1>7, <1>9, Zenon DEF LkGood

\* The rest of a detection: its picture, or what is left of it when the write fails.
LEMMA LkRests ==
  ASSUME NEW v \in LkConn, NEW x, NEW u, NEW w, NEW d \in Seq(LkMsg), NEW m \in LkMsg, NEW e, NEW f \in Seq(Link!Event),
         NEW b, NEW z, NEW a, NEW y, LkGood(v, u, w, d, f, b, z), w.got \in Seq(0 .. MaxEvents), ~v.dead, v.logged,
         x.pc = v.pc, x.logged = v.logged,
         \/ m.kind = "body" /\ ~x.dead /\ Len(d) <= Room /\ y = z
         \/ m.kind = "torn" /\ x.dead,
         b \in {None, m.n}, e = Append(d, m)
  PROVE  LkGood(x, u, w, e, f, a, y)
<1>0. Room \in Nat /\ None \notin 0 .. MaxEvents
  BY LkConstants
<1>1. LkSession(v, u, w, d) /\ (LkGreeted(w, d) => LkWhole(v, d, b)) /\ LkRun(v, w.got, d, f, z)
  BY DEF LkGood
<1>2. /\ e \in Seq(LkMsg) /\ e # <<>> /\ Len(e) = Len(d) + 1 /\ Len(d) \in Nat
      /\ d # <<>> => e[1] = d[1]
      /\ d = <<>> => e[1] = m /\ Len(e) = 1
  BY LkLonger, Zenon
<1>3. m.kind \notin {"event", "head", "ok"}
  OBVIOUS
<1>4. LkRun(x, w.got, e, f, y)
  <2>1. CASE ~x.dead /\ y = z
    <3>1. LkOpen(x) => LkOpen(v)
      BY Zenon DEF LkOpen
    <3> QED
      BY <1>1, <1>3, <2>1, <3>1, LkRunMore
  <2>2. CASE x.dead
    <3>1. ~LkOpen(x)
      BY <2>2, Zenon DEF LkOpen
    <3>2. LkRun(x, w.got, d, f, y)
      BY <1>1, <3>1, LkRunClosed, Zenon
    <3> QED
      BY <1>3, <3>2, LkRunMore
  <2> QED
    BY <2>1, <2>2, Zenon
<1>5. LkGreeted(w, e) => LkGreeted(w, d)
  BY <1>2, <1>3 DEF LkGreeted
<1>6. LkGreeted(w, e) => LkWhole(x, e, a)
  <2> SUFFICES ASSUME LkGreeted(w, e) PROVE LkWhole(x, e, a)
    OBVIOUS
  <2>1. LkWhole(v, d, b)
    BY <1>1, <1>5
  <2>2. d # <<>> => d[Len(d)].kind # "torn" /\ (d[Len(d)].kind = "head" => d[Len(d)].n = m.n)
    <3>1. d # <<>> => d[Len(d)].n \in 0 .. MaxEvents
      BY LkLast, Zenon
    <3> QED
      BY <1>0, <2>1, <3>1 DEF LkWhole
  <2>3. /\ \A i \in 1 .. Len(d) : e[i] = d[i]
        /\ e[Len(d) + 1] = m /\ (d # <<>> <=> Len(d) > 0)
    OBVIOUS
  <2>4. ASSUME NEW i \in 1 .. Len(e) - 1
        PROVE  /\ e[i].kind # "torn"
               /\ e[i].kind = "head" => e[i + 1].kind \in {"body", "torn"} /\ e[i + 1].n = e[i].n
    <3>1. CASE i = Len(d)
      <4>1. d # <<>> /\ e[i] = d[Len(d)] /\ e[i + 1] = m
        BY <1>2, <2>3, <3>1
      <4>2. m.kind \in {"body", "torn"}
        OBVIOUS
      <4> QED
        BY <2>2, <4>1, <4>2, Zenon
    <3>2. CASE i # Len(d)
      <4>1. i \in 1 .. Len(d) - 1 /\ e[i] = d[i] /\ e[i + 1] = d[i + 1]
        BY <1>2, <2>3, <3>2
      <4> QED
        BY <2>1, <4>1, Zenon DEF LkWhole
    <3> QED
      BY <3>1, <3>2
  <2>5. e[Len(e)] = m
    BY <1>2, <2>3
  <2>6. m.kind # "head" /\ (m.kind = "torn" => x.dead)
    OBVIOUS
  <2> QED
    BY <2>4, <2>5, <2>6, Zenon DEF LkWhole
<1>7. Len(e) <= Room + 1 + LkOne(x.pc # "ok") + LkOne(x.dead)
  <2>1. LkOne(x.pc # "ok") \in {0, 1} /\ LkOne(x.dead) \in {0, 1} /\ LkOne(v.pc # "ok") \in {0, 1}
    BY LkOneIs, Zenon
  <2>2. CASE Len(d) <= Room
    <3>1. \A n \in Nat, c, k \in {0, 1} : n <= Room => n + 1 <= Room + 1 + c + k
      BY <1>0
    <3> QED
      BY <1>2, <2>1, <2>2, <3>1, Zenon
  <2>3. CASE x.dead
    <3>1. LkOne(x.dead) = 1 /\ LkOne(v.dead) = 0
      BY <2>3, Zenon DEF LkOne
    <3>2. Len(d) <= Room + 1 + LkOne(v.pc # "ok") + LkOne(v.dead)
      BY <1>1, Zenon DEF LkSession
    <3>3. \A n \in Nat, c \in {0, 1} : n <= Room + 1 + c + 0 => n + 1 <= Room + 1 + c + 1
      BY <1>0
    <3> QED
      BY <1>2, <2>1, <3>1, <3>2, <3>3, Zenon
  <2> QED
    BY <2>2, <2>3, Zenon
<1>8. LkSession(x, u, w, e)
  BY <1>1, <1>5, <1>7, Zenon DEF LkSession
<1> QED
  BY <1>4, <1>6, <1>8, Zenon DEF LkGood

\* A connection dies, by a write that failed before its first byte or by the stop; or is passed over.
LEMMA LkDies ==
  ASSUME NEW v \in LkConn, NEW x, NEW u, NEW w, NEW d \in Seq(LkMsg), NEW f, NEW b, NEW z, NEW y,
         LkGood(v, u, w, d, f, b, z), ~LkOpen(x), x.pc = v.pc, x.logged = v.logged, v.dead => x.dead, NEW a, x.dead \/ a = b
  PROVE  LkGood(x, u, w, d, f, a, y)
<1>0. Room \in Nat
  BY LkConstants
<1>1. LkSession(v, u, w, d) /\ (LkGreeted(w, d) => LkWhole(v, d, b)) /\ LkRun(v, w.got, d, f, z)
  BY DEF LkGood
<1>2. LkRun(x, w.got, d, f, y)
  BY <1>1, LkRunClosed, Zenon
<1>3. LkGreeted(w, d) => LkWhole(x, d, a)
  BY <1>1, Zenon DEF LkWhole
<1>4. Len(d) <= Room + 1 + LkOne(x.pc # "ok") + LkOne(x.dead)
  <2>1. LkOne(x.pc # "ok") \in {0, 1} /\ LkOne(x.dead) \in {0, 1} /\ LkOne(v.dead) \in {0, 1}
    BY LkOneIs, Zenon
  <2>2. (LkOne(v.dead) = 1 => LkOne(x.dead) = 1) /\ LkOne(v.pc # "ok") = LkOne(x.pc # "ok")
    <3>1. 0 # 1
      OBVIOUS
    <3> QED
      BY <3>1, Zenon DEF LkOne
  <2>3. Len(d) <= Room + 1 + LkOne(x.pc # "ok") + LkOne(v.dead)
    BY <1>1, <2>2, Zenon DEF LkSession
  <2>4. \A n \in Nat, k, c, g \in {0, 1} : (c = 1 => g = 1) /\ n <= Room + 1 + k + c => n <= Room + 1 + k + g
    BY <1>0
  <2>5. Len(d) \in Nat
    OBVIOUS
  <2> QED
    BY <2>1, <2>2, <2>3, <2>4, <2>5, Zenon
<1>5. LkSession(x, u, w, d)
  BY <1>1, <1>4, Zenon DEF LkSession
<1> QED
  BY <1>2, <1>3, <1>5, Zenon DEF LkGood

\* The first whole message is taken off.
LEMMA LkWholeLess ==
  ASSUME NEW v, NEW d \in Seq(LkMsg), d # <<>>, NEW b, LkWhole(v, d, b)
  PROVE  LkWhole(v, Tail(d), b)
<1> DEFINE e == Tail(d)
<1>1. /\ e \in Seq(LkMsg) /\ Len(e) = Len(d) - 1 /\ Len(e) \in Nat
      /\ \A i \in 1 .. Len(e) : e[i] = d[i + 1]
      /\ e # <<>> => Len(e) > 0
  OBVIOUS
<1>2. ASSUME NEW i \in 1 .. Len(e) - 1
      PROVE  /\ e[i].kind # "torn"
             /\ e[i].kind = "head" => e[i + 1].kind \in {"body", "torn"} /\ e[i + 1].n = e[i].n
  <2>1. i + 1 \in 1 .. Len(d) - 1 /\ e[i] = d[i + 1] /\ e[i + 1] = d[(i + 1) + 1]
    BY <1>1
  <2> QED
    BY <2>1, Zenon DEF LkWhole
<1>3. e # <<>> => d # <<>> /\ e[Len(e)] = d[Len(d)]
  BY <1>1
<1> HIDE DEF e
<1>4. LkWhole(v, e, b)
  BY <1>2, <1>3, Zenon DEF LkWhole
<1> QED
  BY <1>4 DEF e

\* The client reads a message: its ACK_OK, a detection, or the picture behind the header of one.
LEMMA LkReads ==
  ASSUME NEW v \in LkConn, NEW u, NEW w, NEW o, NEW d \in Seq(LkMsg), d # <<>>, NEW f \in Seq(Link!Event),
         NEW b, NEW z, LkGood(v, u, w, d, f, b, z), w.got \in Seq(0 .. MaxEvents), LkGreeted(w, d), o.pc = "up",
         o.got = (IF d[1].kind \in {"event", "head"} THEN Append(w.got, d[1].n) ELSE w.got)
  PROVE  LkGood(v, u, o, Tail(d), f, b, z) /\ o.got \in Seq(0 .. MaxEvents)
<1>1. LkSession(v, u, w, d) /\ LkWhole(v, d, b) /\ LkRun(v, w.got, d, f, z)
  BY DEF LkGood
<1>2. LkRun(v, o.got, Tail(d), f, z) /\ o.got \in Seq(0 .. MaxEvents)
  BY <1>1, LkRunLess
<1>3. LkWhole(v, Tail(d), b)
  BY <1>1, LkWholeLess
<1>4. v.logged /\ v.pc # "ok" /\ u \notin {<<"login">>, <<"wrong">>}
  BY <1>1, Zenon DEF LkSession
<1>5. Len(Tail(d)) <= Room + 1 + LkOne(v.pc # "ok") + LkOne(v.dead)
  <2>1. LkOne(v.pc # "ok") \in {0, 1} /\ LkOne(v.dead) \in {0, 1}
    BY LkOneIs, Zenon
  <2>2. Len(Tail(d)) = Len(d) - 1 /\ Len(d) \in Nat
    OBVIOUS
  <2>3. Len(d) <= Room + 1 + LkOne(v.pc # "ok") + LkOne(v.dead)
    BY <1>1, Zenon DEF LkSession
  <2>4. \A n \in Nat, c, k \in {0, 1} : n <= Room + 1 + c + k => n - 1 <= Room + 1 + c + k
    BY LkConstants
  <2> QED
    BY <2>1, <2>2, <2>3, <2>4, Zenon
<1>6. "up" # "off"
  OBVIOUS
<1>7. LkSession(v, u, o, Tail(d))
  BY <1>1, <1>4, <1>5, <1>6, Zenon DEF LkSession
<1> QED
  BY <1>2, <1>3, <1>7, Zenon DEF LkGood

\* It ends the session on its side.
LEMMA LkCloses ==
  ASSUME NEW v \in LkConn, NEW u, NEW w, NEW o, NEW d \in Seq(LkMsg), NEW f, NEW b, NEW z,
         LkGood(v, u, w, d, f, b, z), o.pc \in {"refused", "over"}, o.got = <<>>
  PROVE  LkGood(v, u, o, <<>>, f, b, z)
<1>1. LkSession(v, u, w, d)
  BY DEF LkGood
<1>2. LkRun(v, o.got, <<>>, f, z)
  BY LkRunEmpty, Zenon
<1>3. o.pc # "off" /\ o.pc # "up"
  OBVIOUS
<1>4. ~LkGreeted(o, <<>>)
  BY <1>3, Zenon DEF LkGreeted
<1>5. Len(<<>>) <= Room + 1 + LkOne(v.pc # "ok") + LkOne(v.dead)
  <2>1. LkOne(v.pc # "ok") \in {0, 1} /\ LkOne(v.dead) \in {0, 1}
    BY LkOneIs, Zenon
  <2>2. Len(<<>>) \in Nat /\ Len(<<>>) <= 1 /\ Room \in Nat
    BY LkConstants
  <2> QED
    BY <2>1, <2>2, LkBound, Zenon
<1>6. LkSession(v, u, o, <<>>)
  BY <1>1, <1>3, <1>4, <1>5, Zenon DEF LkSession
<1> QED
  BY <1>2, <1>4, <1>6, Zenon DEF LkGood

\* It connects, or sends a heartbeat.
LEMMA LkSends ==
  ASSUME NEW v \in LkConn, NEW u, NEW t, NEW w, NEW o, NEW d, NEW f, NEW b, NEW z, LkGood(v, u, w, d, f, b, z), o.got = w.got,
         \/ w.pc = "off" /\ o.pc = "login" /\ t \in {<<"login">>, <<"wrong">>}
         \/ w.pc = "up" /\ o.pc = "up" /\ t = <<"beat">>
  PROVE  LkGood(v, t, o, d, f, b, z)
<1>1. LkSession(v, u, w, d) /\ (LkGreeted(w, d) => LkWhole(v, d, b)) /\ LkRun(v, w.got, d, f, z)
  BY DEF LkGood
<1>2. CASE w.pc = "off" /\ o.pc = "login" /\ t \in {<<"login">>, <<"wrong">>}
  <2>1. v.pc = "none" /\ "login" # "up" /\ "login" # "off" /\ "none" \notin {"remove", "gone", "fail", "ok"}
    BY <1>1, <1>2 DEF LkSession
  <2>2. ~v.logged /\ d = <<>>
    BY <1>1, <2>1, Zenon DEF LkSession
  <2>3. ~LkGreeted(o, d)
    BY <1>2, <2>1, <2>2, Zenon DEF LkGreeted
  <2>4. LkSession(v, t, o, d)
    BY <1>1, <1>2, <2>1, <2>2, <2>3, Zenon DEF LkSession
  <2> QED
    BY <1>1, <2>3, <2>4, Zenon DEF LkGood
<1>3. CASE w.pc = "up" /\ o.pc = "up" /\ t = <<"beat">>
  <2>1. t # <<"login">> /\ t # <<"wrong">> /\ "up" # "off" /\ "up" # "login"
    BY <1>3
  <2>2. LkGreeted(w, d) <=> LkGreeted(o, d)
    BY <1>3, Zenon DEF LkGreeted
  <2>3. LkSession(v, t, o, d)
    BY <1>1, <1>3, <2>1, <2>2, Zenon DEF LkSession
  <2> QED
    BY <1>1, <2>2, <2>3, Zenon DEF LkGood
<1> QED
  BY <1>2, <1>3

\* A fan-out begins.
LEMMA LkBegins ==
  ASSUME NEW v, NEW u, NEW w, NEW d \in Seq(LkMsg), NEW f \in Seq(Link!Event), NEW e \in Link!Event, NEW b, NEW z,
         LkGood(v, u, w, d, f, b, 0), w.got \in Seq(0 .. MaxEvents), LkOpen(v) => z = 1
  PROVE  LkGood(v, u, w, d, Append(f, e), b, z)
<1>1. LkSession(v, u, w, d) /\ (LkGreeted(w, d) => LkWhole(v, d, b)) /\ LkRun(v, w.got, d, f, 0)
  BY DEF LkGood
<1>2. LkRun(v, w.got, d, Append(f, e), z)
  BY <1>1, LkRunGrows
<1> QED
  BY <1>1, <1>2 DEF LkGood

-----------------------------------------------------------------------------
(* The steps. *)

LkPc == {"none", "linked", "check", "read", "ok", "fail", "remove", "gone"}

LEMMA LkGo ==
  ASSUME conn \in [Client -> LkConn], NEW c \in Client, NEW q \in LkPc, conn' = [conn EXCEPT ![c].pc = q]
  PROVE  /\ conn' \in [Client -> LkConn] /\ \A d \in Client : d # c => conn'[d] = conn[d]
         /\ conn'[c].pc = q /\ conn'[c].logged = conn[c].logged /\ conn'[c].dead = conn[c].dead
BY Zenon DEF LkConn, LkPc

LEMMA LkConnOf ==
  ASSUME LkTyped, NEW c \in Client
  PROVE  /\ conn[c] \in LkConn /\ client[c] \in LkClient /\ down[c] \in Seq(LkMsg) /\ client[c].got \in Seq(0 .. MaxEvents)
         /\ up[c] \in {<<>>, <<"login">>, <<"wrong">>, <<"beat">>} /\ conn[c].pc \in LkPc
<1>1. conn[c] \in LkConn /\ client[c] \in LkClient
  BY DEF LkTyped
<1>2. down[c] \in Seq(LkMsg) /\ up[c] \in {<<>>, <<"login">>, <<"wrong">>, <<"beat">>}
  BY Zenon DEF LkTyped
<1> QED
  BY <1>1, <1>2 DEF LkConn, LkClient, LkPc

LEMMA LkAtSame ==
  ASSUME NEW c \in Client, LkAt(c), conn'[c] = conn[c], up'[c] = up[c], client'[c] = client[c], down'[c] = down[c],
         fanned' = fanned, LkBody(c)' = LkBody(c), LkBehind(c)' = LkBehind(c)
  PROVE  LkAt(c)'
BY Zenon DEF LkAt

\* A step of one session leaves the others as they are.
LEMMA LkOthersAt ==
  ASSUME LkInv, NEW c \in Client, UNCHANGED <<pub, fan, fanned>>, LkAt(c)',
         \A d \in Client : d # c => conn'[d] = conn[d] /\ up'[d] = up[d] /\ client'[d] = client[d] /\ down'[d] = down[d]
  PROVE  \A d \in Client : LkAt(d)'
<1> SUFFICES ASSUME NEW d \in Client, d # c PROVE LkAt(d)'
  OBVIOUS
<1>1. LkBody(d)' = LkBody(d) /\ LkBehind(d)' = LkBehind(d)
  BY Zenon DEF LkBody, LkBehind
<1>2. LkAt(d)
  BY DEF LkInv
<1> QED
  BY <1>1, <1>2, LkAtSame

\* The thread of a connection that is in the list goes on.
LEMMA LkConnGoesOn ==
  ASSUME LkInv, NEW c \in Client, conn[c].pc \notin {"none", "linked", "gone"}, conn'[c].pc \notin {"none", "linked"},
         conn'[c].pc = "gone" => fan.by = None, conn[c].logged => conn'[c].logged, conn'[c].dead = conn[c].dead,
         \A d \in Client : d # c => conn'[d] = conn[d], UNCHANGED <<stopping, acceptor, pub, fan, fanned>>,
         fan.body # None => Len(down'[fan.body]) <= Room
  PROVE  LkStop' /\ LkFan'
<1>1. LkStop /\ LkFan /\ fan.todo \subseteq Client
  BY DEF LkInv, LkTyped
<1>2. \A d \in Client : d \in Link!Linked' <=> conn'[d].pc \notin {"none", "gone"}
  BY DEF Link!Linked
<1>3. \A d \in Client : d \in Link!Linked <=> conn[d].pc \notin {"none", "gone"}
  BY DEF Link!Linked
<1>4. Link!Linked' \subseteq Link!Linked /\ Link!Linked \subseteq Client
  BY <1>2, <1>3 DEF Link!Linked
<1>5. LkStop'
  <2>1. stopping' = "freed" => Link!Linked' = {}
    BY <1>1, <1>4 DEF LkStop
  <2>2. acceptor'.pc = "create" => acceptor'.conn \in Client /\ conn'[acceptor'.conn].pc = "linked"
    BY <1>1 DEF LkStop
  <2> QED
    BY <1>1, <2>1, <2>2 DEF LkStop
<1>6. LkFan'
  <2>1. fan'.todo \subseteq Link!Linked'
    <3>1. CASE fan.by = None
      BY <1>1, <3>1 DEF LkFan
    <3>2. CASE fan.by # None
      BY <1>1, <1>2, <1>3, <3>2 DEF LkFan
    <3> QED
      BY <3>1, <3>2
  <2>2. fan'.body # None => fan'.body \in fan'.todo /\ Link!Writable(fan.body)'
    <3> SUFFICES ASSUME fan.body # None PROVE fan.body \in fan.todo /\ Link!Writable(fan.body)'
      BY Zenon
    <3>1. fan.body \in fan.todo /\ Link!Writable(fan.body) /\ fan.body \in Client
      BY <1>1, Zenon DEF LkFan
    <3> QED
      BY <3>1, Zenon DEF Link!Writable
  <2> QED
    BY <1>1, <2>1, <2>2, Zenon DEF LkFan
<1> QED
  BY <1>5, <1>6

\* Only the acceptor goes on.
LEMMA LkAccepts ==
  ASSUME LkInv, UNCHANGED <<conn, up, down, shut, left, pub, fan, client, fanned, stopping>>,
         acceptor' \in [pc : {"off", "check", "select", "create", "detach", "gone"}, conn : Client \cup {None}],
         acceptor.pc # "gone", acceptor'.pc # "create"
  PROVE  LkInv'
<1>1. LkTyped'
  BY DEF LkInv, LkTyped
<1>2. LkStop'
  <2>1. Link!Linked' = Link!Linked
    BY DEF Link!Linked
  <2> QED
    BY <2>1 DEF LkInv, LkStop
<1>3. LkFan'
  BY Zenon DEF LkInv, LkFan, Link!Linked, Link!Writable
<1>4. ASSUME NEW c \in Client PROVE LkAt(c)'
  <2>1. LkAt(c)
    BY DEF LkInv
  <2>2. LkBody(c)' = LkBody(c) /\ LkBehind(c)' = LkBehind(c)
    BY Zenon DEF LkBody, LkBehind
  <2> QED
    BY <2>1, <2>2, LkAtSame
<1> QED
  BY <1>1, <1>2, <1>3, <1>4 DEF LkInv

LEMMA LkStarting ==
  ASSUME LkInv, Link!Start \/ Link!Check \/ Link!SelectTimeout \/ Link!Detach
  PROVE  LkInv'
<1>1. UNCHANGED <<conn, up, down, shut, left, pub, fan, client, fanned, stopping>>
  BY Zenon DEF Link!Start, Link!Check, Link!SelectTimeout, Link!Detach
<1>2. /\ acceptor' \in [pc : {"off", "check", "select", "create", "detach", "gone"}, conn : Client \cup {None}]
      /\ acceptor.pc # "gone" /\ acceptor'.pc # "create"
  BY DEF Link!Start, Link!Check, Link!SelectTimeout, Link!Detach, Link!Started
<1> QED
  BY <1>1, <1>2, LkAccepts

\* What the connection of a client is to its session, for the steps of its thread.
LEMMA LkAtOf ==
  ASSUME LkInv, NEW c \in Client
  PROVE  LkGood(conn[c], up[c], client[c], down[c], fanned, LkBody(c), LkBehind(c)) /\ LkTyped /\ LkStop /\ LkFan
BY DEF LkInv, LkAt

LEMMA LkAcceptStep ==
  ASSUME LkInv, NEW c \in Client, Link!Accept(c)
  PROVE  LkInv'
<1>1. /\ acceptor.pc = "select" /\ client[c].pc = "login" /\ conn[c].pc = "none" /\ fan.by = None
      /\ acceptor' = [pc |-> "create", conn |-> c] /\ conn' = [conn EXCEPT ![c].pc = "linked"]
      /\ UNCHANGED <<stopping, up, down, shut, left, pub, fan, client, fanned>>
  BY DEF Link!Accept, Link!ListFree
<1>2. LkTyped /\ LkStop /\ LkFan /\ LkGood(conn[c], up[c], client[c], down[c], fanned, LkBody(c), LkBehind(c))
  BY LkAtOf
<1>3. /\ conn' \in [Client -> LkConn] /\ \A d \in Client : d # c => conn'[d] = conn[d]
      /\ conn'[c].pc = "linked" /\ conn'[c].logged = conn[c].logged /\ conn'[c].dead = conn[c].dead
  <2>1. "linked" \in LkPc /\ conn \in [Client -> LkConn]
    BY <1>2 DEF LkPc, LkTyped
  <2> QED
    BY <1>1, <2>1, LkGo
<1>4. LkTyped'
  BY <1>1, <1>2, <1>3 DEF LkTyped
<1>5. LkStop'
  BY <1>1, <1>2, <1>3 DEF LkStop
<1>6. LkFan'
  BY <1>1, <1>2 DEF LkFan
<1>7. LkAt(c)'
  <2>1. ~conn[c].logged
    BY <1>1, <1>2, Zenon DEF LkGood, LkSession
  <2>2. LkGood(conn'[c], up[c], client[c], down[c], fanned, LkBody(c), LkBehind(c))
    BY <1>1, <1>2, <1>3, <2>1, LkConnOf, LkMoves
  <2>3. LkBody(c)' = LkBody(c) /\ LkBehind(c)' = LkBehind(c)
    BY <1>1, Zenon DEF LkBody, LkBehind
  <2> QED
    BY <1>1, <2>2, <2>3, Zenon DEF LkAt
<1>8. \A d \in Client : LkAt(d)'
  BY <1>1, <1>3, <1>7, LkOthersAt
<1> QED
  BY <1>4, <1>5, <1>6, <1>8 DEF LkInv

\* The acceptor lets go of the connection it took in.
LEMMA LkCreateStep ==
  ASSUME LkInv, Link!Create \/ Link!CreateFails
  PROVE  LkInv'
<1>1. /\ acceptor.pc = "create"
      /\ acceptor' \in [pc : {"check", "detach"}, conn : Client \cup {None}]
      /\ UNCHANGED <<stopping, up, down, left, pub, fan, client, fanned>>
  BY DEF Link!Create, Link!CreateFails, LkInv, LkTyped
<1>a. acceptor.conn \in Client /\ conn[acceptor.conn].pc = "linked"
  BY <1>1 DEF LkInv, LkStop
<1>b. PICK c \in Client : c = acceptor.conn
  BY <1>a
<1>2. LkTyped /\ LkStop /\ LkFan /\ c \in Client /\ conn[c].pc = "linked"
  BY <1>a, <1>b DEF LkInv
<1>3. /\ conn' = [conn EXCEPT ![c].pc = "check"] \/ (conn' = [conn EXCEPT ![c].pc = "gone"] /\ fan.by = None)
      /\ shut' \subseteq Client
  BY <1>2, <1>b, Zenon DEF Link!Create, Link!CreateFails, Link!ListFree, LkTyped
<1>4. /\ conn' \in [Client -> LkConn] /\ \A d \in Client : d # c => conn'[d] = conn[d]
      /\ conn'[c].pc \in {"check", "gone"} /\ conn'[c].logged = conn[c].logged /\ conn'[c].dead = conn[c].dead
      /\ conn'[c].pc = "gone" => fan.by = None
  <2>1. conn \in [Client -> LkConn] /\ "check" \in LkPc /\ "gone" \in LkPc /\ "check" # "gone"
    BY <1>2 DEF LkPc, LkTyped
  <2>2. CASE conn' = [conn EXCEPT ![c].pc = "check"]
    <3>1. /\ conn' \in [Client -> LkConn] /\ \A d \in Client : d # c => conn'[d] = conn[d]
          /\ conn'[c].pc = "check" /\ conn'[c].logged = conn[c].logged /\ conn'[c].dead = conn[c].dead
      BY <1>2, <2>1, <2>2, LkGo
    <3> QED
      BY <2>1, <3>1, Zenon
  <2>3. CASE conn' = [conn EXCEPT ![c].pc = "gone"] /\ fan.by = None
    <3>1. /\ conn' \in [Client -> LkConn] /\ \A d \in Client : d # c => conn'[d] = conn[d]
          /\ conn'[c].pc = "gone" /\ conn'[c].logged = conn[c].logged /\ conn'[c].dead = conn[c].dead
      BY <1>2, <2>1, <2>3, LkGo
    <3> QED
      BY <2>3, <3>1, Zenon
  <2> QED
    BY <1>3, <2>2, <2>3, Zenon
<1>5. LkTyped'
  BY <1>1, <1>2, <1>3, <1>4 DEF LkTyped
<1>6. LkStop'
  <2>1. Link!Linked' \subseteq Link!Linked
    BY <1>2, <1>4 DEF Link!Linked
  <2>2. stopping' \in {"join", "drain", "shutdown", "wait", "freed"} => FALSE
    BY <1>1, <1>2 DEF LkStop
  <2>3. acceptor'.pc # "create"
    BY <1>1
  <2>4. stopping' = "freed" => stopping' \in {"join", "drain", "shutdown", "wait", "freed"}
    BY <1>1
  <2>5. stopping' \in {"shutdown", "wait", "freed"} => stopping' \in {"join", "drain", "shutdown", "wait", "freed"}
    OBVIOUS
  <2> QED
    BY <2>2, <2>3, <2>4, <2>5, Zenon DEF LkStop
<1>7. LkFan'
  <2>1. fan'.todo \subseteq Link!Linked'
    <3>1. CASE fan.by = None
      BY <1>1, <1>2, <3>1 DEF LkFan
    <3>2. CASE fan.by # None
      <4>1. conn'[c].pc = "check"
        BY <1>4, <3>2
      <4>2. Link!Linked \subseteq Link!Linked'
        BY <1>2, <1>4, <4>1 DEF Link!Linked
      <4> QED
        BY <1>1, <1>2, <4>2 DEF LkFan
    <3> QED
      BY <3>1, <3>2
  <2>2. fan.body # None => Link!Writable(fan.body)'
    <3> SUFFICES ASSUME fan.body # None PROVE Link!Writable(fan.body)'
      OBVIOUS
    <3>1. fan.body \in Client /\ Link!Writable(fan.body)
      BY <1>2 DEF LkFan, LkTyped
    <3> QED
      BY <1>1, <1>4, <3>1, Zenon DEF Link!Writable
  <2> QED
    BY <1>1, <1>2, <2>1, <2>2, Zenon DEF LkFan
<1>8. LkAt(c)'
  <2>1. LkGood(conn[c], up[c], client[c], down[c], fanned, LkBody(c), LkBehind(c))
    BY <1>2, LkAtOf
  <2>2. client[c].pc # "off"
    BY <1>2, <2>1 DEF LkGood, LkSession
  <2>3. LkGood(conn'[c], up[c], client[c], down[c], fanned, LkBody(c), LkBehind(c))
    BY <1>2, <1>4, <2>1, <2>2, LkConnOf, LkMoves
  <2>4. LkBody(c)' = LkBody(c) /\ LkBehind(c)' = LkBehind(c)
    BY <1>1, Zenon DEF LkBody, LkBehind
  <2> QED
    BY <1>1, <2>3, <2>4, Zenon DEF LkAt
<1>9. \A d \in Client : LkAt(d)'
  BY <1>1, <1>2, <1>4, <1>8, LkOthersAt
<1> QED
  BY <1>5, <1>6, <1>7, <1>9 DEF LkInv

\* Steps of conn_thread that leave the stream to the client alone.
LEMMA LkThreadStep ==
  ASSUME LkInv, NEW c \in Client, conn' \in [Client -> LkConn], \A d \in Client : d # c => conn'[d] = conn[d],
         conn[c].pc \notin {"none", "linked", "gone"}, conn'[c].pc \notin {"none", "linked"},
         conn'[c].pc = "gone" => fan.by = None, conn[c].logged => conn'[c].logged, conn'[c].dead = conn[c].dead,
         up' \in [Client -> {<<>>, <<"login">>, <<"wrong">>, <<"beat">>}], \A d \in Client : d # c => up'[d] = up[d],
         shut' \subseteq Client, UNCHANGED <<stopping, acceptor, down, left, pub, fan, client, fanned>>,
         LkGood(conn'[c], up'[c], client[c], down[c], fanned, LkBody(c), LkBehind(c))
  PROVE  LkInv'
<1>1. LkTyped /\ LkStop /\ LkFan
  BY DEF LkInv
<1>2. LkTyped'
  BY <1>1 DEF LkTyped
<1>3. fan.body # None => Len(down'[fan.body]) <= Room
  BY <1>1 DEF LkFan
<1>4. LkStop' /\ LkFan'
  BY <1>3, LkConnGoesOn
<1>5. LkAt(c)'
  <2>1. LkBody(c)' = LkBody(c) /\ LkBehind(c)' = LkBehind(c)
    BY Zenon DEF LkBody, LkBehind
  <2> QED
    BY <2>1, Zenon DEF LkAt
<1>6. \A d \in Client : LkAt(d)'
  BY <1>5, LkOthersAt
<1> QED
  BY <1>2, <1>4, <1>6 DEF LkInv

LEMMA LkLoopStep ==
  ASSUME LkInv, NEW c \in Client, Link!Loop(c) \/ Link!ReadFails(c) \/ Link!ConnRemove(c)
  PROVE  LkInv'
<1>1. PICK q \in {"remove", "read", "gone"} :
        /\ conn' = [conn EXCEPT ![c].pc = q] /\ conn[c].pc \in {"check", "read", "remove"}
        /\ q = "gone" => fan.by = None
        /\ conn[c].pc = "remove" => q = "gone"
  BY DEF Link!Loop, Link!ReadFails, Link!ConnRemove, Link!Unlink, Link!Go, Link!ListFree
<1>2. /\ UNCHANGED <<stopping, acceptor, up, down, left, pub, fan, client, fanned>>
      /\ shut' = shut \/ shut' = shut \cup {c}
  BY Zenon DEF Link!Loop, Link!ReadFails, Link!ConnRemove
<1>3. LkTyped /\ LkGood(conn[c], up[c], client[c], down[c], fanned, LkBody(c), LkBehind(c))
  BY LkAtOf
<1>4. /\ conn' \in [Client -> LkConn] /\ \A d \in Client : d # c => conn'[d] = conn[d]
      /\ conn'[c].pc = q /\ conn'[c].logged = conn[c].logged /\ conn'[c].dead = conn[c].dead
  <2>1. q \in LkPc /\ conn \in [Client -> LkConn]
    BY <1>3 DEF LkPc, LkTyped
  <2> QED
    BY <1>1, <2>1, LkGo
<1>5. client[c].pc # "off"
  BY <1>1, <1>3 DEF LkGood, LkSession
<1>6. LkGood(conn'[c], up'[c], client[c], down[c], fanned, LkBody(c), LkBehind(c))
  <2>1. conn[c] \in LkConn
    BY <1>3, LkConnOf
  <2> QED
    BY <1>1, <1>2, <1>3, <1>4, <1>5, <2>1, LkMoves
<1>7. /\ conn[c].pc \notin {"none", "linked", "gone"} /\ conn'[c].pc \notin {"none", "linked"}
      /\ conn'[c].pc = "gone" => fan.by = None
  BY <1>1, <1>4
<1>8. /\ up' \in [Client -> {<<>>, <<"login">>, <<"wrong">>, <<"beat">>}] /\ \A d \in Client : d # c => up'[d] = up[d]
      /\ shut' \subseteq Client
  BY <1>2, <1>3, Zenon DEF LkTyped
<1> QED
  BY <1>2, <1>4, <1>6, <1>7, <1>8, LkThreadStep

LEMMA LkReadStep ==
  ASSUME LkInv, NEW c \in Client, Link!Read(c)
  PROVE  LkInv'
<1>1. /\ conn[c].pc = "read" /\ up[c] # <<>> /\ up' = [up EXCEPT ![c] = Tail(@)]
      /\ UNCHANGED <<stopping, acceptor, down, shut, left, pub, fan, client, fanned>>
  BY DEF Link!Read
<1>2. LkTyped /\ LkGood(conn[c], up[c], client[c], down[c], fanned, LkBody(c), LkBehind(c)) /\ conn \in [Client -> LkConn]
  BY LkAtOf DEF LkTyped
<1>3. /\ up[c] \in {<<"login">>, <<"wrong">>, <<"beat">>}
      /\ up'[c] = <<>> /\ up' \in [Client -> {<<>>, <<"login">>, <<"wrong">>, <<"beat">>}]
      /\ \A d \in Client : d # c => up'[d] = up[d]
  <2>1. up[c] \in {<<"login">>, <<"wrong">>, <<"beat">>}
    BY <1>1, <1>2, LkConnOf
  <2>2. Tail(<<"login">>) = <<>> /\ Tail(<<"wrong">>) = <<>> /\ Tail(<<"beat">>) = <<>>
    OBVIOUS
  <2>3. Tail(up[c]) = <<>> /\ up \in [Client -> {<<>>, <<"login">>, <<"wrong">>, <<"beat">>}]
    BY <1>2, <2>1, <2>2, Zenon DEF LkTyped
  <2> QED
    BY <1>1, <2>1, <2>3, Zenon
<1>4. Head(<<"login">>) = "login" /\ Head(<<"wrong">>) = "wrong" /\ Head(<<"beat">>) = "beat"
  OBVIOUS
<1>5. LkConn = LkConn /\ conn[c] \in LkConn /\ client[c].pc # "off" /\ Room \in Nat
  BY <1>1, <1>2, LkConnOf, LkConstants DEF LkGood, LkSession
<1>6. /\ conn' \in [Client -> LkConn] /\ \A d \in Client : d # c => conn'[d] = conn[d]
      /\ conn'[c].pc \in {"ok", "fail", "check"} /\ conn'[c].dead = conn[c].dead /\ (conn[c].logged => conn'[c].logged)
      /\ LkGood(conn'[c], <<>>, client[c], down[c], fanned, LkBody(c), LkBehind(c))
  <2>1. CASE up[c] = <<"login">>
    <3>1. conn' = [conn EXCEPT ![c].pc = "ok", ![c].logged = TRUE]
      BY <1>4, <2>1, Zenon DEF Link!Read
    <3>2. /\ conn' \in [Client -> LkConn] /\ \A d \in Client : d # c => conn'[d] = conn[d]
          /\ conn'[c].pc = "ok" /\ conn'[c].logged = TRUE /\ conn'[c].dead = conn[c].dead
      BY <1>2, <3>1, Zenon DEF LkConn
    <3>3. LkGood(conn'[c], <<>>, client[c], down[c], fanned, LkBody(c), LkBehind(c))
      <4>1. conn'[c].pc = "ok" /\ conn'[c].logged /\ up[c] \in {<<"login">>, <<"wrong">>}
        BY <2>1, <3>2, Zenon
      <4> QED
        BY <1>1, <1>2, <1>5, <4>1, LkLogsIn, Zenon
    <3> QED
      BY <3>2, <3>3, Zenon
  <2>2. CASE up[c] = <<"wrong">>
    <3>1. conn' = [conn EXCEPT ![c].pc = "fail"]
      <4>1. "wrong" # "login"
        OBVIOUS
      <4> QED
        BY <1>4, <2>2, <4>1, Zenon DEF Link!Read, Link!Go
    <3>2. /\ conn' \in [Client -> LkConn] /\ \A d \in Client : d # c => conn'[d] = conn[d]
          /\ conn'[c].pc = "fail" /\ conn'[c].logged = conn[c].logged /\ conn'[c].dead = conn[c].dead
      <4>1. "fail" \in LkPc
        BY DEF LkPc
      <4> QED
        BY <1>2, <3>1, <4>1, LkGo
    <3>3. LkGood(conn'[c], <<>>, client[c], down[c], fanned, LkBody(c), LkBehind(c))
      <4>1. ~conn[c].logged
        BY <1>2, <2>2, Zenon DEF LkGood, LkSession
      <4>2. conn'[c].pc = "fail" /\ ~conn'[c].logged /\ up[c] \in {<<"login">>, <<"wrong">>}
        BY <2>2, <3>2, <4>1, Zenon
      <4> QED
        BY <1>1, <1>2, <1>5, <4>2, LkLogsIn, Zenon
    <3> QED
      BY <3>2, <3>3, Zenon
  <2>3. CASE up[c] = <<"beat">>
    <3>1. conn' = [conn EXCEPT ![c].pc = "check"]
      <4>1. "beat" # "login" /\ "beat" # "wrong"
        OBVIOUS
      <4> QED
        BY <1>4, <2>3, <4>1, Zenon DEF Link!Read, Link!Go
    <3>2. /\ conn' \in [Client -> LkConn] /\ \A d \in Client : d # c => conn'[d] = conn[d]
          /\ conn'[c].pc = "check" /\ conn'[c].logged = conn[c].logged /\ conn'[c].dead = conn[c].dead
      <4>1. "check" \in LkPc
        BY DEF LkPc
      <4> QED
        BY <1>2, <3>1, <4>1, LkGo
    <3>3. LkGood(conn'[c], <<>>, client[c], down[c], fanned, LkBody(c), LkBehind(c))
      <4>1. /\ conn[c].pc \notin {"ok", "fail", "gone", "remove"} /\ conn'[c].pc \in {"linked", "check", "read", "remove", "gone"}
            /\ conn'[c].pc # "linked"
        BY <1>1, <3>2
      <4> QED
        BY <1>2, <1>5, <3>2, <4>1, LkMoves
    <3> QED
      BY <3>2, <3>3, Zenon
  <2> QED
    BY <1>3, <2>1, <2>2, <2>3, Zenon
<1>7. /\ conn[c].pc \notin {"none", "linked", "gone"} /\ conn'[c].pc \notin {"none", "linked"}
      /\ conn'[c].pc # "gone" /\ shut' \subseteq Client
  BY <1>1, <1>2, <1>6 DEF LkTyped
<1>8. LkGood(conn'[c], up'[c], client[c], down[c], fanned, LkBody(c), LkBehind(c))
  BY <1>3, <1>6, Zenon
<1> QED
  BY <1>1, <1>3, <1>6, <1>7, <1>8, LkThreadStep

\* A message of the connection's own, to its client.
LEMMA LkAckStep ==
  ASSUME LkInv, NEW c \in Client, Link!Ack(c)
  PROVE  LkInv'
<1>1. /\ conn[c].pc \in {"ok", "fail"} /\ fan.body # c
      /\ conn' = [conn EXCEPT ![c].pc = IF conn[c].pc = "ok" THEN "check" ELSE "remove"]
      /\ UNCHANGED <<stopping, acceptor, up, shut, left, pub, fan, client, fanned>>
  BY DEF Link!Ack, Link!Go, Link!WriteLockFree
<1>2. LkTyped /\ LkFan /\ LkGood(conn[c], up[c], client[c], down[c], fanned, LkBody(c), LkBehind(c))
  BY LkAtOf
<1>3. /\ conn[c] \in LkConn /\ down[c] \in Seq(LkMsg) /\ client[c].got \in Seq(0 .. MaxEvents)
      /\ Room \in Nat \ {0} /\ fanned \in Seq(Link!Event) /\ conn \in [Client -> LkConn] /\ down \in [Client -> Seq(LkMsg)]
  BY <1>2, LkConnOf, LkConstants DEF LkTyped
<1>4. PICK m \in LkMsg :
        /\ m.kind \in {conn[c].pc, "torn"}
        /\ \/ down' = down
           \/ down' = [down EXCEPT ![c] = Append(@, m)] /\ (m.kind # "torn" => Len(down[c]) < Room)
  <2>1. /\ Link!Msg(conn[c].pc, 0) \in LkMsg /\ Link!Msg("torn", 0) \in LkMsg
        /\ Link!Msg(conn[c].pc, 0).kind = conn[c].pc /\ Link!Msg("torn", 0).kind = "torn"
    BY <1>1, LkConstants DEF Link!Msg, LkMsg
  <2>2. \/ down' = down
        \/ down' = [down EXCEPT ![c] = Append(@, Link!Msg("torn", 0))]
        \/ down' = [down EXCEPT ![c] = Append(@, Link!Msg(conn[c].pc, 0))] /\ Len(down[c]) < Room
    BY Zenon DEF Link!Ack
  <2>3. CASE down' = [down EXCEPT ![c] = Append(@, Link!Msg(conn[c].pc, 0))] /\ Len(down[c]) < Room
    BY <2>1, <2>3
  <2>4. CASE down' = down \/ down' = [down EXCEPT ![c] = Append(@, Link!Msg("torn", 0))]
    BY <2>1, <2>4
  <2> QED
    BY <2>2, <2>3, <2>4
<1>5. /\ conn' \in [Client -> LkConn] /\ \A d \in Client : d # c => conn'[d] = conn[d]
      /\ conn'[c].pc = (IF conn[c].pc = "ok" THEN "check" ELSE "remove")
      /\ conn'[c].logged = conn[c].logged /\ conn'[c].dead = conn[c].dead
  <2>1. (IF conn[c].pc = "ok" THEN "check" ELSE "remove") \in LkPc
    BY DEF LkPc
  <2> QED
    BY <1>1, <1>3, <2>1, LkGo
<1>6. /\ down' \in [Client -> Seq(LkMsg)] /\ \A d \in Client : d # c => down'[d] = down[d]
      /\ down'[c] = down[c] \/ (down'[c] = Append(down[c], m) /\ (m.kind # "torn" => Len(down[c]) < Room))
  <2>1. CASE down' = down
    BY <1>3, <2>1, Zenon
  <2>2. CASE down' = [down EXCEPT ![c] = Append(@, m)] /\ (m.kind # "torn" => Len(down[c]) < Room)
    <3>1. Append(down[c], m) \in Seq(LkMsg)
      BY <1>3
    <3> QED
      BY <1>3, <2>2, <3>1, Zenon
  <2> QED
    BY <1>4, <2>1, <2>2, Zenon
<1>7. LkTyped'
  BY <1>1, <1>2, <1>5, <1>6 DEF LkTyped
<1>8. LkStop' /\ LkFan'
  <2>1. fan.body # None => Len(down'[fan.body]) <= Room
    <3>1. fan.body # None => fan.body \in Client
      BY <1>2 DEF LkTyped
    <3> QED
      BY <1>1, <1>2, <1>6, <3>1 DEF LkFan
  <2>2. conn[c].pc \notin {"none", "linked", "gone"} /\ conn'[c].pc \notin {"none", "linked", "gone"}
    BY <1>1, <1>5
  <2> QED
    BY <1>1, <1>5, <2>1, <2>2, LkConnGoesOn
<1>9. LkGood(conn'[c], up[c], client[c], down'[c], fanned, LkBody(c), LkBehind(c))
  <2>1. CASE conn[c].pc = "ok"
    <3>1. /\ conn'[c].pc = "check"
          /\ down'[c] = down[c] \/ (down'[c] = Append(down[c], m) /\ m.kind \in {"ok", "torn"} /\ Len(down[c]) <= Room + 1 + LkOne(conn[c].dead))
      <4>1. Len(down[c]) <= Room + 1 + LkOne(conn[c].dead)
        <5>1. LkOne(conn[c].pc # "ok") = 0
          BY <2>1, Zenon DEF LkOne
        <5>2. Len(down[c]) <= Room + 1 + 0 + LkOne(conn[c].dead)
          BY <1>2, <5>1, Zenon DEF LkGood, LkSession
        <5>3. LkOne(conn[c].dead) \in {0, 1} /\ Len(down[c]) \in Nat
          BY <1>3, LkOneIs
        <5> QED
          BY <1>3, <5>2, <5>3
      <4> QED
        BY <1>4, <1>5, <1>6, <2>1, <4>1
    <3> QED
      BY <1>2, <1>3, <1>5, <2>1, <3>1, LkAcks, Zenon
  <2>2. CASE conn[c].pc = "fail"
    <3>1. /\ conn'[c].pc = "remove"
          /\ down'[c] = down[c] \/ (down'[c] = Append(down[c], m) /\ m.kind \in {"fail", "torn"})
      BY <1>4, <1>5, <1>6, <2>2
    <3> QED
      BY <1>2, <1>3, <1>5, <2>2, <3>1, LkRefuses, Zenon
  <2> QED
    BY <1>1, <2>1, <2>2
<1>10. LkAt(c)'
  <2>1. LkBody(c)' = LkBody(c) /\ LkBehind(c)' = LkBehind(c)
    BY <1>1, Zenon DEF LkBody, LkBehind
  <2> QED
    BY <1>1, <1>9, <2>1, Zenon DEF LkAt
<1>11. \A d \in Client : LkAt(d)'
  BY <1>1, <1>5, <1>6, <1>10, LkOthersAt
<1> QED
  BY <1>7, <1>8, <1>11 DEF LkInv

\* A step of a client: its end of the streams, and what it has received.
LEMMA LkClientStep ==
  ASSUME LkInv, NEW c \in Client, UNCHANGED Link!server, left' \subseteq Client,
         client' \in [Client -> LkClient], up' \in [Client -> {<<>>, <<"login">>, <<"wrong">>, <<"beat">>}],
         down' \in [Client -> Seq(LkMsg)], Len(down'[c]) <= Len(down[c]),
         \A d \in Client : d # c => up'[d] = up[d] /\ client'[d] = client[d] /\ down'[d] = down[d],
         LkGood(conn[c], up'[c], client'[c], down'[c], fanned, LkBody(c), LkBehind(c))
  PROVE  LkInv'
<1>1. UNCHANGED <<stopping, acceptor, conn, shut, pub, fan, fanned>>
  BY DEF Link!server
<1>2. LkTyped /\ LkStop /\ LkFan
  BY DEF LkInv
<1>3. LkTyped'
  BY <1>1, <1>2 DEF LkTyped
<1>4. LkStop'
  BY <1>1, <1>2, Zenon DEF LkStop, Link!Linked
<1>5. LkFan'
  <2>1. fan.body # None => Len(down'[fan.body]) <= Room
    <3> SUFFICES ASSUME fan.body # None PROVE Len(down'[fan.body]) <= Room
      OBVIOUS
    <3>1. fan.body \in Client /\ Len(down[fan.body]) <= Room
      BY <1>2 DEF LkTyped, LkFan
    <3>2. CASE fan.body # c
      BY <3>1, <3>2
    <3>3. CASE fan.body = c
      <4>1. \A a, b \in Nat : a <= b /\ b <= Room => a <= Room
        BY LkConstants
      <4>2. Len(down'[c]) \in Nat /\ Len(down[c]) \in Nat
        BY <1>2 DEF LkTyped
      <4> QED
        BY <3>1, <3>3, <4>1, <4>2, Zenon
    <3> QED
      BY <3>2, <3>3
  <2> QED
    BY <1>1, <1>2, <2>1, Zenon DEF LkFan, Link!Linked, Link!Writable
<1>6. LkAt(c)'
  <2>1. LkBody(c)' = LkBody(c) /\ LkBehind(c)' = LkBehind(c)
    BY <1>1, Zenon DEF LkBody, LkBehind
  <2> QED
    BY <1>1, <2>1, Zenon DEF LkAt
<1>7. \A d \in Client : LkAt(d)'
  BY <1>1, <1>6, LkOthersAt
<1> QED
  BY <1>3, <1>4, <1>5, <1>7 DEF LkInv

LEMMA LkConnectStep ==
  ASSUME LkInv, NEW c \in Client, Link!Connect(c) \/ Link!Heartbeat(c)
  PROVE  LkInv'
<1>1. LkTyped /\ LkGood(conn[c], up[c], client[c], down[c], fanned, LkBody(c), LkBehind(c))
  BY LkAtOf
<1>2. UNCHANGED <<Link!server, down, left>> /\ left \subseteq Client
  BY <1>1, Zenon DEF Link!Connect, Link!Heartbeat, LkTyped
<1>3. PICK t \in {<<"login">>, <<"wrong">>, <<"beat">>} :
        /\ up' = [up EXCEPT ![c] = t]
        /\ \/ client[c].pc = "off" /\ client' = [client EXCEPT ![c].pc = "login"] /\ t \in {<<"login">>, <<"wrong">>}
           \/ client[c].pc = "up" /\ client' = client /\ t = <<"beat">>
  <2>1. CASE Link!Connect(c)
    BY <2>1 DEF Link!Connect, Link!Turn
  <2>2. CASE Link!Heartbeat(c)
    BY <2>2 DEF Link!Heartbeat
  <2> QED
    BY <2>1, <2>2
<1>4. /\ up' \in [Client -> {<<>>, <<"login">>, <<"wrong">>, <<"beat">>}]
      /\ up'[c] = t /\ \A d \in Client : d # c => up'[d] = up[d]
  <2>1. up \in [Client -> {<<>>, <<"login">>, <<"wrong">>, <<"beat">>}]
    BY <1>1 DEF LkTyped
  <2> QED
    BY <1>3, <2>1, Zenon
<1>5. /\ client' \in [Client -> LkClient] /\ client'[c].got = client[c].got /\ \A d \in Client : d # c => client'[d] = client[d]
      /\ \/ client[c].pc = "off" /\ client'[c].pc = "login" /\ t \in {<<"login">>, <<"wrong">>}
         \/ client[c].pc = "up" /\ client'[c].pc = "up" /\ t = <<"beat">>
  <2>1. client \in [Client -> LkClient]
    BY <1>1 DEF LkTyped
  <2> QED
    BY <1>3, <2>1 DEF LkClient
<1>6. LkGood(conn[c], up'[c], client'[c], down[c], fanned, LkBody(c), LkBehind(c))
  BY <1>1, <1>4, <1>5, LkConnOf, LkSends
<1>7. /\ down' \in [Client -> Seq(LkMsg)] /\ Len(down'[c]) <= Len(down[c])
      /\ \A d \in Client : d # c => down'[d] = down[d]
  <2>1. Len(down[c]) \in Nat
    BY <1>1 DEF LkTyped
  <2>2. Len(down[c]) <= Len(down[c])
    BY <2>1
  <2> QED
    BY <1>1, <1>2, <2>2, Zenon DEF LkTyped
<1>8. LkGood(conn[c], up'[c], client'[c], down'[c], fanned, LkBody(c), LkBehind(c)) /\ UNCHANGED Link!server /\ left' \subseteq Client
  BY <1>2, <1>6, Zenon
<1> QED
  BY <1>4, <1>5, <1>7, <1>8, LkClientStep

LEMMA LkCloseStep ==
  ASSUME LkInv, NEW c \in Client, NEW q \in {"refused", "over"}, Link!Close(c, q), UNCHANGED <<Link!server, up>>
  PROVE  LkInv'
<1>1. LkTyped /\ LkGood(conn[c], up[c], client[c], down[c], fanned, LkBody(c), LkBehind(c))
  BY LkAtOf
<1>2. client \in [Client -> LkClient] /\ down \in [Client -> Seq(LkMsg)] /\ left \subseteq Client
  BY <1>1 DEF LkTyped
<1>3. /\ client' \in [Client -> LkClient] /\ client'[c].pc = q /\ client'[c].got = <<>>
      /\ \A d \in Client : d # c => client'[d] = client[d]
  <2>1. <<>> \in Seq(0 .. MaxEvents) /\ q \in {"off", "login", "up", "refused", "over"}
    OBVIOUS
  <2> QED
    BY <1>2, <2>1, Zenon DEF Link!Close, LkClient
<1>4. /\ down' \in [Client -> Seq(LkMsg)] /\ down'[c] = <<>> /\ \A d \in Client : d # c => down'[d] = down[d]
      /\ left' \subseteq Client
  <2>1. <<>> \in Seq(LkMsg)
    OBVIOUS
  <2> QED
    BY <1>2, <2>1, Zenon DEF Link!Close
<1>5. Len(down'[c]) <= Len(down[c])
  <2>1. Len(<<>>) = 0 /\ Len(down[c]) \in Nat
    BY <1>2
  <2>2. \A n \in Nat : 0 <= n
    OBVIOUS
  <2> QED
    BY <1>4, <2>1, <2>2, Zenon
<1>6. LkGood(conn[c], up[c], client'[c], <<>>, fanned, LkBody(c), LkBehind(c))
  <2>1. conn[c] \in LkConn /\ down[c] \in Seq(LkMsg)
    BY <1>1, LkConnOf
  <2> QED
    BY <1>1, <1>3, <2>1, LkCloses, Zenon
<1>7. /\ up' \in [Client -> {<<>>, <<"login">>, <<"wrong">>, <<"beat">>}] /\ \A d \in Client : d # c => up'[d] = up[d]
      /\ LkGood(conn[c], up'[c], client'[c], down'[c], fanned, LkBody(c), LkBehind(c))
  BY <1>1, <1>4, <1>6, Zenon DEF LkTyped
<1> QED
  BY <1>3, <1>4, <1>5, <1>7, LkClientStep

\* It takes a message off its stream, or two.
LEMMA LkTakeStep ==
  ASSUME LkInv, NEW c \in Client, UNCHANGED <<Link!server, up, left>>, NEW e \in Seq(LkMsg),
         Len(e) <= Len(down[c]), down' = [down EXCEPT ![c] = e],
         client' \in [Client -> LkClient], \A d \in Client : d # c => client'[d] = client[d],
         LkGood(conn[c], up[c], client'[c], e, fanned, LkBody(c), LkBehind(c))
  PROVE  LkInv'
<1>1. LkTyped
  BY DEF LkInv
<1>2. /\ down' \in [Client -> Seq(LkMsg)] /\ down'[c] = e /\ \A d \in Client : d # c => down'[d] = down[d]
  <2>1. down \in [Client -> Seq(LkMsg)]
    BY <1>1 DEF LkTyped
  <2> QED
    BY <2>1, Zenon
<1>3. /\ up' \in [Client -> {<<>>, <<"login">>, <<"wrong">>, <<"beat">>}] /\ \A d \in Client : d # c => up'[d] = up[d]
      /\ left' \subseteq Client /\ UNCHANGED Link!server
      /\ LkGood(conn[c], up'[c], client'[c], down'[c], fanned, LkBody(c), LkBehind(c)) /\ Len(down'[c]) <= Len(down[c])
  BY <1>1, <1>2, Zenon DEF LkTyped
<1> QED
  BY <1>2, <1>3, LkClientStep

LEMMA LkReadAnswerStep ==
  ASSUME LkInv, NEW c \in Client, Link!ReadAnswer(c)
  PROVE  LkInv'
<1>1. /\ client[c].pc = "login" /\ down[c] # <<>> /\ UNCHANGED <<Link!server, up>>
  BY DEF Link!ReadAnswer
<1>2. CASE Link!Close(c, "refused")
  BY <1>1, <1>2, LkCloseStep
<1>3. CASE /\ Head(down[c]).kind = "ok" /\ client' = [client EXCEPT ![c].pc = "up"]
           /\ down' = [down EXCEPT ![c] = Tail(@)] /\ UNCHANGED left
  <2>1. LkTyped /\ LkGood(conn[c], up[c], client[c], down[c], fanned, LkBody(c), LkBehind(c))
    BY LkAtOf
  <2>2. /\ conn[c] \in LkConn /\ down[c] \in Seq(LkMsg) /\ client[c].got \in Seq(0 .. MaxEvents) /\ fanned \in Seq(Link!Event)
        /\ client \in [Client -> LkClient]
    BY <2>1, LkConnOf DEF LkTyped
  <2>3. /\ client' \in [Client -> LkClient] /\ client'[c].pc = "up" /\ client'[c].got = client[c].got
        /\ \A d \in Client : d # c => client'[d] = client[d]
    BY <1>3, <2>2 DEF LkClient
  <2>4. down[c][1].kind = "ok" /\ Tail(down[c]) \in Seq(LkMsg) /\ Len(Tail(down[c])) <= Len(down[c])
    BY <1>1, <1>3, <2>2
  <2>5. LkGreeted(client[c], down[c])
    BY <1>1, <2>4, Zenon DEF LkGreeted
  <2>6. client'[c].got = (IF down[c][1].kind \in {"event", "head"} THEN Append(client[c].got, down[c][1].n) ELSE client[c].got)
    <3>1. "ok" \notin {"event", "head"}
      OBVIOUS
    <3> QED
      BY <2>3, <2>4, <3>1, Zenon
  <2>7. LkGood(conn[c], up[c], client'[c], Tail(down[c]), fanned, LkBody(c), LkBehind(c))
    BY <1>1, <2>1, <2>2, <2>3, <2>5, <2>6, LkReads
  <2> QED
    BY <1>1, <1>3, <2>3, <2>4, <2>7, LkTakeStep
<1> QED
  BY <1>2, <1>3 DEF Link!ReadAnswer, Link!Turn

LEMMA LkFirst ==
  \A d \in Seq(LkMsg) : d # <<>> =>
    /\ Head(d) = d[1] /\ d[1] \in LkMsg /\ d[1].n \in 0 .. MaxEvents
    /\ Tail(d) \in Seq(LkMsg) /\ Len(Tail(d)) = Len(d) - 1 /\ Len(d) \in Nat
    /\ Len(d) > 1 => Tail(d) # <<>> /\ Tail(d)[1] = d[2]
<1> SUFFICES ASSUME NEW d \in Seq(LkMsg), d # <<>>
             PROVE  /\ Head(d) = d[1] /\ d[1] \in LkMsg /\ d[1].n \in 0 .. MaxEvents
                    /\ Tail(d) \in Seq(LkMsg) /\ Len(Tail(d)) = Len(d) - 1 /\ Len(d) \in Nat
                    /\ Len(d) > 1 => Tail(d) # <<>> /\ Tail(d)[1] = d[2]
  OBVIOUS
<1>1. Head(d) = d[1] /\ d[1] \in LkMsg
  OBVIOUS
<1>2. d[1].n \in 0 .. MaxEvents
  BY <1>1 DEF LkMsg
<1>3. Tail(d) \in Seq(LkMsg) /\ Len(Tail(d)) = Len(d) - 1 /\ Len(d) \in Nat
  OBVIOUS
<1>4. Len(d) > 1 => Tail(d) # <<>> /\ Tail(d)[1] = d[2]
  <2> SUFFICES ASSUME Len(d) > 1 PROVE Tail(d) # <<>> /\ Tail(d)[1] = d[2]
    OBVIOUS
  <2>1. Len(Tail(d)) > 0 /\ 1 \in 1 .. Len(Tail(d)) /\ 1 + 1 = 2
    BY <1>3
  <2>2. \A i \in 1 .. Len(Tail(d)) : Tail(d)[i] = d[i + 1]
    OBVIOUS
  <2>3. Tail(d)[1] = d[2]
    BY <2>1, <2>2, Zenon
  <2>4. Tail(d) # <<>>
    BY <2>1
  <2> QED
    BY <2>3, <2>4
<1> QED
  BY <1>1, <1>2, <1>3, <1>4

LEMMA LkReceived ==
  ASSUME client \in [Client -> LkClient], NEW c \in Client, NEW s \in Seq(0 .. MaxEvents), client' = [client EXCEPT ![c].got = s]
  PROVE  /\ client' \in [Client -> LkClient] /\ client'[c].pc = client[c].pc /\ client'[c].got = s
         /\ \A d \in Client : d # c => client'[d] = client[d]
BY DEF LkClient

LEMMA LkReceiveStep ==
  ASSUME LkInv, NEW c \in Client, Link!Receive(c)
  PROVE  LkInv'
<1>1. /\ client[c].pc = "up" /\ down[c] # <<>> /\ UNCHANGED <<Link!server, up, left>>
      /\ client' = [client EXCEPT ![c].got = Append(@, Head(down[c]).n)]
      /\ \/ Head(down[c]).kind = "event" /\ down' = [down EXCEPT ![c] = Tail(@)]
         \/ /\ Head(down[c]).kind = "head" /\ Len(down[c]) > 1 /\ down[c][2].kind = "body"
            /\ down' = [down EXCEPT ![c] = Tail(Tail(@))]
  BY DEF Link!Receive
<1>2. LkTyped /\ LkGood(conn[c], up[c], client[c], down[c], fanned, LkBody(c), LkBehind(c))
  BY LkAtOf
<1>3. /\ conn[c] \in LkConn /\ down[c] \in Seq(LkMsg) /\ client[c].got \in Seq(0 .. MaxEvents) /\ fanned \in Seq(Link!Event)
      /\ client \in [Client -> LkClient]
  BY <1>2, LkConnOf DEF LkTyped
<1>4. Head(down[c]) = down[c][1] /\ down[c][1].n \in 0 .. MaxEvents
  BY <1>1, <1>3, LkFirst, Zenon
<1>5. /\ client' \in [Client -> LkClient] /\ client'[c].pc = "up" /\ client'[c].got = Append(client[c].got, down[c][1].n)
      /\ \A d \in Client : d # c => client'[d] = client[d]
  <2>1. Append(client[c].got, down[c][1].n) \in Seq(0 .. MaxEvents)
    BY <1>3, <1>4, LkGot, Zenon
  <2>2. client' = [client EXCEPT ![c].got = Append(@, down[c][1].n)]
    BY <1>1, <1>4, Zenon
  <2>3. PICK s \in Seq(0 .. MaxEvents) : s = Append(client[c].got, down[c][1].n)
    BY <2>1
  <2>4. client' = [client EXCEPT ![c].got = s]
    BY <2>2, <2>3, Zenon
  <2> QED
    BY <1>1, <1>3, <2>3, <2>4, LkReceived, Zenon
<1>6. down[c][1].kind \in {"event", "head"}
  BY <1>1, <1>4
<1>7. Tail(down[c]) \in Seq(LkMsg) /\ Len(Tail(down[c])) = Len(down[c]) - 1 /\ Len(down[c]) \in Nat
  BY <1>1, <1>3
<1>8. LkGood(conn[c], up[c], client'[c], Tail(down[c]), fanned, LkBody(c), LkBehind(c))
  <2>1. LkGreeted(client[c], down[c])
    BY <1>1, Zenon DEF LkGreeted
  <2>2. client'[c].got = (IF down[c][1].kind \in {"event", "head"} THEN Append(client[c].got, down[c][1].n) ELSE client[c].got)
    BY <1>5, <1>6, Zenon
  <2> QED
    BY <1>1, <1>2, <1>3, <1>5, <2>1, <2>2, LkReads
<1>9. CASE down' = [down EXCEPT ![c] = Tail(@)]
  <2>1. Len(Tail(down[c])) <= Len(down[c]) /\ down' = [down EXCEPT ![c] = Tail(down[c])]
    BY <1>7, <1>9
  <2> QED
    BY <1>1, <1>5, <1>7, <1>8, <2>1, LkTakeStep
<1>10. CASE Len(down[c]) > 1 /\ down[c][2].kind = "body" /\ down' = [down EXCEPT ![c] = Tail(Tail(@))]
  <2> DEFINE e == Tail(down[c])
  <2>1. /\ e # <<>> /\ e[1] = down[c][2] /\ Tail(e) \in Seq(LkMsg) /\ Len(Tail(e)) = Len(e) - 1 /\ e \in Seq(LkMsg)
        /\ down' = [down EXCEPT ![c] = Tail(e)]
    <3>1. /\ e # <<>> /\ e[1] = down[c][2] /\ e \in Seq(LkMsg)
      BY <1>1, <1>3, <1>10, LkFirst, Zenon
    <3>2. down' = [down EXCEPT ![c] = Tail(e)]
      BY <1>10
    <3> HIDE DEF e
    <3> QED
      BY <3>1, <3>2, LkFirst, Zenon
  <2>2. Len(Tail(e)) <= Len(down[c])
    BY <1>7, <2>1
  <2> HIDE DEF e
  <2>3. LkGreeted(client'[c], e)
    BY <1>5, Zenon DEF LkGreeted
  <2>4. client'[c].got = (IF e[1].kind \in {"event", "head"} THEN Append(client'[c].got, e[1].n) ELSE client'[c].got)
    <3>1. "body" \notin {"event", "head"}
      OBVIOUS
    <3> QED
      BY <1>10, <2>1, <3>1, Zenon
  <2>5. client'[c].got \in Seq(0 .. MaxEvents)
    BY <1>5 DEF LkClient
  <2>6. LkGood(conn[c], up[c], client'[c], e, fanned, LkBody(c), LkBehind(c))
    BY <1>8 DEF e
  <2>7. LkGood(conn[c], up[c], client'[c], Tail(e), fanned, LkBody(c), LkBehind(c))
    BY <1>3, <1>5, <2>1, <2>3, <2>4, <2>5, <2>6, LkReads
  <2> QED
    BY <1>1, <1>5, <2>1, <2>2, <2>7, LkTakeStep
<1> QED
  BY <1>1, <1>9, <1>10, Zenon

LEMMA LkPublishStep ==
  ASSUME LkInv, NEW p \in Publisher, Link!Publish(p)
  PROVE  LkInv'
<1>1. /\ pub[p] = None /\ stopping \in {"no", "flag", "join"} /\ Link!Published < MaxEvents
      /\ pub' = [pub EXCEPT ![p] = Link!Published + 1]
      /\ UNCHANGED <<stopping, acceptor, conn, up, down, shut, left, fan, client, fanned>>
  BY DEF Link!Publish
<1>2. LkTyped /\ LkStop /\ LkFan
  BY DEF LkInv
<1>3. Link!Published + 1 \in Link!Event
  <2> DEFINE S == {q \in Publisher : pub[q] # None /\ fan.by # q}
  <2>1. IsFiniteSet(S)
    BY LkConstants, FS_Subset
  <2>2. Link!Cardinality(S) \in Nat
    <3>1. Cardinality(S) \in Nat
      BY <2>1, FS_CardinalityType
    <3> QED
      BY <3>1, LkCounts, Zenon
  <2>3. Len(fanned) \in Nat
    BY <1>2 DEF LkTyped
  <2>4. Link!Published = Len(fanned) + Link!Cardinality(S)
    BY Zenon DEF Link!Published
  <2> QED
    BY <1>1, <2>2, <2>3, <2>4, LkConstants DEF Link!Event
<1>4. /\ pub' \in [Publisher -> Link!Event \cup {None}] /\ \A q \in Publisher : q # p => pub'[q] = pub[q]
      /\ fan.by # None => pub'[fan.by] = pub[fan.by]
  <2>1. pub \in [Publisher -> Link!Event \cup {None}] /\ fan.by \in Publisher \cup {None}
    BY <1>2 DEF LkTyped
  <2>2. fan.by # None => fan.by # p
    BY <1>1, <1>2 DEF LkFan
  <2> QED
    BY <1>1, <1>3, <2>1, <2>2
<1>5. LkTyped'
  BY <1>1, <1>2, <1>4 DEF LkTyped
<1>6. LkStop'
  <2>1. Link!Linked' = Link!Linked
    BY <1>1 DEF Link!Linked
  <2>2. stopping' \notin {"shutdown", "wait", "freed"}
    BY <1>1
  <2>3. stopping' # "freed"
    BY <1>1
  <2> QED
    BY <1>1, <1>2, <2>1, <2>2, <2>3, Zenon DEF LkStop
<1>7. LkFan'
  <2>1. Link!Linked' = Link!Linked
    BY <1>1 DEF Link!Linked
  <2> QED
    BY <1>1, <1>2, <1>4, <2>1, Zenon DEF LkFan, Link!Writable
<1>8. ASSUME NEW c \in Client PROVE LkAt(c)'
  <2>1. LkAt(c)
    BY DEF LkInv
  <2>2. LkBody(c)' = LkBody(c)
    <3>1. CASE fan.body = c
      <4>1. fan.by # None
        BY <1>2, <3>1, LkConstants DEF LkFan
      <4> QED
        BY <1>1, <1>4, <3>1, <4>1, Zenon DEF LkBody
    <3>2. CASE fan.body # c
      BY <1>1, <3>2, Zenon DEF LkBody
    <3> QED
      BY <3>1, <3>2
  <2>3. LkBehind(c)' = LkBehind(c)
    BY <1>1, Zenon DEF LkBehind
  <2> QED
    BY <1>1, <2>1, <2>2, <2>3, LkAtSame
<1> QED
  BY <1>5, <1>6, <1>7, <1>8 DEF LkInv

\* A connection that a fan-out does not come to is not open, or was come to.
LEMMA LkLockStep ==
  ASSUME LkInv, NEW p \in Publisher, Link!LockList(p)
  PROVE  LkInv'
<1>1. /\ pub[p] # None /\ fan.by = None
      /\ fan' = [by |-> p, todo |-> Link!Linked, body |-> None]
      /\ fanned' = Append(fanned, pub[p])
      /\ UNCHANGED <<stopping, acceptor, conn, up, down, shut, left, pub, client>>
  BY DEF Link!LockList, Link!ListFree
<1>2. LkTyped /\ LkStop /\ LkFan
  BY DEF LkInv
<1>3. pub[p] \in Link!Event /\ fanned \in Seq(Link!Event) /\ Link!Linked \in SUBSET Client
  BY <1>1, <1>2 DEF LkTyped, Link!Linked
<1>4. fanned' \in Seq(Link!Event) /\ fanned' # <<>> /\ fanned'[Len(fanned')] = pub[p]
  BY <1>1, <1>3
<1>5. fan' \in [by : Publisher \cup {None}, todo : SUBSET Client, body : Client \cup {None}]
  BY <1>1, <1>3
<1>6. LkTyped'
  BY <1>1, <1>2, <1>4, <1>5 DEF LkTyped
<1>7. Link!Linked' = Link!Linked
  BY <1>1 DEF Link!Linked
<1>8. LkStop'
  BY <1>1, <1>2, <1>7, Zenon DEF LkStop
<1>9. LkFan'
  <2>1. fan'.by = p /\ fan'.by # None /\ fan'.body = None /\ fan'.todo = Link!Linked
    BY <1>1, LkConstants
  <2> QED
    BY <1>1, <1>4, <1>7, <2>1 DEF LkFan
<1>10. ASSUME NEW c \in Client PROVE LkAt(c)'
  <2>1. LkGood(conn[c], up[c], client[c], down[c], fanned, LkBody(c), LkBehind(c))
    BY LkAtOf
  <2>2. c # None
    BY LkConstants
  <2>3. LkBody(c) = None /\ LkBody(c)' = None /\ LkBehind(c) = 0
    <3>1. fan.body = None /\ fan.todo = {} /\ fan'.body = None
      BY <1>1, <1>2 DEF LkFan
    <3> QED
      BY <2>2, <3>1, Zenon DEF LkBody, LkBehind, LkOne
  <2>4. LkOpen(conn[c]) => LkBehind(c)' = 1
    <3>1. LkOpen(conn[c]) => c \in Link!Linked
      BY DEF LkOpen, Link!Linked
    <3>2. fan'.todo = Link!Linked /\ fan'.body = None
      BY <1>1
    <3> QED
      BY <2>2, <3>1, <3>2, Zenon DEF LkBehind, LkOne
  <2>5. LkGood(conn[c], up[c], client[c], down[c], fanned, None, 0) /\ down[c] \in Seq(LkMsg) /\ client[c].got \in Seq(0 .. MaxEvents)
    BY <1>2, <2>1, <2>3, LkConnOf, Zenon
  <2>6. LkGood(conn[c], up[c], client[c], down[c], Append(fanned, pub[p]), None, LkBehind(c)')
    BY <1>3, <2>4, <2>5, LkBegins, Zenon
  <2> QED
    BY <1>1, <2>3, <2>6, Zenon DEF LkAt
<1> QED
  BY <1>6, <1>8, <1>9, <1>10 DEF LkInv

\* The fan-out is through with a connection.
LEMMA LkNextConn ==
  ASSUME LkTyped, NEW c \in Client, fan' = Link!NextConn(c)
  PROVE  /\ fan' \in [by : Publisher \cup {None}, todo : SUBSET Client, body : Client \cup {None}]
         /\ fan'.by = fan.by /\ fan'.todo = fan.todo \ {c} /\ fan'.body = None
BY DEF LkTyped, Link!NextConn

\* It is at a connection, which others are not concerned by.
LEMMA LkFanOthers ==
  ASSUME LkInv, NEW c \in Client, c \in fan.todo, fan.body \in {None, c}, UNCHANGED <<pub, fanned>>,
         fan'.todo \in {fan.todo, fan.todo \ {c}}, fan'.body \in {None, c},
         \A d \in Client : d # c => conn'[d] = conn[d] /\ up'[d] = up[d] /\ client'[d] = client[d] /\ down'[d] = down[d],
         LkGood(conn'[c], up'[c], client'[c], down'[c], fanned', LkBody(c)', LkBehind(c)')
  PROVE  \A d \in Client : LkAt(d)'
<1> SUFFICES ASSUME NEW d \in Client PROVE LkAt(d)'
  OBVIOUS
<1>1. CASE d = c
  BY <1>1, Zenon DEF LkAt
<1>2. CASE d # c
  <2>1. None # d
    BY LkConstants
  <2>2. fan.body # d /\ fan'.body # d /\ (d \in fan.todo <=> d \in fan'.todo)
    BY <1>2, <2>1
  <2>3. LkBody(d)' = LkBody(d) /\ LkBehind(d)' = LkBehind(d)
    BY <2>2, Zenon DEF LkBody, LkBehind
  <2>4. LkAt(d)
    BY DEF LkInv
  <2> QED
    BY <1>2, <2>3, <2>4, LkAtSame
<1> QED
  BY <1>1, <1>2

\* What is so when it comes to a connection, and what comes of a step that it makes there.
LEMMA LkAtConn ==
  ASSUME LkInv, NEW c \in Client, c \in fan.todo, fan.body \in {None, c}
  PROVE  /\ fan.by \in Publisher /\ fan.by # None /\ pub[fan.by] \in Link!Event /\ fanned # <<>> /\ fanned[Len(fanned)] = pub[fan.by]
         /\ conn[c] \in LkConn /\ down[c] \in Seq(LkMsg) /\ client[c].got \in Seq(0 .. MaxEvents) /\ fanned \in Seq(Link!Event)
         /\ conn[c].pc \notin {"none", "gone"} /\ c # None /\ LkTyped
         /\ LkGood(conn[c], up[c], client[c], down[c], fanned, LkBody(c), LkBehind(c))
         /\ LkBody(c) = (IF fan.body = None THEN None ELSE pub[fan.by])
         /\ LkBehind(c) = (IF fan.body = None THEN 1 ELSE 0)
<1>1. LkTyped /\ LkFan /\ LkGood(conn[c], up[c], client[c], down[c], fanned, LkBody(c), LkBehind(c))
  BY LkAtOf
<1>2. fan.by \in Publisher \cup {None} /\ fan.by # None
  BY <1>1 DEF LkFan, LkTyped
<1>3. pub[fan.by] \in Link!Event /\ fanned # <<>> /\ fanned[Len(fanned)] = pub[fan.by]
  BY <1>1, <1>2 DEF LkFan, LkTyped
<1>4. conn[c].pc \notin {"none", "gone"}
  BY <1>1 DEF LkFan, Link!Linked
<1>5. c # None
  BY LkConstants
<1>6. LkBody(c) = (IF fan.body = None THEN None ELSE pub[fan.by]) /\ LkBehind(c) = (IF fan.body = None THEN 1 ELSE 0)
  BY <1>5, Zenon DEF LkBody, LkBehind, LkOne
<1>7. fanned \in Seq(Link!Event)
  BY <1>1 DEF LkTyped
<1> QED
  BY <1>1, <1>2, <1>3, <1>4, <1>5, <1>6, <1>7, LkConnOf

LEMMA LkFanStep ==
  ASSUME LkInv, NEW c \in Client, c \in fan.todo, fan.body \in {None, c},
         fan' \in [by : Publisher \cup {None}, todo : SUBSET Client, body : Client \cup {None}], fan'.by = fan.by,
         \/ fan'.todo = fan.todo \ {c} /\ fan'.body = None
         \/ fan'.todo = fan.todo /\ fan'.body = c /\ Link!Writable(c)' /\ Len(down'[c]) <= Room,
         conn' \in [Client -> LkConn], conn'[c].pc = conn[c].pc, down' \in [Client -> Seq(LkMsg)],
         \A d \in Client : d # c => conn'[d] = conn[d] /\ down'[d] = down[d],
         UNCHANGED <<stopping, acceptor, up, shut, left, pub, client, fanned>>,
         LkGood(conn'[c], up'[c], client'[c], down'[c], fanned', LkBody(c)', LkBehind(c)')
  PROVE  LkInv'
<1>1. LkTyped /\ LkStop /\ LkFan
  BY DEF LkInv
<1>2. LkTyped'
  BY <1>1 DEF LkTyped
<1>3. \A d \in Client : conn'[d].pc = conn[d].pc
  OBVIOUS
<1>4. Link!Linked' = Link!Linked
  BY <1>3 DEF Link!Linked
<1>5. LkStop'
  BY <1>1, <1>3, <1>4, Zenon DEF LkStop
<1>6. fan.by # None
  BY <1>1 DEF LkFan
<1>7. fan'.todo \in {fan.todo, fan.todo \ {c}} /\ fan'.body \in {None, c}
  OBVIOUS
<1>8. LkFan'
  <2>1. fan'.todo \subseteq Link!Linked'
    BY <1>1, <1>4, <1>7 DEF LkFan
  <2>2. fan'.body # None => fan'.body \in fan'.todo /\ Link!Writable(fan.body)' /\ Len(down[fan.body])' <= Room
    <3>1. CASE fan'.body = None
      BY <3>1
    <3>2. CASE fan'.todo = fan.todo /\ fan'.body = c /\ Link!Writable(c)' /\ Len(down'[c]) <= Room
      BY <3>2, Zenon DEF Link!Writable
    <3> QED
      BY <3>1, <3>2
  <2> QED
    BY <1>1, <1>6, <2>1, <2>2, Zenon DEF LkFan
<1>9. \A d \in Client : LkAt(d)'
  <2>1. \A d \in Client : d # c => conn'[d] = conn[d] /\ up'[d] = up[d] /\ client'[d] = client[d] /\ down'[d] = down[d]
    OBVIOUS
  <2> QED
    BY <1>7, <2>1, LkFanOthers
<1> QED
  BY <1>2, <1>5, <1>8, <1>9 DEF LkInv

LEMMA LkSkipStep ==
  ASSUME LkInv, NEW c \in Client, Link!Skip(c)
  PROVE  LkInv'
<1>1. /\ c \in fan.todo /\ fan.body = None /\ ~Link!Writable(c) /\ fan' = Link!NextConn(c)
      /\ UNCHANGED <<stopping, acceptor, conn, up, down, shut, left, pub, client, fanned>>
  BY DEF Link!Skip
<1>2. /\ LkTyped /\ conn[c] \in LkConn /\ down[c] \in Seq(LkMsg) /\ c # None
      /\ LkGood(conn[c], up[c], client[c], down[c], fanned, LkBody(c), LkBehind(c)) /\ LkBody(c) = None
  BY <1>1, LkAtConn, Zenon
<1>3. /\ fan' \in [by : Publisher \cup {None}, todo : SUBSET Client, body : Client \cup {None}]
      /\ fan'.by = fan.by /\ fan'.todo = fan.todo \ {c} /\ fan'.body = None
  BY <1>1, <1>2, LkNextConn
<1>4. LkBody(c)' = None
  BY <1>2, <1>3, Zenon DEF LkBody
<1>5. ~LkOpen(conn[c])
  BY <1>1, Zenon DEF Link!Writable, LkOpen
<1>6. LkGood(conn[c], up[c], client[c], down[c], fanned, None, LkBehind(c)')
  BY <1>2, <1>5, LkDies, Zenon
<1>7. /\ LkGood(conn'[c], up'[c], client'[c], down'[c], fanned', LkBody(c)', LkBehind(c)')
      /\ conn' \in [Client -> LkConn] /\ down' \in [Client -> Seq(LkMsg)] /\ conn'[c].pc = conn[c].pc
      /\ \A d \in Client : d # c => conn'[d] = conn[d] /\ down'[d] = down[d]
  BY <1>1, <1>2, <1>4, <1>6, Zenon DEF LkTyped
<1> QED
  BY <1>1, <1>3, <1>7, LkFanStep

LEMMA LkMsgOf ==
  \A k \in {"event", "head", "body", "torn"}, e \in Link!Event : \E m \in LkMsg : m = Link!Msg(k, e) /\ m.n = e /\ m.kind = k
<1> SUFFICES ASSUME NEW k \in {"event", "head", "body", "torn"}, NEW e \in Link!Event
             PROVE  \E m \in LkMsg : m = Link!Msg(k, e) /\ m.n = e /\ m.kind = k
  OBVIOUS
<1>1. e \in 0 .. MaxEvents
  BY LkConstants DEF Link!Event
<1>2. Link!Msg(k, e) \in LkMsg /\ Link!Msg(k, e).n = e /\ Link!Msg(k, e).kind = k
  BY <1>1 DEF Link!Msg, LkMsg
<1> QED
  BY <1>2

\* The picture that the header in front of it tells of.
LEMMA LkPicture ==
  ASSUME NEW v \in LkConn, NEW u, NEW w, NEW d \in Seq(LkMsg), NEW m \in LkMsg, NEW f \in Seq(Link!Event), NEW a,
         LkGood(v, u, w, d, f, m.n, 0), w.got \in Seq(0 .. MaxEvents), ~v.dead, v.logged, m.kind = "body", Len(d) <= Room
  PROVE  LkGood(v, u, w, Append(d, m), f, a, 0)
BY LkRests

\* A message more in a stream.
LEMMA LkPut ==
  ASSUME down \in [Client -> Seq(LkMsg)], NEW c \in Client, NEW m \in LkMsg, down' = [down EXCEPT ![c] = Append(@, m)]
  PROVE  /\ down' \in [Client -> Seq(LkMsg)] /\ down'[c] = Append(down[c], m) /\ Len(down'[c]) = Len(down[c]) + 1
         /\ \A d \in Client : d # c => down'[d] = down[d]
<1>1. Append(down[c], m) \in Seq(LkMsg) /\ Len(Append(down[c], m)) = Len(down[c]) + 1
  BY LkLonger, Zenon
<1> QED
  BY <1>1, Zenon

LEMMA LkWriteHeadStep ==
  ASSUME LkInv, NEW c \in Client, Link!WriteHead(c)
  PROVE  LkInv'
<1> DEFINE k == IF pub[fan.by] \in Pictures THEN "head" ELSE "event"
<1>1. /\ c \in fan.todo /\ fan.body = None /\ Link!Writable(c) /\ Len(down[c]) < Room
      /\ down' = [down EXCEPT ![c] = Append(@, Link!Msg(k, pub[fan.by]))]
      /\ fan' = (IF pub[fan.by] \in Pictures THEN [fan EXCEPT !.body = c] ELSE Link!NextConn(c))
      /\ UNCHANGED <<stopping, acceptor, conn, up, shut, left, pub, client, fanned>>
  BY DEF Link!WriteHead
<1>2. /\ fan.by \in Publisher /\ pub[fan.by] \in Link!Event /\ fanned # <<>> /\ fanned[Len(fanned)] = pub[fan.by]
      /\ conn[c] \in LkConn /\ down[c] \in Seq(LkMsg) /\ client[c].got \in Seq(0 .. MaxEvents) /\ fanned \in Seq(Link!Event)
      /\ conn[c].pc \notin {"none", "gone"} /\ c # None /\ LkTyped
      /\ LkGood(conn[c], up[c], client[c], down[c], fanned, None, 1)
  BY <1>1, LkAtConn, Zenon
<1>3. PICK e \in Link!Event : e = pub[fan.by]
  BY <1>2
<1>4. PICK m \in LkMsg : m = Link!Msg(k, e) /\ m.n = e /\ m.kind = k
  <2>1. k \in {"event", "head", "body", "torn"}
    OBVIOUS
  <2>2. \A q \in {"event", "head", "body", "torn"} : \E m \in LkMsg : m = Link!Msg(q, e) /\ m.n = e /\ m.kind = q
    BY LkMsgOf
  <2> HIDE DEF k
  <2> QED
    BY <2>1, <2>2
<1>5. m.kind \in {"event", "head"} /\ (m.kind = "head" <=> e \in Pictures)
  BY <1>3, <1>4
<1>6. /\ down' \in [Client -> Seq(LkMsg)] /\ down'[c] = Append(down[c], m) /\ Len(down'[c]) = Len(down[c]) + 1
      /\ \A d \in Client : d # c => down'[d] = down[d]
  <2>1. down \in [Client -> Seq(LkMsg)]
    BY <1>2 DEF LkTyped
  <2>2. down' = [down EXCEPT ![c] = Append(@, m)]
    BY <1>1, <1>3, <1>4, Zenon
  <2> QED
    BY <2>1, <2>2, LkPut, Zenon
<1> HIDE DEF k
<1>7. /\ fan' \in [by : Publisher \cup {None}, todo : SUBSET Client, body : Client \cup {None}] /\ fan'.by = fan.by
      /\ e \in Pictures => fan'.todo = fan.todo /\ fan'.body = c
      /\ e \notin Pictures => fan'.todo = fan.todo \ {c} /\ fan'.body = None
  <2>1. CASE e \in Pictures
    <3>1. fan' = [fan EXCEPT !.body = c]
      BY <1>1, <1>3, <2>1
    <3> QED
      BY <1>2, <2>1, <3>1 DEF LkTyped
  <2>2. CASE e \notin Pictures
    <3>1. fan' = Link!NextConn(c)
      BY <1>1, <1>3, <2>2
    <3> QED
      BY <1>2, <2>2, <3>1, LkNextConn, Zenon
  <2> QED
    BY <2>1, <2>2
<1>8. LkOpen(conn[c]) /\ Link!Writable(c)'
  BY <1>1, <1>2, Zenon DEF LkOpen, Link!Writable
<1>9. LkBody(c)' = (IF e \in Pictures THEN e ELSE None) /\ LkBehind(c)' = 0
  <2>1. pub'[fan'.by] = e
    BY <1>1, <1>3, <1>7, Zenon
  <2>2. c \notin fan.todo \ {c}
    OBVIOUS
  <2> QED
    BY <1>2, <1>7, <2>1, <2>2, Zenon DEF LkBody, LkBehind, LkOne
<1>10. LkGood(conn[c], up[c], client[c], Append(down[c], m), fanned, LkBody(c)', 0)
  <2>1. m.n = fanned[Len(fanned)] /\ (m.kind = "head" => LkBody(c)' = m.n)
    BY <1>2, <1>3, <1>4, <1>5, <1>9, Zenon
  <2> QED
    BY <1>1, <1>2, <1>5, <1>8, <2>1, LkWrites, Zenon
<1>11. /\ LkGood(conn'[c], up'[c], client'[c], down'[c], fanned', LkBody(c)', LkBehind(c)')
       /\ conn' \in [Client -> LkConn] /\ conn'[c].pc = conn[c].pc
       /\ \A d \in Client : d # c => conn'[d] = conn[d] /\ down'[d] = down[d]
  BY <1>1, <1>2, <1>6, <1>9, <1>10, Zenon DEF LkTyped
<1>12. Len(down'[c]) <= Room
  <2>1. Len(down[c]) \in Nat /\ Room \in Nat
    BY <1>2, LkConstants
  <2> QED
    BY <1>1, <1>6, <2>1
<1>13. \/ fan'.todo = fan.todo \ {c} /\ fan'.body = None
       \/ fan'.todo = fan.todo /\ fan'.body = c /\ Link!Writable(c)' /\ Len(down'[c]) <= Room
  BY <1>7, <1>8, <1>12, Zenon
<1> QED
  BY <1>1, <1>6, <1>7, <1>11, <1>13, LkFanStep

LEMMA LkWriteBodyStep ==
  ASSUME LkInv, NEW c \in Client, Link!WriteBody(c)
  PROVE  LkInv'
<1>0. c # None
  BY LkConstants
<1>1. /\ fan.body = c /\ down' = [down EXCEPT ![c] = Append(@, Link!Msg("body", pub[fan.by]))] /\ fan' = Link!NextConn(c)
      /\ UNCHANGED <<stopping, acceptor, conn, up, shut, left, pub, client, fanned>>
  BY DEF Link!WriteBody
<1>2. c \in fan.todo /\ Link!Writable(c) /\ Len(down[c]) <= Room
  BY <1>0, <1>1 DEF LkInv, LkFan
<1>3. /\ fan.by \in Publisher /\ pub[fan.by] \in Link!Event
      /\ conn[c] \in LkConn /\ down[c] \in Seq(LkMsg) /\ client[c].got \in Seq(0 .. MaxEvents) /\ fanned \in Seq(Link!Event)
      /\ LkTyped /\ LkGood(conn[c], up[c], client[c], down[c], fanned, pub[fan.by], 0)
  BY <1>0, <1>1, <1>2, LkAtConn, Zenon
<1>4. PICK e \in Link!Event : e = pub[fan.by]
  BY <1>3
<1>5. PICK m \in LkMsg : m = Link!Msg("body", e) /\ m.n = e /\ m.kind = "body"
  BY LkMsgOf
<1>6. /\ down' \in [Client -> Seq(LkMsg)] /\ down'[c] = Append(down[c], m)
      /\ \A d \in Client : d # c => down'[d] = down[d]
  <2>1. down \in [Client -> Seq(LkMsg)]
    BY <1>3 DEF LkTyped
  <2>2. down' = [down EXCEPT ![c] = Append(@, m)]
    BY <1>1, <1>4, <1>5, Zenon
  <2> QED
    BY <2>1, <2>2, LkPut, Zenon
<1>7. /\ fan' \in [by : Publisher \cup {None}, todo : SUBSET Client, body : Client \cup {None}]
      /\ fan'.by = fan.by /\ fan'.todo = fan.todo \ {c} /\ fan'.body = None
  BY <1>1, <1>3, LkNextConn
<1>8. LkBehind(c)' = 0
  <2>1. c \notin fan.todo \ {c}
    OBVIOUS
  <2> QED
    BY <1>7, <2>1, Zenon DEF LkBehind, LkOne
<1>9. LkGood(conn[c], up[c], client[c], Append(down[c], m), fanned, LkBody(c)', 0)
  <2>1. pub[fan.by] = m.n /\ conn[c].logged /\ ~conn[c].dead
    BY <1>2, <1>4, <1>5, Zenon DEF Link!Writable
  <2>2. LkGood(conn[c], up[c], client[c], down[c], fanned, m.n, 0)
    BY <1>3, <2>1, Zenon
  <2> QED
    BY <1>2, <1>3, <1>5, <2>1, <2>2, LkPicture, Zenon
<1>10. /\ LkGood(conn'[c], up'[c], client'[c], down'[c], fanned', LkBody(c)', LkBehind(c)')
       /\ conn' \in [Client -> LkConn] /\ conn'[c].pc = conn[c].pc
       /\ \A d \in Client : d # c => conn'[d] = conn[d] /\ down'[d] = down[d]
  BY <1>1, <1>3, <1>6, <1>8, <1>9, Zenon DEF LkTyped
<1> QED
  BY <1>1, <1>2, <1>6, <1>7, <1>10, LkFanStep

LEMMA LkWriteFailsStep ==
  ASSUME LkInv, NEW c \in Client, Link!WriteFails(c)
  PROVE  LkInv'
<1>1. /\ c \in fan.todo /\ fan.body \in {None, c} /\ Link!Writable(c) /\ fan' = Link!NextConn(c)
      /\ down' = down \/ down' = [down EXCEPT ![c] = Append(@, Link!Msg("torn", pub[fan.by]))]
      /\ conn' = [conn EXCEPT ![c].dead = TRUE]
      /\ UNCHANGED <<stopping, acceptor, up, shut, left, pub, client, fanned>>
  BY Zenon DEF Link!WriteFails, Link!Dies
<1>2. /\ fan.by \in Publisher /\ pub[fan.by] \in Link!Event
      /\ conn[c] \in LkConn /\ down[c] \in Seq(LkMsg) /\ client[c].got \in Seq(0 .. MaxEvents) /\ fanned \in Seq(Link!Event)
      /\ LkTyped /\ LkGood(conn[c], up[c], client[c], down[c], fanned, LkBody(c), LkBehind(c))
      /\ LkBody(c) \in {None, pub[fan.by]}
  BY <1>1, LkAtConn, Zenon
<1>3. PICK e \in Link!Event : e = pub[fan.by]
  BY <1>2
<1>4. PICK m \in LkMsg : m = Link!Msg("torn", e) /\ m.n = e /\ m.kind = "torn"
  BY LkMsgOf
<1>5. /\ conn' \in [Client -> LkConn] /\ \A d \in Client : d # c => conn'[d] = conn[d]
      /\ conn'[c].pc = conn[c].pc /\ conn'[c].logged = conn[c].logged /\ conn'[c].dead = TRUE
  <2>1. conn \in [Client -> LkConn]
    BY <1>2 DEF LkTyped
  <2> QED
    BY <1>1, <2>1, Zenon DEF LkConn
<1>6. /\ down' \in [Client -> Seq(LkMsg)] /\ \A d \in Client : d # c => down'[d] = down[d]
      /\ down'[c] = down[c] \/ down'[c] = Append(down[c], m)
  <2>1. down \in [Client -> Seq(LkMsg)]
    BY <1>2 DEF LkTyped
  <2>2. CASE down' = down
    BY <2>1, <2>2, Zenon
  <2>3. CASE down' = [down EXCEPT ![c] = Append(@, Link!Msg("torn", pub[fan.by]))]
    <3>1. down' = [down EXCEPT ![c] = Append(@, m)]
      BY <1>3, <1>4, <2>3, Zenon
    <3> QED
      BY <2>1, <3>1, LkPut, Zenon
  <2> QED
    BY <1>1, <2>2, <2>3, Zenon
<1>7. /\ fan' \in [by : Publisher \cup {None}, todo : SUBSET Client, body : Client \cup {None}]
      /\ fan'.by = fan.by /\ fan'.todo = fan.todo \ {c} /\ fan'.body = None
  BY <1>1, <1>2, LkNextConn
<1>8. LkGood(conn'[c], up[c], client[c], down'[c], fanned, LkBody(c)', LkBehind(c)')
  <2>1. CASE down'[c] = down[c]
    <3>1. ~LkOpen(conn'[c]) /\ conn'[c].dead
      BY <1>5, Zenon DEF LkOpen
    <3>2. LkGood(conn'[c], up[c], client[c], down[c], fanned, LkBody(c)', LkBehind(c)')
      BY <1>2, <1>5, <3>1, LkDies, Zenon
    <3> QED
      BY <2>1, <3>2, Zenon
  <2>2. CASE down'[c] = Append(down[c], m)
    <3>1. LkBody(c) \in {None, m.n} /\ conn[c].logged /\ ~conn[c].dead /\ conn'[c].dead
      BY <1>1, <1>2, <1>3, <1>4, <1>5, Zenon DEF Link!Writable
    <3>2. LkGood(conn'[c], up[c], client[c], Append(down[c], m), fanned, LkBody(c)', LkBehind(c)')
      BY <1>2, <1>4, <1>5, <3>1, LkRests, Zenon
    <3> QED
      BY <2>2, <3>2, Zenon
  <2> QED
    BY <1>6, <2>1, <2>2
<1>9. LkGood(conn'[c], up'[c], client'[c], down'[c], fanned', LkBody(c)', LkBehind(c)')
  BY <1>1, <1>8, Zenon
<1> QED
  BY <1>1, <1>5, <1>6, <1>7, <1>9, LkFanStep

LEMMA LkUnlockStep ==
  ASSUME LkInv, Link!UnlockList
  PROVE  LkInv'
<1>1. /\ fan.by # None /\ fan.todo = {} /\ fan' = [by |-> None, todo |-> {}, body |-> None]
      /\ pub' = [pub EXCEPT ![fan.by] = None]
      /\ UNCHANGED <<stopping, acceptor, conn, up, down, shut, left, client, fanned>>
  BY DEF Link!UnlockList, Link!Nobody
<1>2. LkTyped /\ LkStop /\ LkFan
  BY DEF LkInv
<1>3. fan.body = None /\ fan'.by = None /\ fan'.todo = {} /\ fan'.body = None
  BY <1>1, <1>2 DEF LkFan
<1>4. /\ pub' \in [Publisher -> Link!Event \cup {None}]
      /\ (\A p \in Publisher : pub[p] = None) => \A p \in Publisher : pub'[p] = None
  <2>1. pub \in [Publisher -> Link!Event \cup {None}]
    BY <1>2 DEF LkTyped
  <2> QED
    BY <1>1, <2>1, Zenon
<1>5. LkTyped'
  <2>1. fan' \in [by : Publisher \cup {None}, todo : SUBSET Client, body : Client \cup {None}]
    BY <1>1
  <2> QED
    BY <1>1, <1>2, <1>4, <2>1 DEF LkTyped
<1>6. Link!Linked' = Link!Linked
  BY <1>1 DEF Link!Linked
<1>7. LkStop'
  BY <1>1, <1>2, <1>4, <1>6, Zenon DEF LkStop
<1>8. LkFan'
  BY <1>3 DEF LkFan
<1>9. ASSUME NEW c \in Client PROVE LkAt(c)'
  <2>1. LkBody(c)' = LkBody(c) /\ LkBehind(c)' = LkBehind(c)
    <3>1. c # None
      BY LkConstants
    <3> QED
      BY <1>1, <1>3, <3>1, Zenon DEF LkBody, LkBehind
  <2>2. LkAt(c)
    BY DEF LkInv
  <2> QED
    BY <1>1, <2>1, <2>2, LkAtSame
<1> QED
  BY <1>5, <1>7, <1>8, <1>9 DEF LkInv

LEMMA LkStopStep ==
  ASSUME LkInv, Link!Stop
  PROVE  LkInv'
<1>1. /\ Link!StopAdvance /\ UNCHANGED <<acceptor, up, down, left, pub, fan, client, fanned>>
  BY DEF Link!Stop
<1>2. LkTyped /\ LkStop /\ LkFan
  BY DEF LkInv
<1>3. CASE conn' = conn /\ shut' \in SUBSET Client
  <2>1. /\ stopping' \in {"no", "flag", "join", "drain", "shutdown", "wait", "freed"}
        /\ stopping' \in {"join", "drain", "shutdown", "wait", "freed"} => acceptor.pc = "gone"
        /\ stopping' \in {"shutdown", "wait", "freed"} => \A p \in Publisher : pub[p] = None
        /\ stopping' = "freed" => Link!Linked = {}
    BY <1>1, <1>2 DEF Link!StopAdvance, Link!Joined, Link!Drained, LkStop
  <2>2. LkTyped'
    BY <1>1, <1>2, <1>3, <2>1 DEF LkTyped
  <2>3. Link!Linked' = Link!Linked
    BY <1>3 DEF Link!Linked
  <2>4. LkStop'
    BY <1>1, <1>2, <1>3, <2>1, <2>3, Zenon DEF LkStop
  <2>5. LkFan'
    BY <1>1, <1>2, <1>3, <2>3, Zenon DEF LkFan, Link!Writable
  <2>6. ASSUME NEW c \in Client PROVE LkAt(c)'
    <3>1. LkBody(c)' = LkBody(c) /\ LkBehind(c)' = LkBehind(c)
      BY <1>1, Zenon DEF LkBody, LkBehind
    <3>2. LkAt(c)
      BY DEF LkInv
    <3> QED
      BY <1>1, <1>3, <3>1, <3>2, LkAtSame
  <2> QED
    BY <2>2, <2>4, <2>5, <2>6 DEF LkInv
<1>4. CASE /\ stopping = "shutdown" /\ fan.by = None /\ stopping' = "wait"
           /\ conn' = [c \in Client |-> IF c \in Link!Linked THEN [conn[c] EXCEPT !.dead = TRUE] ELSE conn[c]]
           /\ shut' = shut \cup Link!Linked
  <2>1. /\ conn' \in [Client -> LkConn]
        /\ \A c \in Client : /\ conn'[c].pc = conn[c].pc /\ conn'[c].logged = conn[c].logged
                             /\ conn'[c] = conn[c] \/ conn'[c].dead
                             /\ conn[c].pc \notin {"none", "gone"} => conn'[c].dead
    <3>1. conn \in [Client -> LkConn]
      BY <1>2 DEF LkTyped
    <3>2. ASSUME NEW c \in Client
          PROVE  /\ conn'[c] \in LkConn /\ conn'[c].pc = conn[c].pc /\ conn'[c].logged = conn[c].logged
                 /\ conn'[c] = conn[c] \/ conn'[c].dead
                 /\ conn[c].pc \notin {"none", "gone"} => conn'[c].dead
      <4>1. c \in Link!Linked <=> conn[c].pc \notin {"none", "gone"}
        BY DEF Link!Linked
      <4>2. CASE c \in Link!Linked
        <5>1. conn'[c] = [conn[c] EXCEPT !.dead = TRUE] /\ conn[c] \in LkConn
          BY <1>4, <3>1, <4>2, Zenon
        <5> QED
          BY <5>1, Zenon DEF LkConn
      <4>3. CASE c \notin Link!Linked
        <5>1. conn'[c] = conn[c] /\ conn[c] \in LkConn
          BY <1>4, <3>1, <4>3, Zenon
        <5> QED
          BY <4>1, <4>3, <5>1, Zenon
      <4> QED
        BY <4>2, <4>3
    <3>3. conn' = [c \in Client |-> conn'[c]]
      BY <1>4, Zenon
    <3> QED
      BY <3>2, <3>3, Zenon
  <2>2. Link!Linked' = Link!Linked /\ Link!Linked \subseteq Client
    BY <2>1 DEF Link!Linked
  <2>3. LkTyped'
    BY <1>1, <1>2, <1>4, <2>1, <2>2 DEF LkTyped
  <2>4. LkStop'
    <3>1. acceptor.pc = "gone" /\ \A p \in Publisher : pub[p] = None
      BY <1>2, <1>4 DEF LkStop
    <3> QED
      BY <1>1, <1>4, <3>1 DEF LkStop
  <2>5. LkFan'
    BY <1>1, <1>2, <1>4 DEF LkFan
  <2>6. ASSUME NEW c \in Client PROVE LkAt(c)'
    <3>1. LkBody(c)' = LkBody(c) /\ LkBehind(c)' = LkBehind(c)
      BY <1>1, Zenon DEF LkBody, LkBehind
    <3>2. CASE conn'[c] = conn[c]
      <4>1. LkAt(c)
        BY DEF LkInv
      <4> QED
        BY <1>1, <3>1, <3>2, <4>1, LkAtSame
    <3>3. CASE conn'[c].dead
      <4>1. LkGood(conn[c], up[c], client[c], down[c], fanned, LkBody(c), LkBehind(c)) /\ conn[c] \in LkConn /\ down[c] \in Seq(LkMsg)
        BY LkAtOf, LkConnOf
      <4>2. ~LkOpen(conn'[c])
        BY <3>3, Zenon DEF LkOpen
      <4>3. LkGood(conn'[c], up[c], client[c], down[c], fanned, LkBody(c), LkBehind(c))
        BY <2>1, <3>3, <4>1, <4>2, LkDies, Zenon
      <4> QED
        BY <1>1, <3>1, <4>3, Zenon DEF LkAt
    <3> QED
      BY <2>1, <3>2, <3>3
  <2> QED
    BY <2>3, <2>4, <2>5, <2>6 DEF LkInv
<1>5. \/ conn' = conn /\ shut' \in SUBSET Client
      \/ /\ stopping = "shutdown" /\ fan.by = None /\ stopping' = "wait"
         /\ conn' = [c \in Client |-> IF c \in Link!Linked THEN [conn[c] EXCEPT !.dead = TRUE] ELSE conn[c]]
         /\ shut' = shut \cup Link!Linked
  <2>1. shut \in SUBSET Client
    BY <1>2 DEF LkTyped
  <2> QED
    BY <1>1, <2>1, Zenon DEF Link!StopAdvance, Link!ListFree
<1> QED
  BY <1>3, <1>4, <1>5

LEMMA LkStep == ASSUME LkInv, Link!Next PROVE LkInv'
<1>1. CASE Link!Start \/ Link!Check \/ Link!SelectTimeout \/ Link!Detach
  BY <1>1, LkStarting
<1>2. CASE Link!Create \/ Link!CreateFails
  BY <1>2, LkCreateStep
<1>3. CASE Link!UnlockList
  BY <1>3, LkUnlockStep
<1>4. CASE Link!Stop
  BY <1>4, LkStopStep
<1>5. ASSUME NEW p \in Publisher, Link!Publish(p) \/ Link!LockList(p) PROVE LkInv'
  BY <1>5, LkPublishStep, LkLockStep
<1>6. ASSUME NEW c \in Client, Link!Accept(c) PROVE LkInv'
  BY <1>6, LkAcceptStep
<1>7. ASSUME NEW c \in Client, Link!Skip(c) \/ Link!WriteHead(c) \/ Link!WriteBody(c) \/ Link!WriteFails(c) PROVE LkInv'
  BY <1>7, LkSkipStep, LkWriteHeadStep, LkWriteBodyStep, LkWriteFailsStep
<1>8. ASSUME NEW c \in Client, Link!Conn(c) PROVE LkInv'
  BY <1>8, LkLoopStep, LkReadStep, LkAckStep DEF Link!Conn
<1>9. ASSUME NEW c \in Client, Link!HangUp(c) PROVE LkInv'
  <2>1. Link!Close(c, "over") /\ UNCHANGED <<Link!server, up>>
    BY <1>9 DEF Link!HangUp
  <2> QED
    BY <2>1, LkCloseStep
<1>10. ASSUME NEW c \in Client, Link!Receiver(c) \/ Link!Connect(c) PROVE LkInv'
  BY <1>9, <1>10, LkReadAnswerStep, LkReceiveStep, LkConnectStep DEF Link!Receiver
<1> QED
  BY <1>1, <1>2, <1>3, <1>4, <1>5, <1>6, <1>7, <1>8, <1>9, <1>10, Zenon DEF Link!Next, Link!Acceptor, Link!Fan

-----------------------------------------------------------------------------
LEMMA LkInit == Link!Init => LkInv
<1> SUFFICES ASSUME Link!Init PROVE LkInv
  OBVIOUS
<1>1. /\ stopping = "no" /\ acceptor = [pc |-> "off", conn |-> None]
      /\ conn = [c \in Client |-> [pc |-> "none", logged |-> FALSE, dead |-> FALSE]]
      /\ up = [c \in Client |-> <<>>] /\ down = [c \in Client |-> <<>>] /\ shut = {} /\ left = {}
      /\ pub = [p \in Publisher |-> None] /\ fan = [by |-> None, todo |-> {}, body |-> None]
      /\ client = [c \in Client |-> [pc |-> "off", got |-> <<>>]] /\ fanned = <<>>
  BY DEF Link!Init, Link!Nobody
<1>2. LkTyped
  <2>1. conn \in [Client -> LkConn] /\ client \in [Client -> LkClient] /\ down \in [Client -> Seq(LkMsg)]
    BY <1>1 DEF LkConn, LkClient
  <2>2. fan \in [by : Publisher \cup {None}, todo : SUBSET Client, body : Client \cup {None}]
    BY <1>1
  <2>3. acceptor \in [pc : {"off", "check", "select", "create", "detach", "gone"}, conn : Client \cup {None}]
    BY <1>1
  <2>4. pub \in [Publisher -> Link!Event \cup {None}] /\ fanned \in Seq(Link!Event)
    BY <1>1
  <2>5. up \in [Client -> {<<>>, <<"login">>, <<"wrong">>, <<"beat">>}]
    BY <1>1
  <2> QED
    BY <1>1, <2>1, <2>2, <2>3, <2>4, <2>5 DEF LkTyped
<1>3. LkStop /\ LkFan
  BY <1>1 DEF LkStop, LkFan
<1>4. ASSUME NEW c \in Client PROVE LkAt(c)
  <2>1. /\ conn[c].pc = "none" /\ conn[c].logged = FALSE /\ conn[c].dead = FALSE /\ up[c] = <<>> /\ down[c] = <<>>
        /\ client[c].pc = "off" /\ client[c].got = <<>>
    BY <1>1
  <2>2. ~LkGreeted(client[c], down[c])
    <3>1. "off" # "up" /\ "off" # "login"
      OBVIOUS
    <3> QED
      BY <2>1, <3>1, Zenon DEF LkGreeted
  <2>3. Len(down[c]) <= Room + 1 + LkOne(conn[c].pc # "ok") + LkOne(conn[c].dead)
    <3>1. LkOne(conn[c].pc # "ok") \in {0, 1} /\ LkOne(conn[c].dead) \in {0, 1}
      BY LkOneIs, Zenon
    <3>2. Len(<<>>) \in Nat /\ Len(<<>>) <= 1 /\ Room \in Nat
      BY LkConstants
    <3> QED
      BY <2>1, <3>1, <3>2, LkBound, Zenon
  <2>4. <<>> # <<"login">> /\ <<>> # <<"wrong">> /\ "none" # "ok"
    OBVIOUS
  <2>5. LkSession(conn[c], up[c], client[c], down[c])
    BY <2>1, <2>2, <2>3, <2>4, Zenon DEF LkSession
  <2>6. LkRun(conn[c], client[c].got, down[c], fanned, LkBehind(c))
    BY <2>1, LkRunEmpty, Zenon
  <2> QED
    BY <2>2, <2>5, <2>6, Zenon DEF LkAt, LkGood
<1> QED
  BY <1>2, <1>3, <1>4 DEF LkInv

LEMMA LkIsSafe == LkInv => Link!LinkSafe
<1> SUFFICES ASSUME LkInv PROVE Link!LinkSafe
  OBVIOUS
<1>1. LkTyped /\ LkStop /\ LkFan
  BY DEF LkInv
<1>2. ASSUME NEW c \in Client
      PROVE  /\ LkSession(conn[c], up[c], client[c], down[c])
             /\ LkGreeted(client[c], down[c]) => LkWhole(conn[c], down[c], LkBody(c))
             /\ LkRun(conn[c], client[c].got, down[c], fanned, LkBehind(c))
             /\ conn[c].pc \in LkPc /\ client[c].pc \in {"off", "login", "up", "refused", "over"} /\ down[c] \in Seq(LkMsg)
  BY LkAtOf, LkConnOf DEF LkGood, LkClient
<1>3. Link!TypeOK
  <2>1. ASSUME NEW c \in Client
        PROVE  /\ conn[c].pc \in {"none", "linked", "check", "read", "ok", "fail", "remove", "gone"}
               /\ client[c].pc \in {"off", "login", "up", "refused", "over"}
               /\ Len(down[c]) <= Room + 3
               /\ client[c].pc = "off" => conn[c].pc = "none"
    <3>1. Len(down[c]) <= Room + 3
      <4>1. LkOne(conn[c].pc # "ok") \in {0, 1} /\ LkOne(conn[c].dead) \in {0, 1} /\ Len(down[c]) \in Nat
        BY <1>2, LkOneIs
      <4>2. Len(down[c]) <= Room + 1 + LkOne(conn[c].pc # "ok") + LkOne(conn[c].dead)
        BY <1>2, Zenon DEF LkSession
      <4>3. \A n \in Nat, a, b \in {0, 1} : n <= Room + 1 + a + b => n <= Room + 3
        BY LkConstants
      <4> QED
        BY <4>1, <4>2, <4>3, Zenon
    <3> QED
      BY <1>2, <3>1 DEF LkPc, LkSession
  <2>2. \A p \in Publisher : pub[p] = None \/ pub[p] \in Link!Event
    BY <1>1 DEF LkTyped
  <2>3. fan.by # None => fan.todo \subseteq Client /\ pub[fan.by] \in Link!Event
    BY <1>1 DEF LkTyped, LkFan
  <2> QED
    BY <1>1, <2>1, <2>2, <2>3 DEF Link!TypeOK, LkTyped, LkStop
<1>4. Link!ServerOutlives
  <2>1. ASSUME stopping = "freed"
        PROVE  /\ acceptor.pc = "gone" /\ Link!Linked = {} /\ fan = Link!Nobody
               /\ \A p \in Publisher : pub[p] = None
    <3>1. acceptor.pc = "gone" /\ Link!Linked = {} /\ \A p \in Publisher : pub[p] = None
      BY <1>1, <2>1 DEF LkStop
    <3>2. fan.by = None
      BY <1>1, <3>1 DEF LkFan, LkTyped
    <3>3. fan = Link!Nobody
      BY <1>1, <3>2 DEF LkFan, LkTyped, Link!Nobody
    <3> QED
      BY <3>1, <3>3
  <2> QED
    BY <1>1, <2>1 DEF Link!ServerOutlives, LkFan
<1>5. Link!Framed
  <2> SUFFICES ASSUME NEW c \in Client, client[c].pc = "up", NEW i \in 1 .. Len(down[c]) - 1
               PROVE  /\ down[c][i].kind # "torn"
                      /\ down[c][i].kind = "head" => /\ down[c][i + 1].kind \in {"body", "torn"}
                                                     /\ down[c][i + 1].n = down[c][i].n
    BY DEF Link!Framed
  <2> QED
    BY <1>2, Zenon DEF LkGreeted, LkWhole
<1>6. Link!SameOrderNoGap
  <2> SUFFICES ASSUME NEW c \in Client, Link!SentTo(c) > 0
               PROVE  \E k \in 0 .. Len(fanned) - Link!SentTo(c) :
                        /\ Link!FollowsFrom(k, client[c].got, down[c])
                        /\ Link!Writable(c) /\ c \in Link!Linked /\ Link!ListFree => k + Link!SentTo(c) = Len(fanned)
    BY DEF Link!SameOrderNoGap
  <2>1. Link!SentTo(c) = LkSent(client[c].got, down[c])
    BY LkCounts, Zenon DEF Link!SentTo, LkSent
  <2>2. PICK k \in 0 .. Len(fanned) - LkSent(client[c].got, down[c]) :
          /\ LkFollows(fanned, k, client[c].got, down[c])
          /\ LkOpen(conn[c]) => k + LkSent(client[c].got, down[c]) = Len(fanned) - LkBehind(c)
    BY <1>2, <2>1, Zenon DEF LkRun
  <2>3. Link!FollowsFrom(k, client[c].got, down[c])
    BY <2>2, Zenon DEF Link!FollowsFrom, LkFollows
  <2>4. ASSUME Link!Writable(c), c \in Link!Linked, Link!ListFree
        PROVE  k + Link!SentTo(c) = Len(fanned)
    <3>1. LkOpen(conn[c])
      BY <2>4 DEF LkOpen, Link!Writable, Link!Linked
    <3>2. c \notin fan.todo
      BY <1>1, <2>4 DEF LkFan, Link!ListFree
    <3>3. LkBehind(c) = 0
      BY <3>2, Zenon DEF LkBehind, LkOne
    <3>4. Len(fanned) - 0 = Len(fanned)
      BY <1>1 DEF LkTyped
    <3> QED
      BY <2>1, <2>2, <3>1, <3>3, <3>4, Zenon
  <2> QED
    BY <2>1, <2>3, <2>4, Zenon
<1> QED
  BY <1>3, <1>4, <1>5, <1>6 DEF Link!LinkSafe

(***************************************************************************)
(* svc_event8012.c: the server is freed when nobody uses it any more; each *)
(* client gets whole messages, and of the detections a run of those that   *)
(* were published, in their order and without a gap: for any number of     *)
(* clients, publishers, detections and places in a socket.                 *)
(***************************************************************************)
THEOREM LinkIsSafe == BoxSpec => []LinkSafe
<1>1. BoxInit => LkInv
  BY LkInit DEF BoxInit
<1>2. LkInv /\ [BoxNext]_boxVars => LkInv'
  <2> SUFFICES ASSUME LkInv, [BoxNext]_boxVars PROVE LkInv'
    OBVIOUS
  <2>1. CASE Link!Next
    BY <2>1, LkStep
  <2>2. CASE UNCHANGED linkVars
    <3>1. UNCHANGED <<stopping, acceptor, conn, up, down, shut, left, pub, fan, client, fanned>>
      BY <2>2, Zenon DEF linkVars
    <3>2. LkTyped'
      BY <3>1 DEF LkInv, LkTyped
    <3>3. LkStop'
      BY <3>1, Zenon DEF LkInv, LkStop, Link!Linked
    <3>4. LkFan'
      BY <3>1, Zenon DEF LkInv, LkFan, Link!Linked, Link!Writable
    <3>5. ASSUME NEW c \in Client PROVE LkAt(c)'
      <4>1. LkBody(c)' = LkBody(c) /\ LkBehind(c)' = LkBehind(c)
        BY <3>1, Zenon DEF LkBody, LkBehind
      <4>2. LkAt(c)
        BY DEF LkInv
      <4> QED
        BY <3>1, <4>1, <4>2, LkAtSame
    <3> QED
      BY <3>2, <3>3, <3>4, <3>5 DEF LkInv
  <2> QED
    BY <2>1, <2>2, Zenon DEF BoxNext, boxVars
<1>3. LkInv => LinkSafe
  BY LkIsSafe DEF LinkSafe
<1> QED
  BY <1>1, <1>2, <1>3, PTL DEF BoxSpec
===============================================================================
