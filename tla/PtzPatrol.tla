------------------------------ MODULE PtzPatrol ------------------------------
(***************************************************************************)
(* The PTZ patrol engine of components/nop (services/svc_ptz_patrol.c):    *)
(* one background thread moves a camera from spot to spot until a call of  *)
(* start or stop replaces or ends it.  Calls hold ctl from end to end;     *)
(* mutex guards the list of spots; running is a volatile flag that the     *)
(* worker reads without a lock.                                            *)
(*                                                                         *)
(* A critical section under mutex is one step.  A patrol is a list of      *)
(* SpotCount[p] spots, its i-th spot is <<p, i>>.  Dwell times and         *)
(* step_count (a statistic) are left out, and nop_ptz_patrol_destroy, a    *)
(* stop after which nobody may call, too.                                  *)
(***************************************************************************)
EXTENDS Integers

CONSTANTS
  Caller,     \* threads that call start and stop
  Worker,     \* names for the threads that pthread_create makes
  Patrol,     \* lists of spots that start is called with
  SpotCount,  \* the length of each
  None        \* no caller, no patrol

ASSUME PatrolAssumption ==
  /\ SpotCount \in [Patrol -> Nat \ {0}]
  /\ Patrol # {} /\ None \notin Patrol /\ None \notin Caller
  /\ Worker # {}

VARIABLES
  ctl,          \* who holds engine->ctl
  running,      \* engine->running
  threadValid,  \* engine->thread_valid
  thread,       \* engine->thread
  spots,        \* engine->spots: the patrol copied on start, or None
  call,         \* how far each caller is in its call, and what it wants
  worker        \* the worker threads

vars == <<ctl, running, threadValid, thread, spots, call, worker>>

\* want is the patrol to start, or None to stop.
Call == [st : {"idle", "join", "clear", "install", "create"}, want : Patrol \cup {None}]

\* patrol is the one the thread was created for (history), spot the local copy.
WorkerState ==
  [pc : {"none", "check", "fetch", "move", "hold", "done"},
   patrol : Patrol \cup {None}, index : Nat, spot : Patrol \X Nat]

AnySpot == <<CHOOSE p \in Patrol : TRUE, 0>>
NoWorker == [pc |-> "none", patrol |-> None, index |-> 0, spot |-> AnySpot]

Init ==
  /\ ctl = None /\ running = FALSE /\ threadValid = FALSE
  /\ thread \in Worker
  /\ spots = None
  /\ call = [c \in Caller |-> [st |-> "idle", want |-> None]]
  /\ worker = [w \in Worker |-> NoWorker]

-----------------------------------------------------------------------------
(* The callers: nop_ptz_patrol_start and nop_ptz_patrol_stop.               *)

Goto(c, st) == call' = [call EXCEPT ![c].st = st]

\* bug: the worker is not told to stop
EnterSilent(c, want) ==
  /\ call[c].st = "idle" /\ ctl = None
  /\ ctl' = c
  /\ call' = [call EXCEPT ![c] = [st |-> "join", want |-> want]]
  /\ UNCHANGED <<running, threadValid, thread, spots, worker>>
\* The call takes ctl, and patrol_stop_inner tells the worker to stop.
Enter(c, want) ==
  /\ call[c].st = "idle" /\ ctl = None
  /\ ctl' = c
  /\ running' = FALSE
  /\ call' = [call EXCEPT ![c] = [st |-> "join", want |-> want]]
  /\ UNCHANGED <<threadValid, thread, spots, worker>>

\* bug: the worker is told to stop and not joined
JoinSkipped(c) ==
  /\ call[c].st = "join"
  /\ threadValid' = FALSE
  /\ Goto(c, "clear")
  /\ UNCHANGED <<ctl, running, thread, spots, worker>>
\* pthread_join, when there is a worker to join.
Join(c) ==
  /\ call[c].st = "join"
  /\ threadValid => worker[thread].pc = "done"
  /\ threadValid' = FALSE
  /\ worker' = IF threadValid THEN [worker EXCEPT ![thread] = NoWorker] ELSE worker
  /\ Goto(c, "clear")
  /\ UNCHANGED <<ctl, running, thread, spots>>

\* The old spots are freed; a stop returns.
Clear(c) ==
  /\ call[c].st = "clear"
  /\ spots' = None
  /\ IF call[c].want = None
     THEN Goto(c, "idle") /\ ctl' = None
     ELSE Goto(c, "install") /\ UNCHANGED ctl
  /\ UNCHANGED <<running, threadValid, thread, worker>>

Install(c) ==
  /\ call[c].st = "install"
  /\ spots' = call[c].want
  /\ running' = TRUE
  /\ Goto(c, "create")
  /\ UNCHANGED <<ctl, threadValid, thread, worker>>

Create(c) ==
  /\ call[c].st = "create"
  /\ \E w \in Worker :
       /\ worker[w].pc = "none"
       /\ worker' = [worker EXCEPT ![w] =
            [pc |-> "check", patrol |-> call[c].want, index |-> 0, spot |-> AnySpot]]
       /\ thread' = w
  /\ threadValid' = TRUE
  /\ ctl' = None
  /\ Goto(c, "idle")
  /\ UNCHANGED <<running, spots>>

\* pthread_create fails: the engine is stopped.
CreateFails(c) ==
  /\ call[c].st = "create"
  /\ running' = FALSE
  /\ spots' = None
  /\ ctl' = None
  /\ Goto(c, "idle")
  /\ UNCHANGED <<threadValid, thread, worker>>

-----------------------------------------------------------------------------
(* The worker: patrol_worker.                                               *)

AtPc(w, pc) == worker[w].pc = pc
SetWorker(w, s) ==
  /\ worker' = [worker EXCEPT ![w] = s]
  /\ UNCHANGED <<ctl, running, threadValid, thread, spots, call>>
Step(w, pc) == SetWorker(w, [worker[w] EXCEPT !.pc = pc])

\* while (engine->running)
Check(w) == AtPc(w, "check") /\ Step(w, IF running THEN "fetch" ELSE "done")

Take(w, i) ==
  SetWorker(w, [pc |-> "move", patrol |-> worker[w].patrol,
                index |-> i + 1, spot |-> <<spots, i>>])
\* bug: the index starts again one spot too late
FetchBeyond(w) ==
  /\ AtPc(w, "fetch")
  /\ IF spots = None THEN Step(w, "done")
     ELSE Take(w, IF worker[w].index > SpotCount[spots] THEN 0 ELSE worker[w].index)
\* The next spot is copied under mutex, the first one after the last.
Fetch(w) ==
  /\ AtPc(w, "fetch")
  /\ IF spots = None THEN Step(w, "done")
     ELSE Take(w, IF worker[w].index >= SpotCount[spots] THEN 0 ELSE worker[w].index)

\* goto_preset
Move(w) == AtPc(w, "move") /\ Step(w, "hold")

\* patrol_hold: it gives up when it sees running = 0, or the dwell is over.
Hold(w) ==
  AtPc(w, "hold") /\ Step(w, IF running THEN "check" ELSE "done")

-----------------------------------------------------------------------------
Progress(c) == Join(c) \/ Clear(c) \/ Install(c) \/ Create(c) \/ CreateFails(c)
Run(w) == Check(w) \/ Fetch(w) \/ Move(w) \/ Hold(w)

Next ==
  \/ \E c \in Caller, want \in Patrol \cup {None} : Enter(c, want)
  \/ \E c \in Caller : Progress(c)
  \/ \E w \in Worker : Run(w)

Spec == Init /\ [][Next]_vars

\* The scheduler runs the worker and whoever holds ctl; dwell times end.
Fairness == /\ \A c \in Caller : WF_vars(Progress(c))
            /\ \A w \in Worker : WF_vars(Run(w))
FairSpec == Spec /\ Fairness

-----------------------------------------------------------------------------
(* Properties. *)

\* The engine of svc_ptz_patrol.c: its thread, its mutex and its callers.
TypeOK ==
  /\ ctl \in Caller \cup {None}
  /\ running \in BOOLEAN /\ threadValid \in BOOLEAN
  /\ thread \in Worker
  /\ spots \in Patrol \cup {None}
  /\ call \in [Caller -> Call]
  /\ worker \in [Worker -> WorkerState]

Live(w) == ~AtPc(w, "none") /\ ~AtPc(w, "done")

(***************************************************************************)
(* svc_ptz_patrol.c:126 "so a concurrent stop/start cannot see a half-set  *)
(* thread_valid and skip the join": the camera never takes orders from two *)
(* workers, and after a stop has returned from none.                       *)
(***************************************************************************)
OneMover ==
  /\ \A v, w \in Worker : Live(v) /\ Live(w) => v = w
  /\ ctl = None /\ ~threadValid => \A w \in Worker : ~Live(w)

(***************************************************************************)
(* goto_preset is only called for a spot of the patrol the worker was      *)
(* started for, and that patrol is still the one that is installed: the    *)
(* spots are not freed or replaced while the worker looks at them.         *)
(***************************************************************************)
MovesOnItsPatrol ==
  \A w \in Worker : AtPc(w, "move") =>
    /\ worker[w].patrol = spots
    /\ worker[w].spot[1] = spots /\ worker[w].spot[2] < SpotCount[spots]

(***************************************************************************)
(* svc_ptz_patrol.c:92 "The join is safe under ctl because the worker only *)
(* ever takes engine->mutex - no deadlock": every start and stop that got  *)
(* ctl returns.                                                            *)
(***************************************************************************)
CallReturns == \A c \in Caller : ctl = c ~> ctl # c

(***************************************************************************)
(* While nobody calls start or stop the patrol visits all its spots, over  *)
(* and over.                                                               *)
(***************************************************************************)
VisitsAll ==
  \A p \in Patrol : \A i \in 0 .. SpotCount[p] - 1 :
    spots = p /\ threadValid
      ~> ctl # None \/ \E w \in Worker : AtPc(w, "move") /\ worker[w].spot = <<p, i>>

-----------------------------------------------------------------------------
(* The inductive invariant behind OneMover and MovesOnItsPatrol. *)

\* A call that is under way holds ctl.
CtlOK == \A c \in Caller : call[c].st # "idle" <=> ctl = c

\* What start has yet to install is known.
WantOK == \A c \in Caller : call[c].st \in {"install", "create"} => call[c].want # None

\* There is at most one worker, it is the one to join, and while it is there
\* its patrol stays installed.
WorkerOK ==
  /\ \A w \in Worker : ~AtPc(w, "none") => threadValid /\ thread = w
  /\ threadValid => /\ \A c \in Caller : call[c].st \in {"idle", "join"}
                    /\ worker[thread].patrol = spots /\ spots # None

CreateOK == \A c \in Caller : call[c].st = "create" => spots = call[c].want

IInv == TypeOK /\ CtlOK /\ WantOK /\ WorkerOK /\ CreateOK /\ MovesOnItsPatrol

\* The patrol goes on: calls of start and stop return, and the spots come round.
PatrolGoesOn == CallReturns /\ VisitsAll
=============================================================================
