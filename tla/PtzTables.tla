------------------------------ MODULE PtzTables ------------------------------
(***************************************************************************)
(* The presets and patrols of components/nop (business/caps/               *)
(* cap_ptz_patrol.c): two tables that all the cameras of a device share,   *)
(* over cameras that keep the positions themselves, by number of slot, and *)
(* over the one patrol engine (whose thread is in PtzPatrol; here it is    *)
(* what its calls leave behind).                                           *)
(*                                                                         *)
(* Requests are served one at a time, so a handler is one step.  A request *)
(* without its arguments, or for a channel that speaks ONVIF, changes      *)
(* nothing here (NopHandlers).  Names are left out.                        *)
(***************************************************************************)
EXTENDS Integers, FiniteSets

CONSTANTS
  Camera,      \* channels
  Position,    \* where a camera can look
  PresetSlot,  \* 0 .. CAP_PTZ_PATROL_MAX_PRESETS - 1
  PatrolSlot,  \* 0 .. CAP_PTZ_PATROL_MAX_PATROLS - 1
  Word,        \* tokens that a client makes up
  CutWord,     \* those among them that do not fit into a token
  Beginning,   \* what is left of those
  Nowhere,     \* no position, token or camera
  SeqMax       \* bound on the tokens that are generated, of each kind

PtzTablesAssumption ==
  /\ CutWord \subseteq Word /\ Word \cap Nat = {} /\ Beginning \notin Word \cup Nat /\ SeqMax \in Nat
  /\ IsFiniteSet(PresetSlot) /\ PresetSlot \subseteq Nat /\ PatrolSlot \subseteq Nat /\ Position # {}

VARIABLES
  presetTab,     \* s_presets; at is where the camera looked when it was last set (history)
  patrolTab,     \* s_patrols
  presetSeq,     \* s_preset_seq
  patrolSeq,     \* s_patrol_seq
  activePatrol,  \* s_active_patrol
  engine,        \* the patrol engine; origin is the token it was started for (history)
  kept,          \* the positions that a camera keeps, by number
  gimbal         \* where a camera looks

ptzVars == <<presetTab, patrolTab, presetSeq, patrolSeq, activePatrol, engine, kept, gimbal>>
tabVars == <<presetTab, presetSeq, kept>>
patVars == <<patrolTab, patrolSeq, activePatrol, engine>>

FreePreset == [used |-> FALSE, index |-> 0, token |-> Nowhere, at |-> <<Nowhere, Nowhere>>]
FreePatrol == [used |-> FALSE, token |-> Nowhere, spots |-> {}]
Idle == [running |-> FALSE, camera |-> Nowhere, spots |-> {}, origin |-> Nowhere]

\* A generated token is its number; a client may send one, known or guessed.
Token == Word \cup 0 .. SeqMax
\* The spots of a patrol are numbers of slots, whatever presets they hold.
Spots == {{}, PresetSlot}

PtzInit ==
  /\ presetTab = [i \in PresetSlot |-> FreePreset]
  /\ patrolTab = [i \in PatrolSlot |-> FreePatrol]
  /\ presetSeq = 0 /\ patrolSeq = 0
  /\ activePatrol = Nowhere /\ engine = Idle
  /\ kept = [c \in Camera |-> [i \in PresetSlot |-> Nowhere]]
  /\ gimbal = [c \in Camera |-> CHOOSE p \in Position : TRUE]

Copied(t) == IF t \in CutWord THEN Beginning ELSE t

\* preset_find, preset_alloc: the first slot.
First(S) == CHOOSE i \in S : \A j \in S : i <= j
Finds(tab, t) == {i \in DOMAIN tab : tab[i].used /\ tab[i].token = t}

Alloc(tab) == {i \in DOMAIN tab : ~tab[i].used}

-----------------------------------------------------------------------------
(* Presets. *)

\* The number under which the camera is to keep the preset of slot i.
Index(i) == IF presetTab[i].used THEN presetTab[i].index ELSE i

\* handle_set_ptz_preset once its slot and its token are known.
Save(c, i, t) ==
  /\ presetTab' = [presetTab EXCEPT ![i] = [used |-> TRUE, index |-> Index(i), token |-> t, at |-> <<c, gimbal[c]>>]]
  /\ kept' = [kept EXCEPT ![c][Index(i)] = gimbal[c]]
  /\ UNCHANGED <<gimbal, patVars>>

SetPreset(c, t) ==
  LET held == Finds(presetTab, t) IN
  /\ held # {}
  /\ Save(c, First(held), t) /\ UNCHANGED presetSeq

SetNewPreset(c, t) ==
  /\ Finds(presetTab, t) = {} /\ Alloc(presetTab) # {}
  /\ Save(c, First(Alloc(presetTab)), Copied(t)) /\ UNCHANGED presetSeq

\* The empty token: one is generated.
SetAnyPreset(c) ==
  /\ Alloc(presetTab) # {} /\ presetSeq <= SeqMax
  /\ Save(c, First(Alloc(presetTab)), presetSeq) /\ presetSeq' = presetSeq + 1

RemovePreset(c, t) ==
  LET held == Finds(presetTab, t) IN
  /\ held # {}
  /\ kept' = [kept EXCEPT ![c][presetTab[First(held)].index] = Nowhere]
  /\ presetTab' = [presetTab EXCEPT ![First(held)] = FreePreset]
  /\ UNCHANGED <<presetSeq, gimbal, patVars>>

\* The camera goes to what it keeps under a number, if it keeps something.
Goes(c, i) == gimbal' = [gimbal EXCEPT ![c] = IF kept[c][i] = Nowhere THEN @ ELSE kept[c][i]]

GotoPreset(c, t) ==
  LET held == Finds(presetTab, t) IN
  held # {} /\ Goes(c, presetTab[First(held)].index) /\ UNCHANGED <<tabVars, patVars>>

\* The user turns the camera, or sends it to its home position.
Drive(c, p) == gimbal' = [gimbal EXCEPT ![c] = p] /\ UNCHANGED <<tabVars, patVars>>

-----------------------------------------------------------------------------
(* Patrols. *)

\* handle_create_ptz_patrol and handle_modify_ptz_patrol.
CreatePatrol(spots) ==
  /\ Alloc(patrolTab) # {} /\ patrolSeq <= SeqMax
  /\ patrolTab' = [patrolTab EXCEPT ![First(Alloc(patrolTab))] = [used |-> TRUE, token |-> patrolSeq, spots |-> spots]]
  /\ patrolSeq' = patrolSeq + 1
  /\ UNCHANGED <<activePatrol, engine, tabVars, gimbal>>

ModifyPatrol(i, spots) ==
  /\ patrolTab[i].used
  /\ patrolTab' = [patrolTab EXCEPT ![i].spots = spots]
  /\ UNCHANGED <<patrolSeq, activePatrol, engine, tabVars, gimbal>>

\* nop_ptz_patrol_start: a patrol without spots is refused, what runs goes on.
StartPatrol(c, i) ==
  /\ patrolTab[i].used /\ patrolTab[i].spots # {}
  /\ engine' = [running |-> TRUE, camera |-> c, spots |-> patrolTab[i].spots, origin |-> patrolTab[i].token]
  /\ activePatrol' = patrolTab[i].token
  /\ UNCHANGED <<patrolTab, patrolSeq, tabVars, gimbal>>

\* No thread can be created: what ran was stopped before.
StartFails(i) ==
  /\ patrolTab[i].used /\ patrolTab[i].spots # {}
  /\ engine' = Idle
  /\ UNCHANGED <<activePatrol, patrolTab, patrolSeq, tabVars, gimbal>>

\* bug: the engine is left running
Unattended(i) == UNCHANGED <<engine, activePatrol>>
\* The engine is stopped if the patrol of slot i is the one it runs.
Halt(i) ==
  IF activePatrol = patrolTab[i].token THEN engine' = Idle /\ activePatrol' = Nowhere
  ELSE UNCHANGED <<engine, activePatrol>>

StopPatrol(i) == patrolTab[i].used /\ Halt(i) /\ UNCHANGED <<patrolTab, patrolSeq, tabVars, gimbal>>

RemovePatrol(i) ==
  /\ patrolTab[i].used /\ Halt(i)
  /\ patrolTab' = [patrolTab EXCEPT ![i] = FreePatrol]
  /\ UNCHANGED <<patrolSeq, tabVars, gimbal>>

\* The worker thread moves the camera to one of its spots.
Visit(i) == engine.running /\ i \in engine.spots /\ Goes(engine.camera, i) /\ UNCHANGED <<tabVars, patVars>>

PtzNext ==
  \/ \E c \in Camera :
       \/ SetAnyPreset(c) \/ \E p \in Position : Drive(c, p)
       \/ \E t \in Token : SetPreset(c, t) \/ SetNewPreset(c, t) \/ RemovePreset(c, t) \/ GotoPreset(c, t)
       \/ \E i \in PatrolSlot : StartPatrol(c, i)
  \/ \E i \in PresetSlot : Visit(i)
  \/ \E s \in Spots : CreatePatrol(s) \/ \E i \in PatrolSlot : ModifyPatrol(i, s)
  \/ \E i \in PatrolSlot : StartFails(i) \/ StopPatrol(i) \/ RemovePatrol(i)

PtzSpec == PtzInit /\ [][PtzNext]_ptzVars

-----------------------------------------------------------------------------
(* Properties. *)

\* The tables of presets and patrols; a patrol that runs is one of the table.
PtzTypeOK ==
  /\ \A i \in PresetSlot : presetTab[i].used => presetTab[i].token \in (Token \ CutWord) \cup {Beginning}
  /\ \A i \in PatrolSlot : patrolTab[i].used => patrolTab[i].token \in 0 .. patrolSeq - 1 /\ patrolTab[i].spots \in Spots
  /\ presetSeq \in 0 .. SeqMax + 1 /\ patrolSeq \in 0 .. SeqMax + 1
  /\ activePatrol \in 0 .. SeqMax \cup {Nowhere}
  /\ engine.running => engine.camera \in Camera /\ engine.spots \in Spots \ {{}}
  /\ \A c \in Camera : gimbal[c] \in Position

(***************************************************************************)
(* Whatever is set, removed and set again, and whoever uses a slot next: a *)
(* preset stands for the position that its camera had when it was set.     *)
(***************************************************************************)
PresetsKept ==
  \A i \in PresetSlot : presetTab[i].used => kept[presetTab[i].at[1]][presetTab[i].index] = presetTab[i].at[2]

(***************************************************************************)
(* The patrol that is listed as running is the one that runs, and one that *)
(* was removed does not run: the engine knows positions, the table tokens. *)
(***************************************************************************)
RunningIsListed ==
  engine.running => engine.origin = activePatrol /\ \E i \in PatrolSlot : patrolTab[i].used /\ patrolTab[i].token = activePatrol

(***************************************************************************)
(* Two presets have one token only where a client used a token that is to  *)
(* be generated later, or one too long to be kept, which no request finds. *)
(***************************************************************************)
OnePresetPerToken ==
  \A i, j \in PresetSlot :
     presetTab[i].used /\ presetTab[j].used /\ presetTab[i].token = presetTab[j].token /\ i # j
       => presetTab[i].token \in 0 .. SeqMax \cup {Beginning}

\* What holds of the tables at every moment: they agree with the camera, with the engine and among themselves.
PtzSafe == PtzTypeOK /\ PresetsKept /\ RunningIsListed /\ OnePresetPerToken
=============================================================================
