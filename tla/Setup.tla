-------------------------------- MODULE Setup --------------------------------
(***************************************************************************)
(* The pairing of chimes (services/svc_chime.c) and the setup wizard       *)
(* (services/nvr/svc_wizard.c) of components/nop: two small state machines *)
(* under a mutex each, whose callers are the handlers, the GUI and the     *)
(* radio that finds chimes.                                                *)
(***************************************************************************)
EXTENDS Integers, FiniteSets

CONSTANTS
  ChimeId,   \* chimes
  Capacity   \* slots for chimes

SetupAssumption == Capacity \in Nat /\ IsFiniteSet(ChimeId) /\ "none" \notin ChimeId

VARIABLES
  chimes,      \* the slots; tone stands for what a chime is set to
  chimeCount,  \* its count
  pairing,     \* the pairing window
  wizard       \* the state of the wizard and what it knows

setupVars == <<chimes, chimeCount, pairing, wizard>>
chimeVars == <<chimes, chimeCount, pairing>>

Empty == [id |-> "none", tone |-> 0]
Slots == 1 .. Capacity
Facts == {"password", "name", "imaging", "firmware"}

SetupInit ==
  /\ chimes = [i \in Slots |-> Empty] /\ chimeCount = 0
  /\ pairing = [state |-> "idle", elapsed |-> FALSE, added |-> 0]
  /\ wizard = [state |-> "pending", has |-> {}]

-----------------------------------------------------------------------------
(* Chimes. *)

Taken == {i \in Slots : chimes[i].id # "none"}
Holding(id) == {i \in Slots : chimes[i].id = id}
FirstSlot(S) == CHOOSE i \in S : \A j \in S : i <= j

\* chime_refresh_locked.
Refresh == IF pairing.state = "pairing" /\ pairing.elapsed THEN [pairing EXCEPT !.state = "done"] ELSE pairing

PairStart ==
  /\ pairing' = IF Refresh.state = "pairing" THEN Refresh ELSE [state |-> "pairing", elapsed |-> FALSE, added |-> 0]
  /\ UNCHANGED <<chimes, chimeCount, wizard>>
PairStop == pairing' = [pairing EXCEPT !.state = "idle"] /\ UNCHANGED <<chimes, chimeCount, wizard>>
PairStatus == pairing' = Refresh /\ UNCHANGED <<chimes, chimeCount, wizard>>
PairElapses ==
  pairing.state = "pairing" /\ pairing' = [pairing EXCEPT !.elapsed = TRUE] /\ UNCHANGED <<chimes, chimeCount, wizard>>

\* nop_chime_offer: refused, refreshed in place, or added.
Offer(id, tone) ==
  /\ \/ Refresh.state # "pairing" /\ pairing' = Refresh /\ UNCHANGED <<chimes, chimeCount>>
     \/ /\ Refresh.state = "pairing" /\ Holding(id) # {}
        /\ chimes' = [chimes EXCEPT ![FirstSlot(Holding(id))].tone = tone]
        /\ UNCHANGED <<chimeCount, pairing>>
     \/ /\ Refresh.state = "pairing" /\ Holding(id) = {} /\ Taken # Slots
        /\ chimes' = [chimes EXCEPT ![FirstSlot(Slots \ Taken)] = [id |-> id, tone |-> tone]]
        /\ chimeCount' = chimeCount + 1 /\ pairing' = [pairing EXCEPT !.added = IF @ < Capacity THEN @ + 1 ELSE @]
     \/ Refresh.state = "pairing" /\ Holding(id) = {} /\ Taken = Slots /\ UNCHANGED <<chimes, chimeCount, pairing>>
  /\ UNCHANGED wizard

\* nop_chime_set and nop_chime_remove.
SetChime(id, tone) ==
  /\ Holding(id) # {} /\ chimes' = [chimes EXCEPT ![FirstSlot(Holding(id))].tone = tone]
  /\ UNCHANGED <<chimeCount, pairing, wizard>>
RemoveChime(id) ==
  /\ Holding(id) # {} /\ chimes' = [chimes EXCEPT ![FirstSlot(Holding(id))] = Empty]
  /\ chimeCount' = chimeCount - 1 /\ UNCHANGED <<pairing, wizard>>

-----------------------------------------------------------------------------
(* The wizard. *)

\* wizard_touch_locked.
Touched(w) == IF w = "pending" THEN "progress" ELSE w

\* A good password, a name, and the two marks; a bad password changes nothing.
Does(fact) ==
  /\ wizard' = [state |-> Touched(wizard.state), has |-> wizard.has \cup {fact}]
  /\ UNCHANGED chimeVars

CompleteWizard ==
  /\ wizard' = IF "password" \in wizard.has THEN [wizard EXCEPT !.state = "complete"] ELSE wizard
  /\ UNCHANGED chimeVars

ResetWizard == wizard' = [state |-> "pending", has |-> {}] /\ UNCHANGED chimeVars

SetupNext ==
  \/ PairStart \/ PairStop \/ PairStatus \/ PairElapses
  \/ \E id \in ChimeId : RemoveChime(id) \/ \E tone \in {0, 1} : Offer(id, tone) \/ SetChime(id, tone)
  \/ (\E fact \in Facts : Does(fact)) \/ CompleteWizard \/ ResetWizard

SetupSpec == SetupInit /\ [][SetupNext]_setupVars

-----------------------------------------------------------------------------
(* Properties. *)

\* The table of chimes and the wizard.
SetupTypeOK ==
  /\ \A i \in Slots : chimes[i].id \in ChimeId \cup {"none"} /\ chimes[i].tone \in {0, 1}
  /\ pairing.state \in {"idle", "pairing", "done"} /\ pairing.added \in 0 .. Capacity
  /\ wizard.state \in {"pending", "progress", "complete"} /\ wizard.has \subseteq Facts
  /\ wizard.state = "pending" => wizard.has = {}

(***************************************************************************)
(* The table of chimes: each has one slot however often it is offered, and *)
(* the count is that of the slots, or a full table refuses or overruns.    *)
(***************************************************************************)
OneSlotPerChime ==
  /\ chimeCount = Cardinality(Taken)
  /\ \A id \in ChimeId : Cardinality(Holding(id)) <= 1

(***************************************************************************)
(* A wizard that has been completed stays so until it is reset: steps done *)
(* again later, from another screen, do not bring the user back to it.     *)
(***************************************************************************)
CompleteKept == wizard.state = "complete" => wizard'.state = "complete" \/ wizard'.has = {}
CompleteStays == [][CompleteKept]_setupVars

\* What holds of the table of chimes at every moment.
SetupSafe == SetupTypeOK /\ OneSlotPerChime
=============================================================================
