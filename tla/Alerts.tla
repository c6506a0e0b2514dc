-------------------------------- MODULE Alerts --------------------------------
(***************************************************************************)
(* Two subscribers of the event hub of components/nop: the linkage of      *)
(* warning lights and sirens (services/camera/svc_light_linkage.c) and the *)
(* push notifications (services/svc_push.c).  A publish calls the sinks    *)
(* that were subscribed when it began, one after the other, in its own     *)
(* thread; an unsubscribe waits until no publish is running (EventHub has  *)
(* the hub itself).                                                        *)
(*                                                                         *)
(* Times are relative: what is left of a hold, the age of a send.  Ages    *)
(* end at Old, where every window is over; 0 milliseconds ("never") is an  *)
(* age of Old.                                                             *)
(***************************************************************************)
EXTENDS Integers, FiniteSets

CONSTANTS
  Lamp,       \* channels with a lamp and a siren: 0 .. NOP_LINKAGE_MAX_CHANNELS - 1
  Publisher,  \* threads that publish
  Hold,       \* light_seconds
  Silent,     \* silent_window_ms
  Gap,        \* min_interval_ms
  Delay       \* bound on the time between osal_time_ms and the lock in push_sink

AlertsAssumption ==
  0 \in Lamp /\ Lamp \subseteq Nat /\ IsFiniteSet(Lamp) /\ {Hold, Silent, Gap, Delay} \subseteq Nat /\ Hold > 0

VARIABLES
  lit,       \* light_on
  left,      \* what is left until off_deadline_ms
  alarm,     \* panic
  lamps,     \* the lamps that burn and the sirens that sound
  linkage,   \* how far the linkage is
  pub,       \* the publishers: the event, and the sinks still to be called
  sent,      \* last_sent_ms and last_global_ms
  plain      \* history: age of the last push that was no ring, and whether a bell rang since

alertVars == <<lit, left, alarm, lamps, linkage, pub, sent, plain>>
lightVars == <<lit, left, alarm, lamps>>
pushVars == <<sent, plain>>

Kind == {"motion", "ring"}
Old == Delay + (IF Silent > Gap THEN Silent ELSE Gap)
Quiet == [at |-> "idle", chan |-> 0, kind |-> "motion", age |-> 0]

\* channel_index: a channel that is out of range is taken for channel 0.
Index(c) == IF c \in Lamp THEN c ELSE 0
Reported == Lamp \cup {Cardinality(Lamp)}

AlertsInit ==
  /\ lit = [c \in Lamp |-> FALSE] /\ left = [c \in Lamp |-> 0] /\ alarm = [c \in Lamp |-> FALSE]
  /\ lamps = [c \in Lamp |-> [light |-> FALSE, siren |-> FALSE]]
  /\ linkage = "off"
  /\ pub = [p \in Publisher |-> Quiet]
  /\ sent = [each |-> [c \in Lamp |-> [k \in Kind |-> Old]], last |-> Old]
  /\ plain = [age |-> Old, rung |-> FALSE, spaced |-> TRUE]

-----------------------------------------------------------------------------
(* Publishing: the linkage is subscribed before the push.                  *)

Attached == linkage \in {"on", "joining", "unsubscribing"}

Publish(p, c, k) ==
  /\ pub[p].at = "idle"
  /\ pub' = [pub EXCEPT ![p] = [at |-> IF Attached THEN "light" ELSE "push", chan |-> c, kind |-> k, age |-> 0]]
  /\ UNCHANGED <<lightVars, linkage, pushVars>>

\* linkage_sink.
LightSink(p) ==
  LET c == Index(pub[p].chan)  warns == pub[p].kind # "ring" /\ ~alarm[c] IN
  /\ pub[p].at = "light" /\ pub' = [pub EXCEPT ![p].at = "push"]
  /\ lit' = [lit EXCEPT ![c] = @ \/ warns]
  /\ left' = [left EXCEPT ![c] = IF warns THEN Hold ELSE @]
  /\ lamps' = [lamps EXCEPT ![c].light = @ \/ warns]
  /\ UNCHANGED <<alarm, linkage, pushVars>>

\* push_sink reads the time before policy_allows takes the lock.
PushClock(p) == pub[p].at = "push" /\ pub' = [pub EXCEPT ![p].at = "policy", ![p].age = 0] /\ UNCHANGED <<lightVars, linkage, pushVars>>

\* elapsed_ms: from a send of age since to a clock that was read now ago.
Elapsed(now, since) == IF now <= since THEN since - now ELSE 0

InWindow(now, since, window) == since # Old /\ Elapsed(now, since) < window

Allows(e) ==
  \/ e.kind = "ring"
  \/ /\ ~InWindow(e.age, sent.each[Index(e.chan)][e.kind], Silent)
     /\ ~InWindow(e.age, sent.last, Gap)

Apart(a, b) == IF a < b THEN b - a ELSE a - b

\* policy_allows, and the push.
PushSend(p) ==
  LET e == pub[p]  bell == e.kind = "ring" IN
  /\ e.at = "policy" /\ Allows(e)
  /\ sent' = [each |-> [sent.each EXCEPT ![Index(e.chan)][e.kind] = e.age], last |-> e.age]
  /\ plain' = IF bell THEN [plain EXCEPT !.rung = TRUE]
              ELSE [age |-> e.age, rung |-> FALSE,
                    spaced |-> plain.rung \/ plain.age = Old \/ Apart(e.age, plain.age) >= Gap]
  /\ pub' = [pub EXCEPT ![p] = Quiet]
  /\ UNCHANGED <<lightVars, linkage>>

PushDropped(p) ==
  /\ pub[p].at = "policy" /\ ~Allows(pub[p])
  /\ pub' = [pub EXCEPT ![p] = Quiet] /\ UNCHANGED <<lightVars, linkage, pushVars>>

-----------------------------------------------------------------------------
(* The linkage. *)

LinkageStart == linkage \in {"off", "safe"} /\ linkage' = "on" /\ UNCHANGED <<lightVars, pub, pushVars>>

\* nop_light_linkage_panic.
Panic(c, on) ==
  /\ linkage = "on"
  /\ alarm' = [alarm EXCEPT ![c] = on] /\ lit' = [lit EXCEPT ![c] = on] /\ left' = [left EXCEPT ![c] = 0]
  /\ lamps' = [lamps EXCEPT ![c] = [light |-> on, siren |-> on]]
  /\ UNCHANGED <<linkage, pub, pushVars>>

\* The deadline of a held lamp has passed; panic has none.
Due(c) == lit[c] /\ ~alarm[c] /\ left[c] = 0

\* timer_thread: one sweep over the channels under the lock.
Sweep ==
  /\ linkage \in {"on", "joining"} /\ \E c \in Lamp : Due(c)
  /\ lit' = [c \in Lamp |-> lit[c] /\ ~Due(c)]
  /\ lamps' = [c \in Lamp |-> [lamps[c] EXCEPT !.light = @ /\ ~Due(c)]]
  /\ UNCHANGED <<left, alarm, linkage, pub, pushVars>>

\* nop_light_linkage_stop: the flag and the join, the unsubscribe, the lamps.
StopFlag == linkage = "on" /\ linkage' = "joining" /\ UNCHANGED <<lightVars, pub, pushVars>>
StopJoined == linkage = "joining" /\ linkage' = "unsubscribing" /\ UNCHANGED <<lightVars, pub, pushVars>>
\* bug: the unsubscribe does not wait for the publishers
BarrierOpen == TRUE
Barrier == \A p \in Publisher : pub[p].at = "idle"
StopUnsubscribed == linkage = "unsubscribing" /\ Barrier /\ linkage' = "detached" /\ UNCHANGED <<lightVars, pub, pushVars>>
StopSafe ==
  /\ linkage = "detached" /\ linkage' = "safe"
  /\ lamps' = [c \in Lamp |-> IF lit[c] \/ alarm[c] THEN [light |-> FALSE, siren |-> FALSE] ELSE lamps[c]]
  /\ lit' = [c \in Lamp |-> FALSE] /\ alarm' = [c \in Lamp |-> FALSE] /\ left' = [c \in Lamp |-> 0]
  /\ UNCHANGED <<pub, pushVars>>

-----------------------------------------------------------------------------
Older(a) == IF a < Old THEN a + 1 ELSE Old

\* A second passes.
Pass ==
  /\ \A p \in Publisher : pub[p].at = "policy" => pub[p].age < Delay
  /\ left' = [c \in Lamp |-> IF left[c] > 0 THEN left[c] - 1 ELSE 0]
  /\ pub' = [p \in Publisher |-> IF pub[p].at = "policy" THEN [pub[p] EXCEPT !.age = @ + 1] ELSE pub[p]]
  /\ sent' = [each |-> [c \in Lamp |-> [k \in Kind |-> Older(sent.each[c][k])]], last |-> Older(sent.last)]
  /\ plain' = [plain EXCEPT !.age = Older(@)]
  /\ UNCHANGED <<lit, alarm, lamps, linkage>>

Serve(p) == LightSink(p) \/ PushClock(p) \/ PushSend(p) \/ PushDropped(p)
Stop == StopJoined \/ StopUnsubscribed \/ StopSafe

AlertsNext ==
  \/ \E p \in Publisher : Serve(p) \/ \E c \in Reported, k \in Kind : Publish(p, c, k)
  \/ LinkageStart \/ StopFlag \/ Stop \/ Sweep \/ Pass
  \/ \E c \in Lamp, on \in BOOLEAN : Panic(c, on)

\* The timer thread and the publishers run, a stop goes on, time passes.
AlertsFairness ==
  /\ WF_alertVars(Sweep) /\ WF_alertVars(Pass) /\ WF_alertVars(Stop)
  /\ \A p \in Publisher : WF_alertVars(Serve(p))

AlertsSpec == AlertsInit /\ [][AlertsNext]_alertVars /\ AlertsFairness

-----------------------------------------------------------------------------
(* Properties. *)

\* Lamps, sirens, deadlines, the timer thread and the pushes.
AlertsTypeOK ==
  /\ lit \in [Lamp -> BOOLEAN] /\ left \in [Lamp -> 0 .. Hold] /\ alarm \in [Lamp -> BOOLEAN]
  /\ linkage \in {"off", "on", "joining", "unsubscribing", "detached", "safe"}
  /\ sent.last \in 0 .. Old /\ \A c \in Lamp, k \in Kind : sent.each[c][k] \in 0 .. Old
  /\ \A p \in Publisher : pub[p].age \in 0 .. Delay
  /\ \A c \in Lamp : lamps[c].light <=> lit[c]

(***************************************************************************)
(* svc_light_linkage.c, "leave hardware in a safe state": from the end of  *)
(* a stop to the next start no lamp burns and no siren sounds, whatever    *)
(* detection was being published while it stopped.                         *)
(***************************************************************************)
SafeWhenStopped == linkage \in {"off", "safe"} => \A c \in Lamp : ~lamps[c].light /\ ~lamps[c].siren

(***************************************************************************)
(* A panic is not cut short: its lamp burns and its siren sounds until it  *)
(* is cancelled or the linkage stops, although a detection had lit the     *)
(* lamp before and its deadline passes meanwhile.                          *)
(***************************************************************************)
PanicHolds ==
  linkage = "on" => \A c \in Lamp : alarm[c] => lamps[c].light /\ lamps[c].siren

(***************************************************************************)
(* A lamp goes out: when detections on its channel cease and no panic is   *)
(* left on, it is dark in the end.                                         *)
(***************************************************************************)
DarkInTheEnd ==
  \A c \in Lamp :
    <>[](~alarm[c] /\ \A p \in Publisher : pub[p].at = "light" => Index(pub[p].chan) # c) => <>[](~lamps[c].light)

(***************************************************************************)
(* Two pushes other than of a ring are Gap apart by the times they were    *)
(* judged by, in whatever order their publishers get the lock, except      *)
(* after a ring: a ring that was delayed sets the time of the last push    *)
(* back.                                                                   *)
(***************************************************************************)
PushesSpaced == plain.spaced

\* What holds of lamps, sirens and pushes at every moment.
AlertsSafe == AlertsTypeOK /\ SafeWhenStopped /\ PanicHolds /\ PushesSpaced
=============================================================================
