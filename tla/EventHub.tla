------------------------------ MODULE EventHub ------------------------------
(***************************************************************************)
(* The event hub of components/nop (services/svc_event.c): threads publish *)
(* detection events to the subscribed sinks and keep the last ones for     *)
(* queryEventList.  nop_media.c is the same table and the same barrier for *)
(* video frames, without the ring of events.                               *)
(*                                                                         *)
(* An action is one critical section under hub->mutex, or the call or the  *)
(* return of a sink, which runs outside it.  A subscriber is its sink and  *)
(* its context; it is "off" when no nop_event_unsubscribe of it is under   *)
(* way: its owner may free the context.  Only the owner unsubscribes, once *)
(* for a subscription.  An event is a model value; nop_event_hub_destroy   *)
(* and the unlocked nop_event_subscriber_count are left out.               *)
(***************************************************************************)
EXTENDS Integers, Sequences, FiniteSets

CONSTANTS
  Thread,     \* threads that call the hub
  Sub,        \* subscribers
  Event,      \* what is published
  None,       \* no subscriber
  NSinks,     \* NOP_EVENT_MAX_SINKS
  StoreSize,  \* NOP_EVENT_STORE_SIZE
  Reentrant,  \* may a sink call the hub?
  MaxDepth    \* bound: calls of the hub on the stack of a thread

ASSUME HubAssumption ==
  /\ IsFiniteSet(Thread)
  /\ None \notin Sub /\ Event # {}
  /\ NSinks \in Nat \ {0} /\ StoreSize \in Nat \ {0} /\ MaxDepth \in Nat \ {0}
  /\ Reentrant \in BOOLEAN

SinkSlot == 0 .. NSinks - 1

VARIABLES
  sinks,       \* hub->sinks: the subscriber in each slot, or None
  publishing,  \* hub->publishing
  store,       \* hub->store
  head,        \* hub->store_head
  count,       \* hub->store_count
  stack,       \* the calls of the hub each thread is in, innermost last
  life,        \* of each subscriber
  handle,      \* the slot nop_event_subscribe returned to it
  log          \* history: the last StoreSize events, newest first

hubVars == <<sinks, publishing, store, head, count>>
vars == <<hubVars, stack, life, handle, log>>

(***************************************************************************)
(* A call that is under way: a publish with the sinks still to be called   *)
(* and the one that runs, or an unsubscribe in its waiting loop.           *)
(***************************************************************************)
Frame == [op : {"publish", "leave"}, todo : SUBSET (SinkSlot \X Sub), cur : Sub \cup {None}]

Init ==
  /\ sinks = [i \in SinkSlot |-> None]
  /\ publishing = 0
  /\ store \in [0 .. StoreSize - 1 -> {CHOOSE e \in Event : TRUE}]
  /\ head = 0 /\ count = 0
  /\ stack = [t \in Thread |-> <<>>]
  /\ life = [s \in Sub |-> "off"]
  /\ handle = [s \in Sub |-> 0]
  /\ log = <<>>

-----------------------------------------------------------------------------
Top(t) == stack[t][Len(stack[t])]
In(t, op) == stack[t] # <<>> /\ Top(t).op = op
Push(t, f) == stack' = [stack EXCEPT ![t] = Append(@, f)]
Pop(t) == stack' = [stack EXCEPT ![t] = SubSeq(@, 1, Len(@) - 1)]
SetTop(t, f) == stack' = [stack EXCEPT ![t][Len(stack[t])] = f]

\* The thread is about to call the hub: from outside, or from a sink.
MayCall(t) ==
  \/ stack[t] = <<>>
  \/ /\ Reentrant /\ Len(stack[t]) < MaxDepth
     /\ In(t, "publish") /\ Top(t).cur # None

\* The first free slot of the table.
FreeSlot(i) == sinks[i] = None /\ \A j \in SinkSlot : j < i => sinks[j] # None

Subscribe(t, s) ==
  /\ MayCall(t) /\ life[s] = "off"
  /\ \E i \in SinkSlot :
       /\ FreeSlot(i)
       /\ sinks' = [sinks EXCEPT ![i] = s]
       /\ handle' = [handle EXCEPT ![s] = i]
  /\ life' = [life EXCEPT ![s] = "on"]
  /\ UNCHANGED <<publishing, store, head, count, stack, log>>

\* bug: unsubscribe returns without its barrier
LeaveNow(t, s) ==
  /\ MayCall(t) /\ life[s] = "on"
  /\ sinks' = [sinks EXCEPT ![handle[s]] = None]
  /\ life' = [life EXCEPT ![s] = "off"]
  /\ UNCHANGED <<publishing, store, head, count, handle, log, stack>>

\* nop_event_unsubscribe up to the first check of its loop.
Unsubscribe(t, s) ==
  /\ MayCall(t) /\ life[s] = "on"
  /\ sinks' = [sinks EXCEPT ![handle[s]] = None]
  /\ IF publishing > 0
     THEN /\ life' = [life EXCEPT ![s] = "leaving"]
          /\ Push(t, [op |-> "leave", todo |-> {}, cur |-> s])
     ELSE /\ life' = [life EXCEPT ![s] = "off"]
          /\ UNCHANGED stack
  /\ UNCHANGED <<publishing, store, head, count, handle, log>>

\* bug: the loop runs while publishing >= 0
LeaveBelowZero(t) ==
  /\ In(t, "leave") /\ publishing < 0
  /\ life' = [life EXCEPT ![Top(t).cur] = "off"]
  /\ Pop(t)
  /\ UNCHANGED <<hubVars, handle, log>>
\* A later check of the loop finds no publish in flight, and the call returns.
Leave(t) ==
  /\ In(t, "leave") /\ publishing = 0
  /\ life' = [life EXCEPT ![Top(t).cur] = "off"]
  /\ Pop(t)
  /\ UNCHANGED <<hubVars, handle, log>>

MinOf(a, b) == IF a < b THEN a ELSE b

\* bug: the ring is written one slot too far
RecordAhead(e) ==
  /\ store' = [store EXCEPT ![(head + 1) % StoreSize] = e]
  /\ head' = (head + 1) % StoreSize
  /\ count' = MinOf(count + 1, StoreSize)
  /\ log' = SubSeq(<<e>> \o log, 1, MinOf(Len(log) + 1, StoreSize))
\* nop_event_publish, the ring of recent events.
Record(e) ==
  /\ store' = [store EXCEPT ![head] = e]
  /\ head' = (head + 1) % StoreSize
  /\ count' = MinOf(count + 1, StoreSize)
  /\ log' = SubSeq(<<e>> \o log, 1, MinOf(Len(log) + 1, StoreSize))

Snapshot == {p \in SinkSlot \X Sub : sinks[p[1]] = p[2]}

\* nop_event_publish, first critical section.
Publish(t, e) ==
  /\ MayCall(t)
  /\ Record(e)
  /\ Push(t, [op |-> "publish", todo |-> Snapshot, cur |-> None])
  /\ publishing' = publishing + 1
  /\ UNCHANGED <<sinks, life, handle>>

\* The next sink is called, in the order of the table ...
Call(t) ==
  /\ In(t, "publish") /\ Top(t).cur = None
  /\ \E p \in Top(t).todo :
       /\ \A q \in Top(t).todo : p[1] <= q[1]
       /\ SetTop(t, [op |-> "publish", todo |-> Top(t).todo \ {p}, cur |-> p[2]])
  /\ UNCHANGED <<hubVars, life, handle, log>>

\* ... and returns.
Return(t) ==
  /\ In(t, "publish") /\ Top(t).cur # None
  /\ SetTop(t, [Top(t) EXCEPT !.cur = None])
  /\ UNCHANGED <<hubVars, life, handle, log>>

\* nop_event_publish, second critical section.
Published(t) ==
  /\ In(t, "publish") /\ Top(t).cur = None /\ Top(t).todo = {}
  /\ publishing' = publishing - 1
  /\ Pop(t)
  /\ UNCHANGED <<sinks, store, head, count, life, handle, log>>

\* What a thread does once it is in the hub.
Continue(t) == Leave(t) \/ Call(t) \/ Return(t) \/ Published(t)

PublishSome == \E t \in Thread, e \in Event : Publish(t, e)

Next ==
  \/ \E t \in Thread, s \in Sub : Subscribe(t, s) \/ Unsubscribe(t, s)
  \/ PublishSome
  \/ \E t \in Thread : Continue(t)

Spec == Init /\ [][Next]_vars

\* The scheduler runs every thread that is in the hub, and every sink returns.
FairSpec == Spec /\ \A t \in Thread : WF_vars(Continue(t))

-----------------------------------------------------------------------------
(* Properties. *)

\* The table of subscribers, the publishers under way and the ring of events.
TypeOK ==
  /\ sinks \in [SinkSlot -> Sub \cup {None}]
  /\ publishing \in Nat
  /\ store \in [0 .. StoreSize - 1 -> Event]
  /\ head \in 0 .. StoreSize - 1
  /\ count \in 0 .. StoreSize
  /\ stack \in [Thread -> Seq(Frame)]
  /\ life \in [Sub -> {"off", "on", "leaving"}]
  /\ handle \in [Sub -> SinkSlot]

Frames(t) == {stack[t][i] : i \in 1 .. Len(stack[t])}

(***************************************************************************)
(* svc_event.c:93 "so the caller can safely free the subscriber's context  *)
(* immediately after unsubscribe returns": no publish under way runs, or   *)
(* will run, the sink of a subscriber whose unsubscribe returned.          *)
(***************************************************************************)
NoCallAfterReturn ==
  \A s \in Sub : life[s] = "off" =>
    \A t \in Thread : \A f \in Frames(t) :
      f.op = "publish" => /\ f.cur # s
                          /\ \A p \in f.todo : p[2] # s

(***************************************************************************)
(* nop_event.h:66 nop_event_hub_recent returns "up to max recent events    *)
(* (newest first)": the ring and its wrap agree with the events published. *)
(***************************************************************************)
Recent(max) ==
  [i \in 1 .. MinOf(count, max) |-> store[(head - i + StoreSize) % StoreSize]]
RecentExact ==
  \A max \in 1 .. StoreSize + 1 :
    Recent(max) = SubSeq(log, 1, MinOf(max, Len(log)))

\* A sink waits in nop_event_unsubscribe, inside the publish that called it.
LeaveInSink == \E t \in Thread : Len(stack[t]) > 1 /\ In(t, "leave")

(***************************************************************************)
(* svc_event.c:108 has sinks run outside the lock so that "a sink may      *)
(* (un)subscribe re-entrantly", nop_media.c:99 adds "without deadlock":    *)
(* nop_event_unsubscribe returns once the publishers pause.  (While two of *)
(* them overlap for ever its loop never sees publishing = 0: new publishes *)
(* are waited for, too.)                                                   *)
(***************************************************************************)
UnsubscribeReturns ==
  <>[][~PublishSome]_vars
    => \A t \in Thread : In(t, "leave") ~> ~In(t, "leave")

(***************************************************************************)
(* The same as long as no sink unsubscribes from inside a publish.         *)
(***************************************************************************)
OutsideUnsubscribeReturns == []~LeaveInSink => UnsubscribeReturns

-----------------------------------------------------------------------------
(* The inductive invariant behind NoCallAfterReturn. *)

\* The publishes under way: thread and place on its stack.
InFlight == {x \in Thread \X (1 .. MaxDepth) :
               x[2] <= Len(stack[x[1]]) /\ stack[x[1]][x[2]].op = "publish"}

DepthOK == \A t \in Thread : Len(stack[t]) <= MaxDepth

Counted == publishing = Cardinality(InFlight)

TableOK == \A i \in SinkSlot : sinks[i] # None => life[sinks[i]] = "on" /\ handle[sinks[i]] = i

\* The call at place i of the stack of t waits on behalf of s.
Leaver(t, i, s) ==
  i \in 1 .. Len(stack[t]) /\ stack[t][i].op = "leave" /\ stack[t][i].cur = s

LeaversOK ==
  /\ \A t \in Thread, i \in 1 .. MaxDepth : ~Leaver(t, i, None)
  /\ \A t \in Thread, i \in 1 .. MaxDepth, s \in Sub :
       Leaver(t, i, s) => life[s] = "leaving"
  /\ \A t, u \in Thread, i, j \in 1 .. MaxDepth, s \in Sub :
       Leaver(t, i, s) /\ Leaver(u, j, s) => t = u /\ i = j

IInv == TypeOK /\ DepthOK /\ Counted /\ TableOK /\ LeaversOK /\ NoCallAfterReturn
=============================================================================
