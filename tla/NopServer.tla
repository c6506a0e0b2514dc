------------------------------ MODULE NopServer ------------------------------
(***************************************************************************)
(* The request path of components/nop: the client (client/nop_client.c),   *)
(* the Unix socket and the HTTP transport (transport/transport_unix.c,     *)
(* transport/http_server.c: one thread each, which serves one connection   *)
(* after the other), the router (nop/nop_router.c) and the long poll       *)
(* (nop/nop_longpoll.c), which hands out what the event hub has signalled  *)
(* (app/nop_app.c).                                                        *)
(*                                                                         *)
(* A request is the list of its commands: one, or those of a batch.  A Unix connection carries       *)
(* frames until its client closes it, an HTTP connection one request.      *)
(* Requests are numbered for the properties: no number is sent.  A write   *)
(* to a closed connection is the error the code tests for (SIGPIPE is      *)
(* ignored by the program that embeds the library).                        *)
(***************************************************************************)
EXTENDS Integers, Sequences, FiniteSets

CONSTANTS
  Peer,    \* clients, each with at most one connection
  Requests,\* lists of commands: "poll", and anything that is answered without being run
  Asks     \* bound on the requests of a connection

Nobody == "nobody"

ServerAssumption == Asks \in Nat \ {0} /\ Requests \subseteq Seq(STRING) /\ Nobody \notin Peer

VARIABLES
  thread,   \* the thread of each server: where it is, its connection, its request, the results so far
  closing,  \* stop
  backlog,  \* connections that are not accepted yet
  wire,     \* the connections
  bits,     \* pending_bits
  owed      \* history: the last event signalled has reached no client, and was not dropped with an answer

serverVars == <<thread, closing, backlog, wire, bits, owed>>

Transport == {"unix", "http"}

Unconnected == [at |-> "closed", on |-> "unix", asked |-> 0, waits |-> FALSE, in |-> <<>>, out |-> <<>>,
                late |-> 0, shift |-> {}]
At(place) == [at |-> place, who |-> Nobody, no |-> 0, req |-> <<>>, step |-> 0, done |-> <<>>, news |-> FALSE]

ServerInit ==
  /\ thread = [t \in Transport |-> At("select")] /\ closing = [t \in Transport |-> FALSE]
  /\ backlog = [t \in Transport |-> <<>>]
  /\ wire = [k \in Peer |-> Unconnected]
  /\ bits = FALSE /\ owed = FALSE

-----------------------------------------------------------------------------
(* The client. *)

Waiting(t) == {backlog[t][i] : i \in DOMAIN backlog[t]}

\* A client stands for one connection at a time, up to the end of its service.
Connect(k, t) ==
  /\ wire[k].at = "closed" /\ thread[t].at # "over"
  /\ \A u \in Transport : thread[u].who # k /\ k \notin Waiting(u)
  /\ wire' = [wire EXCEPT ![k] = [Unconnected EXCEPT !.at = "open", !.on = t]]
  /\ backlog' = [backlog EXCEPT ![t] = Append(@, k)]
  /\ UNCHANGED <<thread, closing, bits, owed>>

Wire(k, w) == wire' = [wire EXCEPT ![k] = w] /\ UNCHANGED <<thread, closing, backlog, bits>>

\* nop_client_call writes the request and waits.
Ask(k, r) ==
  LET w == wire[k] IN
  /\ w.at = "open" /\ ~w.waits /\ w.asked < (IF w.on = "http" THEN 1 ELSE Asks)
  /\ Wire(k, [w EXCEPT !.asked = @ + 1, !.waits = TRUE, !.shift = {}, !.in = Append(@, [no |-> w.asked + 1, req |-> r])])
  /\ UNCHANGED owed

Take(k) ==
  LET w == wire[k]  answer == Head(w.out) IN
  /\ w.waits /\ w.out # <<>>
  /\ Wire(k, [w EXCEPT !.waits = FALSE, !.out = Tail(@),
                       !.shift = {w.asked - answer.no}])
  /\ owed' = (owed /\ ~answer.news)

\* SO_RCVTIMEO: the request has been made, its answer may still come.
TimesOut(k) ==
  /\ wire[k].waits /\ wire[k].out = <<>> /\ wire[k].at = "open"
  /\ Wire(k, [wire[k] EXCEPT !.waits = FALSE, !.late = @ + 1, !.shift = {}]) /\ UNCHANGED owed

\* The server has hung up: read_frame fails.
HungUp(k) ==
  /\ wire[k].waits /\ wire[k].out = <<>> /\ wire[k].at = "hung"
  /\ Wire(k, [wire[k] EXCEPT !.waits = FALSE]) /\ UNCHANGED owed

InWire(k) == \E i \in DOMAIN wire[k].out : wire[k].out[i].news

\* nop_channel_unix_close: what was under way is lost.
Close(k) ==
  /\ wire[k].at # "closed" /\ ~wire[k].waits
  /\ wire' = [wire EXCEPT ![k] = Unconnected]
  /\ owed' = (owed /\ ~InWire(k))
  /\ UNCHANGED <<thread, closing, backlog, bits>>

-----------------------------------------------------------------------------
(* The servers. *)

Thread(t, h) == thread' = [thread EXCEPT ![t] = h]

\* The flag of stop; it joins the thread after it.
ServerStop(t) ==
  /\ thread[t].at # "over" /\ ~closing[t] /\ closing' = [closing EXCEPT ![t] = TRUE]
  /\ UNCHANGED <<thread, backlog, wire, bits, owed>>

\* select and accept. A connection that was closed meanwhile is accepted, and ends at once.
Accept(t) ==
  /\ thread[t].at = "select" /\ ~closing[t] /\ backlog[t] # <<>>
  /\ Thread(t, [At("read") EXCEPT !.who = Head(backlog[t])])
  /\ backlog' = [backlog EXCEPT ![t] = Tail(@)]
  /\ UNCHANGED <<closing, wire, bits, owed>>

\* The loop sees the flag; the listening socket is closed after the join, and what waits at it is cut off.
LoopEnds(t) ==
  /\ thread[t].at = "select" /\ closing[t] /\ Thread(t, At("over"))
  /\ wire' = [k \in Peer |-> IF k \in Waiting(t)
                             THEN IF wire[k].at = "closed" THEN wire[k] ELSE [wire[k] EXCEPT !.at = "hung", !.in = <<>>] ELSE wire[k]]
  /\ backlog' = [backlog EXCEPT ![t] = <<>>]
  /\ UNCHANGED <<closing, bits, owed>>

\* The connection the thread serves is still that of its client.
Mine(t) == thread[t].who \in Peer /\ wire[thread[t].who].at = "open"

Reads(t) ==
  LET h == thread[t]  m == Head(wire[h.who].in) IN
  /\ h.at = "read" /\ Mine(t) /\ wire[h.who].in # <<>>
  /\ Thread(t, [h EXCEPT !.at = "run", !.no = m.no, !.req = m.req])
  /\ wire' = [wire EXCEPT ![h.who].in = Tail(@)]
  /\ UNCHANGED <<closing, backlog, bits, owed>>

End(t) == ~Mine(t)

\* The peer closed: the next connection.
ReadEnds(t) ==
  /\ thread[t].at = "read" /\ End(t) /\ Thread(t, At("select"))
  /\ UNCHANGED <<closing, backlog, wire, bits, owed>>

Listed(done, c) == Append(done, c)

\* bug: the drain comes before the gate
PendingGated(c, drains) == bits /\ c # "poll"
Pending(c, drains) == bits /\ ~drains

\* One command of the request. A poll drains the bits, unless its capability is off at the time (501).
Dispatch(t) ==
  LET h == thread[t]  i == h.step + 1  c == h.req[i] IN
  /\ h.at = "run" /\ i <= Len(h.req)
  /\ \E drains \in {FALSE, c = "poll"} :
       /\ Thread(t, [h EXCEPT !.step = i, !.done = Listed(h.done, c), !.news = @ \/ (drains /\ bits)])
       /\ bits' = Pending(c, drains)
  /\ UNCHANGED <<closing, backlog, wire, owed>>

Ready(t) == thread[t].at = "run" /\ thread[t].step = Len(thread[t].req)

\* An HTTP connection ends with its answer.
Kept(t) == t = "unix"

Reply(t) ==
  LET h == thread[t] IN
  /\ Ready(t) /\ Mine(t)
  /\ Thread(t, IF Kept(t) THEN [At("read") EXCEPT !.who = h.who] ELSE At("select"))
  /\ wire' = [wire EXCEPT ![h.who].out = Append(@, [no |-> h.no, news |-> h.news]),
                          ![h.who].at = IF Kept(t) THEN @ ELSE "hung"]
  /\ UNCHANGED <<closing, backlog, bits, owed>>

\* write_fully fails: the results are dropped.
ReplyFails(t) ==
  /\ Ready(t) /\ ~Mine(t) /\ Thread(t, At("select"))
  /\ owed' = (owed /\ ~thread[t].news)
  /\ UNCHANGED <<closing, backlog, wire, bits>>

-----------------------------------------------------------------------------
(* The application. *)

\* nop_app_event_to_longpoll: the bridge from the event hub.
Signal == bits' = TRUE /\ owed' = TRUE /\ UNCHANGED <<thread, closing, backlog, wire>>

Serves(t) == LoopEnds(t) \/ Accept(t) \/ Reads(t) \/ ReadEnds(t) \/ Dispatch(t) \/ Reply(t) \/ ReplyFails(t)
Hears(k) == Take(k) \/ TimesOut(k) \/ HungUp(k)

ServerNext ==
  \/ Signal
  \/ \E t \in Transport : ServerStop(t) \/ Serves(t)
  \/ \E k \in Peer : Hears(k) \/ Close(k) \/ (\E t \in Transport : Connect(k, t)) \/ \E r \in Requests : Ask(k, r)

\* The servers run. Nothing makes a client close: it is assumed, for the property that needs it.
ServerFairness ==
  /\ \A t \in Transport : WF_serverVars(Serves(t))
  /\ \A k \in Peer : WF_serverVars(Hears(k)) /\ WF_serverVars(Close(k))

ServerSpec == ServerInit /\ [][ServerNext]_serverVars /\ ServerFairness

-----------------------------------------------------------------------------
(* Properties. *)

\* The threads of the two servers and what is on the wire.
ServerTypeOK ==
  /\ \A t \in Transport :
       /\ thread[t].at \in {"select", "read", "run", "over"} /\ thread[t].step \in 0 .. Len(thread[t].req)
       /\ thread[t].at \in {"read", "run"} <=> thread[t].who \in Peer
  /\ \A k \in Peer : wire[k].at \in {"closed", "open", "hung"} /\ wire[k].late <= wire[k].asked /\ wire[k].asked <= Asks
  /\ {bits, owed} \subseteq BOOLEAN

(***************************************************************************)
(* nop_client_call: a client takes the answer of its own request, unless   *)
(* requests timed out before on this connection: each of them shifts all   *)
(* later answers by one, since nothing in an answer says what it answers.  *)
(***************************************************************************)
AnswersShift == \A k \in Peer : wire[k].shift \subseteq {wire[k].late}

(***************************************************************************)
(* nop_router.c: an answer has one result for each command of its request, *)
(* in their order, those that are unknown, gated or nested included.       *)
(***************************************************************************)
OneResultEach == \A t \in Transport : thread[t].at = "run" => thread[t].done = SubSeq(thread[t].req, 1, thread[t].step)

(***************************************************************************)
(* nop_longpoll.c: an event that was signalled while two servers drain the *)
(* bits is still pending, or is in an answer on its way, until a client    *)
(* has it; only an answer that is never written or read loses it.          *)
(***************************************************************************)
EventKept ==
  owed => \/ bits
          \/ \E t \in Transport : thread[t].at = "run" /\ thread[t].news
          \/ \E k \in Peer : InWire(k)

(***************************************************************************)
(* nop_unix_server_stop and nop_http_server_stop return, if every client   *)
(* closes its connection some day: the thread looks at the flag between    *)
(* two connections only (not within the 200 ms of select).                 *)
(***************************************************************************)
ServerStopReturns == \A t \in Transport : closing[t] ~> thread[t].at = "over" \/ ~closing[t]

\* What holds of requests and answers at every moment: each its own, complete, and no event lost between.
ServerSafe == ServerTypeOK /\ AnswersShift /\ OneResultEach /\ EventKept
=============================================================================
