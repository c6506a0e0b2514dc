------------------------------ MODULE CameraLink ------------------------------
(***************************************************************************)
(* The event link of a camera (svc_event8012.c, the server on port 8012)   *)
(* and the receiver of the NVR (svc_event8012_client.c).                   *)
(*                                                                         *)
(* The server has an acceptor, one thread per connection, and the sink     *)
(* that the event hub calls from any publishing thread. The list of        *)
(* connections has a lock (list_lock) that a fan-out holds to its end, and *)
(* every connection one for writing (write_lock).                          *)
(***************************************************************************)
EXTENDS Integers, Sequences, FiniteSets

CONSTANTS
  Client,      \* the receivers, one connection each
  Knows,       \* those among them with the right password
  Publisher,   \* threads that publish detections
  None,
  MaxEvents,   \* bound on the detections of a behaviour
  Pictures,    \* the detections among them that carry a picture
  Room         \* messages a socket takes before a write blocks

LinkAssumption ==
  /\ MaxEvents \in Nat /\ Pictures \subseteq 1 .. MaxEvents /\ Room \in Nat \ {0} /\ Knows \subseteq Client
  /\ None \notin Client \cup Publisher \cup (0 .. MaxEvents) /\ IsFiniteSet(Publisher)

VARIABLES
  stopping,   \* how far nop_event8012_server_stop has come
  acceptor,   \* pc of the accept loop and the connection in its hands
  conn,       \* per client, its connection on the server: pc of its thread, logged, dead
  up, down,   \* what is under way to the server and to the client
  shut,       \* connections whose socket the server shut down or closed
  left,       \* clients that closed their end
  pub,        \* per publisher: the detection it is in the sink with
  fan,        \* the fan-out that holds list_lock: of whom, what is left, the half-written one
  client,     \* per client: pc, and the detections it received
  fanned      \* history: the detections in the order they took list_lock

vars == <<stopping, acceptor, conn, up, down, shut, left, pub, fan, client, fanned>>
server == <<stopping, acceptor, conn, shut, pub, fan, fanned>>

Event == 1 .. MaxEvents
Msg(kind, n) == [kind |-> kind, n |-> n]
Nobody == [by |-> None, todo |-> {}, body |-> None]

\* The acceptor, the threads of connections and the publishers of svc_event8012.c.
TypeOK ==
  /\ stopping \in {"no", "flag", "join", "drain", "shutdown", "wait", "freed"}
  /\ acceptor.pc \in {"off", "check", "select", "create", "detach", "gone"}
  /\ acceptor.pc = "create" => conn[acceptor.conn].pc = "linked"
  /\ \A c \in Client :
       /\ conn[c].pc \in {"none", "linked", "check", "read", "ok", "fail", "remove", "gone"}
       /\ client[c].pc \in {"off", "login", "up", "refused", "over"}
       /\ Len(down[c]) <= Room + 3
       /\ client[c].pc = "off" => conn[c].pc = "none"
  /\ shut \cup left \subseteq Client
  /\ \A p \in Publisher : pub[p] = None \/ pub[p] \in Event
  /\ fan.by # None => fan.todo \subseteq Client /\ pub[fan.by] \in Event

Init ==
  /\ stopping = "no" /\ acceptor = [pc |-> "off", conn |-> None]
  /\ conn = [c \in Client |-> [pc |-> "none", logged |-> FALSE, dead |-> FALSE]]
  /\ up = [c \in Client |-> <<>>] /\ down = [c \in Client |-> <<>>]
  /\ shut = {} /\ left = {}
  /\ pub = [p \in Publisher |-> None] /\ fan = Nobody
  /\ client = [c \in Client |-> [pc |-> "off", got |-> <<>>]]
  /\ fanned = <<>>

Linked == {c \in Client : conn[c].pc \notin {"none", "gone"}}
Ended(c) == c \in shut \/ c \in left
ListFree == fan.by = None

-----------------------------------------------------------------------------
(* nop_event8012_server_start and accept_loop. *)

Started == acceptor.pc # "off"

\* It listens, subscribes, and creates the acceptor; when one of these fails nothing is left of the others.
Start ==
  /\ ~Started
  /\ acceptor' = [pc |-> "check", conn |-> None]
  /\ UNCHANGED <<stopping, conn, up, down, shut, left, pub, fan, client, fanned>>

Check ==
  /\ acceptor.pc = "check"
  /\ acceptor' = [pc |-> IF stopping = "no" THEN "select" ELSE "gone", conn |-> None]
  /\ UNCHANGED <<stopping, conn, up, down, shut, left, pub, fan, client, fanned>>

SelectTimeout ==
  /\ acceptor.pc = "select"
  /\ acceptor' = [pc |-> "check", conn |-> None]
  /\ UNCHANGED <<stopping, conn, up, down, shut, left, pub, fan, client, fanned>>

Accept(c) ==
  /\ acceptor.pc = "select" /\ client[c].pc = "login" /\ conn[c].pc = "none" /\ ListFree
  /\ acceptor' = [pc |-> "create", conn |-> c]
  /\ conn' = [conn EXCEPT ![c].pc = "linked"]
  /\ UNCHANGED <<stopping, up, down, shut, left, pub, fan, client, fanned>>

Create ==
  /\ acceptor.pc = "create"
  /\ acceptor' = [acceptor EXCEPT !.pc = "detach"]
  /\ conn' = [conn EXCEPT ![acceptor.conn].pc = "check"]
  /\ UNCHANGED <<stopping, up, down, shut, left, pub, fan, client, fanned>>

\* pthread_create fails: conn_remove.
CreateFails ==
  /\ acceptor.pc = "create" /\ ListFree
  /\ acceptor' = [pc |-> "check", conn |-> None]
  /\ conn' = [conn EXCEPT ![acceptor.conn].pc = "gone"]
  /\ shut' = shut \cup {acceptor.conn}
  /\ UNCHANGED <<stopping, up, down, left, pub, fan, client, fanned>>

Detach ==
  /\ acceptor.pc = "detach"
  /\ acceptor' = [pc |-> "check", conn |-> None]
  /\ UNCHANGED <<stopping, conn, up, down, shut, left, pub, fan, client, fanned>>

-----------------------------------------------------------------------------
(* conn_thread. *)

Go(c, pc) == conn' = [conn EXCEPT ![c].pc = pc]

\* bug: only the stop of the server ends the loop
LoopWhileRunning(c) ==
  /\ conn[c].pc = "check"
  /\ Go(c, IF stopping # "no" THEN "remove" ELSE "read")
  /\ UNCHANGED <<stopping, acceptor, up, down, shut, left, pub, fan, client, fanned>>
Loop(c) ==
  /\ conn[c].pc = "check"
  /\ Go(c, IF stopping # "no" \/ conn[c].dead THEN "remove" ELSE "read")
  /\ UNCHANGED <<stopping, acceptor, up, down, shut, left, pub, fan, client, fanned>>

Read(c) ==
  /\ conn[c].pc = "read" /\ up[c] # <<>>
  /\ up' = [up EXCEPT ![c] = Tail(@)]
  /\ CASE Head(up[c]) = "login" -> conn' = [conn EXCEPT ![c].pc = "ok", ![c].logged = TRUE]
       [] Head(up[c]) = "wrong" -> Go(c, "fail")
       [] OTHER -> Go(c, "check")
  /\ UNCHANGED <<stopping, acceptor, down, shut, left, pub, fan, client, fanned>>

ReadFails(c) ==
  /\ conn[c].pc = "read" /\ Ended(c) /\ up[c] = <<>>
  /\ Go(c, "remove")
  /\ UNCHANGED <<stopping, acceptor, up, down, shut, left, pub, fan, client, fanned>>

WriteLockFree(c) == fan.body # c

\* send_header_only: its result is not looked at.
Ack(c) ==
  /\ conn[c].pc \in {"ok", "fail"} /\ WriteLockFree(c)
  /\ Go(c, IF conn[c].pc = "ok" THEN "check" ELSE "remove")
  /\ \/ ~Ended(c) /\ Len(down[c]) < Room
        /\ down' = [down EXCEPT ![c] = Append(@, Msg(conn[c].pc, 0))]
     \/ (Ended(c) \/ Len(down[c]) >= Room) /\ UNCHANGED down
     \/ ~Ended(c) /\ Len(down[c]) >= Room
        /\ down' = [down EXCEPT ![c] = Append(@, Msg("torn", 0))]
  /\ UNCHANGED <<stopping, acceptor, up, shut, left, pub, fan, client, fanned>>

Unlink(c) == conn[c].pc = "remove" /\ Go(c, "gone")

\* conn_remove: unlinked and counted off under list_lock, closed and freed.
ConnRemove(c) ==
  /\ ListFree /\ Unlink(c)
  /\ shut' = shut \cup {c}
  /\ UNCHANGED <<stopping, acceptor, up, down, left, pub, fan, client, fanned>>

-----------------------------------------------------------------------------
(* nop_event_publish and ev8012_sink. *)

Published == Len(fanned) + Cardinality({p \in Publisher : pub[p] # None /\ fan.by # p})

Publish(p) ==
  /\ Started /\ pub[p] = None /\ stopping \in {"no", "flag", "join"}
  /\ Published < MaxEvents
  /\ pub' = [pub EXCEPT ![p] = Published + 1]
  /\ UNCHANGED <<stopping, acceptor, conn, up, down, shut, left, fan, client, fanned>>

LockList(p) ==
  /\ pub[p] # None /\ ListFree
  /\ fan' = [by |-> p, todo |-> Linked, body |-> None]
  /\ fanned' = Append(fanned, pub[p])
  /\ UNCHANGED <<stopping, acceptor, conn, up, down, shut, left, pub, client>>

NextConn(c) == [fan EXCEPT !.todo = @ \ {c}, !.body = None]

Writable(c) == conn[c].logged /\ ~conn[c].dead

Skip(c) ==
  /\ c \in fan.todo /\ fan.body = None /\ ~Writable(c)
  /\ fan' = NextConn(c)
  /\ UNCHANGED <<stopping, acceptor, conn, up, down, shut, left, pub, client, fanned>>

\* The header of the message, and with it all of one that has no picture.
WriteHead(c) ==
  /\ c \in fan.todo /\ fan.body = None /\ Writable(c)
  /\ ~Ended(c) /\ Len(down[c]) < Room
  /\ LET e == pub[fan.by] IN
     /\ down' = [down EXCEPT ![c] = Append(@, Msg(IF e \in Pictures THEN "head" ELSE "event", e))]
     /\ fan' = IF e \in Pictures THEN [fan EXCEPT !.body = c] ELSE NextConn(c)
  /\ UNCHANGED <<stopping, acceptor, conn, up, shut, left, pub, client, fanned>>

WriteBody(c) ==
  /\ fan.body = c /\ ~Ended(c)
  /\ down' = [down EXCEPT ![c] = Append(@, Msg("body", pub[fan.by]))]
  /\ fan' = NextConn(c)
  /\ UNCHANGED <<stopping, acceptor, conn, up, shut, left, pub, client, fanned>>

Dies(c) == conn' = [conn EXCEPT ![c].dead = TRUE]

\* SO_SNDTIMEO ends a write into a full socket, which may have taken a part.
WriteFails(c) ==
  /\ c \in fan.todo /\ fan.body \in {None, c} /\ Writable(c)
  /\ Ended(c) \/ Len(down[c]) >= Room
  /\ \/ UNCHANGED down
     \/ ~Ended(c) /\ down' = [down EXCEPT ![c] = Append(@, Msg("torn", pub[fan.by]))]
  /\ Dies(c)
  /\ fan' = NextConn(c)
  /\ UNCHANGED <<stopping, acceptor, up, shut, left, pub, client, fanned>>

UnlockList ==
  /\ fan.by # None /\ fan.todo = {}
  /\ fan' = Nobody /\ pub' = [pub EXCEPT ![fan.by] = None]
  /\ UNCHANGED <<stopping, acceptor, conn, up, down, shut, left, client, fanned>>

-----------------------------------------------------------------------------
(* nop_event8012_server_stop. *)

Joined == acceptor.pc = "gone"

\* bug: the publishing threads are not waited for
NotDrained == TRUE
Drained == \A p \in Publisher : pub[p] = None

StopAdvance ==
  \/ stopping = "no" /\ stopping' = "flag" /\ UNCHANGED <<conn, shut>>
  \/ stopping = "flag" /\ Joined /\ stopping' = "join" /\ UNCHANGED <<conn, shut>>
  \/ stopping = "join" /\ stopping' = "drain" /\ UNCHANGED <<conn, shut>>
  \/ stopping = "drain" /\ Drained /\ stopping' = "shutdown" /\ UNCHANGED <<conn, shut>>
  \/ /\ stopping = "shutdown" /\ ListFree /\ stopping' = "wait"
     /\ conn' = [c \in Client |-> IF c \in Linked THEN [conn[c] EXCEPT !.dead = TRUE] ELSE conn[c]]
     /\ shut' = shut \cup Linked
  \/ /\ stopping = "wait" /\ ListFree /\ Linked = {} /\ stopping' = "freed"
     /\ shut' = Client /\ UNCHANGED conn

Stop ==
  /\ Started /\ StopAdvance
  /\ UNCHANGED <<acceptor, up, down, left, pub, fan, client, fanned>>

-----------------------------------------------------------------------------
(* The client: connect_and_login, client_thread, client_stop. *)

Turn(c, pc) == client' = [client EXCEPT ![c].pc = pc]
Close(c, pc) ==
  /\ client' = [client EXCEPT ![c].pc = pc, ![c].got = <<>>]
  /\ left' = left \cup {c} /\ down' = [down EXCEPT ![c] = <<>>]

Connect(c) ==
  /\ Started /\ client[c].pc = "off" /\ stopping # "freed"
  /\ Turn(c, "login")
  /\ up' = [up EXCEPT ![c] = <<IF c \in Knows THEN "login" ELSE "wrong">>]
  /\ UNCHANGED <<server, down, left>>

\* The first header that comes has to be ACK_OK.
ReadAnswer(c) ==
  /\ client[c].pc = "login" /\ down[c] # <<>>
  /\ \/ /\ Head(down[c]).kind = "ok" /\ Turn(c, "up")
        /\ down' = [down EXCEPT ![c] = Tail(@)] /\ UNCHANGED left
     \/ Head(down[c]).kind # "ok" /\ Close(c, "refused")
  /\ UNCHANGED <<server, up>>

Receive(c) ==
  /\ client[c].pc = "up" /\ down[c] # <<>>
  /\ \/ /\ Head(down[c]).kind = "event"
        /\ down' = [down EXCEPT ![c] = Tail(@)]
     \/ /\ Head(down[c]).kind = "head" /\ Len(down[c]) > 1 /\ down[c][2].kind = "body"
        /\ down' = [down EXCEPT ![c] = Tail(Tail(@))]
  /\ client' = [client EXCEPT ![c].got = Append(@, Head(down[c]).n)]
  /\ UNCHANGED <<server, up, left>>

\* Nothing, a part of a message, or something else for IO_TIMEOUT seconds; or
\* the other end closed; or client_stop.
HangUp(c) ==
  /\ client[c].pc \in {"login", "up"}
  /\ Close(c, "over")
  /\ UNCHANGED <<server, up>>

Stuck(c) == client[c].pc \in {"login", "up"} /\
  \/ c \in shut /\ down[c] = <<>>
  \/ down[c] # <<>> /\ Head(down[c]).kind \in {"torn", "head"} /\ Len(down[c]) = 1

Heartbeat(c) ==
  /\ client[c].pc = "up" /\ up[c] = <<>> /\ c \notin shut
  /\ up' = [up EXCEPT ![c] = <<"beat">>]
  /\ UNCHANGED <<server, down, left, client>>

-----------------------------------------------------------------------------
Acceptor == Check \/ SelectTimeout \/ (\E c \in Client : Accept(c)) \/ Create \/ CreateFails \/ Detach
Conn(c) == Loop(c) \/ Read(c) \/ ReadFails(c) \/ Ack(c) \/ ConnRemove(c)
Fan == UnlockList \/ \E c \in Client : Skip(c) \/ WriteHead(c) \/ WriteBody(c) \/ WriteFails(c)
Receiver(c) == ReadAnswer(c) \/ Receive(c) \/ Heartbeat(c) \/ (Stuck(c) /\ HangUp(c))

Next ==
  \/ Start \/ Acceptor \/ Fan \/ Stop
  \/ \E p \in Publisher : Publish(p) \/ LockList(p)
  \/ \E c \in Client : Conn(c) \/ Receiver(c) \/ Connect(c) \/ HangUp(c)

\* Threads are scheduled; nobody has to start the server, connect, publish, or call stop.
Fairness ==
  /\ WF_vars(Acceptor) /\ WF_vars(Fan) /\ WF_vars(stopping # "no" /\ Stop)
  /\ \A p \in Publisher : WF_vars(LockList(p))
  /\ \A c \in Client : WF_vars(Loop(c) \/ Read(c) \/ ReadFails(c)) /\ WF_vars(Ack(c)) /\ WF_vars(ConnRemove(c))
  /\ \A c \in Client : WF_vars(Receiver(c))

Spec == Init /\ [][Next]_vars /\ Fairness

-----------------------------------------------------------------------------
(* Properties. *)

(***************************************************************************)
(* When nop_event8012_server_stop frees the server nobody is left to use   *)
(* it: no thread of a connection, no sink called by a publisher, no        *)
(* acceptor; and no fan-out walks over a connection that was freed.        *)
(***************************************************************************)
ServerOutlives ==
  /\ stopping = "freed" => /\ acceptor.pc = "gone" /\ Linked = {} /\ fan = Nobody
                           /\ \A p \in Publisher : pub[p] = None
  /\ fan.todo \subseteq Linked

(***************************************************************************)
(* The bytes to a client stay a sequence of messages: a picture follows    *)
(* its own header, whichever threads write, and after a message that was   *)
(* cut off by the send timeout nothing is sent.                            *)
(***************************************************************************)
Framed ==
  \A c \in Client : client[c].pc = "up" => \A i \in 1 .. Len(down[c]) - 1 :
    /\ down[c][i].kind # "torn"
    /\ down[c][i].kind = "head" => /\ down[c][i + 1].kind \in {"body", "torn"}
                                   /\ down[c][i + 1].n = down[c][i].n

\* The detections whose first bytes are in a stream, and how many of them there are up to place i.
Starts(s) == {i \in DOMAIN s : s[i].kind \in {"event", "head"}}
UpTo(s, i) == Cardinality({j \in Starts(s) : j <= i})

\* What was received, and then what is under way, are the fan-outs from the (k + 1)-th on.
FollowsFrom(k, got, s) ==
  /\ \A i \in DOMAIN got : got[i] = fanned[k + i]
  /\ \A i \in Starts(s) : s[i].n = fanned[k + Len(got) + UpTo(s, i)]
SentTo(c) == Len(client[c].got) + Cardinality(Starts(down[c]))

(***************************************************************************)
(* Every client gets the detections in one order, without a gap from its   *)
(* login on: what was sent to it is a run of the fan-outs, and reaches to  *)
(* the last one as long as its connection is good.                         *)
(***************************************************************************)
SameOrderNoGap ==
  \A c \in Client : SentTo(c) > 0 =>
    \E k \in 0 .. Len(fanned) - SentTo(c) :
      /\ FollowsFrom(k, client[c].got, down[c])
      /\ Writable(c) /\ c \in Linked /\ ListFree => k + SentTo(c) = Len(fanned)

(***************************************************************************)
(* A stop of the server returns, whatever the connections are doing, and   *)
(* with clients that read nothing.                                         *)
(***************************************************************************)
StopReturns == (stopping = "flag") ~> (stopping = "freed")

(***************************************************************************)
(* A connection whose stream broke does not stay in the list: its thread   *)
(* sits in a read, and the next heartbeat or hang-up of the client gets it *)
(* out.                                                                    *)
(***************************************************************************)
BrokenLeaves == \A c \in Client : conn[c].dead ~> (conn[c].pc = "gone")

\* What holds of the link at every moment, and what comes of it in the end.
LinkSafe == TypeOK /\ ServerOutlives /\ Framed /\ SameOrderNoGap
\* A stop returns, and a broken connection leaves the list.
LinkLive == StopReturns /\ BrokenLeaves
=============================================================================
