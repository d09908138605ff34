---------------------------- MODULE BackendClient ----------------------------
(***************************************************************************)
(* The desktop client's connection to the backend (backend-client.ts): one *)
(* WebSocket at a time as far as the client knows, a promise that callers  *)
(* share while it is being opened, and the requests that wait for their    *)
(* answers.                                                                *)
(*                                                                         *)
(* Each action is one task of the main process's event loop, with the      *)
(* promise callbacks it causes, or one step of the network or the server.  *)
(* A WebSocket that is being closed stays in the state "closing" until its *)
(* close event; the client forgets it as soon as its readyState is not     *)
(* OPEN, so a new one may be opened before that event comes.               *)
(***************************************************************************)
EXTENDS Naturals, Sequences, FiniteSets

CONSTANTS
  Sockets,   \* WebSocket objects, each with the session the server gives it
  Calls,     \* requests of the renderer; one that has returned is used again
  Rooms,     \* room codes
  Nil        \* null; the empty room code

ASSUME NilAssumption == Nil \notin Sockets \cup Calls \cup Rooms

VARIABLES
  socket,    \* this.socket
  opener,    \* the socket this.connectPromise waits for; Nil: no promise
  hello,     \* TRUE while the hello request of opener is in pendingRequests
  beat,      \* TRUE while heartbeatTimer runs
  conn,      \* state.connectionState
  self,      \* state.selfSessionId, as the socket the session belongs to
  room,      \* state.roomCode
  call,      \* call[c]: where request c is, see CallState
  ready,     \* ready[k]: readyState of socket k; "none": no such object
  up,        \* up[k]: the messages on their way to the server, or in its hands
  down,      \* down[k]: the messages on their way to the client
  alive,     \* the sockets that are open at the server
  shook,     \* those with ws.data.didHandshake
  seat,      \* seat[k]: the room of the session of socket k, at the server
  crossed    \* history: the sockets where a leave_room has overtaken a join_room

client  == <<socket, opener, hello, beat, conn, self, room, call>>
network == <<ready, up, down, alive, shook, seat, crossed>>
vars    == <<client, network>>

\* Requests by what their answers do to the client: create_room and join_room
\* enter a room, leave_room leaves it; take_owner, set_display_name and
\* set_room_settings change nothing here and are answered by a broadcast.
Kinds == {"enter", "leave", "other"}

\* A handler that has written what was asked for and goes on reading: entered
\* waits for what room r holds, to answer with it, carriedOut for the
\* participants of room r, to tell them.
Message ==
  [type : {"hello"} \cup Kinds, c : Calls \cup {Nil}]
    \cup [type : {"entered", "carriedOut"}, c : Calls, r : Rooms]

Answer ==
  [type : {"helloAck", "roomJoined", "participantLeft", "otherDone", "error"},
   c : Calls \cup {Nil}, r : Rooms \cup {Nil}]

\* waiting: for connectPromise.  pending: in pendingRequests, sent on socket k.
\* refused: pending, and an error has arrived as its answer.
\* unheard: pending, and its answer has gone to a room its session had left.
CallState ==
  [pc : {"idle", "waiting", "pending", "refused", "unheard"}, kind : Kinds, k : Sockets \cup {Nil}]

Idle == [pc |-> "idle", kind |-> "other", k |-> Nil]

TypeOK ==
  /\ socket \in Sockets \cup {Nil}
  /\ opener \in Sockets \cup {Nil}
  /\ hello \in BOOLEAN
  /\ beat \in BOOLEAN
  /\ conn \in {"disconnected", "connecting", "connected"}
  /\ self \in Sockets \cup {Nil}
  /\ room \in Rooms \cup {Nil}
  /\ call \in [Calls -> CallState]
  /\ ready \in [Sockets -> {"none", "connecting", "open", "closing"}]
  /\ up \in [Sockets -> SUBSET Message]
  /\ down \in [Sockets -> Seq(Answer)]
  /\ alive \subseteq Sockets
  /\ shook \subseteq Sockets
  /\ seat \in [Sockets -> Rooms \cup {Nil}]
  /\ crossed \subseteq Sockets

Init ==
  /\ socket = Nil /\ opener = Nil /\ hello = FALSE /\ beat = FALSE
  /\ conn = "disconnected" /\ self = Nil /\ room = Nil
  /\ call = [c \in Calls |-> Idle]
  /\ ready = [k \in Sockets |-> "none"]
  /\ up = [k \in Sockets |-> {}]
  /\ down = [k \in Sockets |-> <<>>]
  /\ alive = {} /\ shook = {}
  /\ seat = [k \in Sockets |-> Nil]
  /\ crossed = {}

Waiting == {c \in Calls : call[c].pc = "waiting"}
Pending == {c \in Calls : call[c].pc \in {"pending", "refused", "unheard"}}

\* this.socket && this.socket.readyState === WebSocket.OPEN
Connected == socket # Nil /\ ready[socket] = "open"

-----------------------------------------------------------------------------
(* Requests: ensureConnected and sendRequest.                              *)

\* An object nobody refers to any more stands for the next `new WebSocket`.
Fresh(k) == ready[k] = "none" /\ k \notin alive /\ self # k

\* A request id that no message bears: sendRequest never repeats one.
Unsent(c) ==
  \A k \in Sockets : /\ \A m \in up[k] : m.c # c
                     /\ \A i \in DOMAIN down[k] : down[k][i].c # c

Connect ==
  \E k \in Sockets :
    /\ Fresh(k)
    /\ socket' = k
    /\ opener' = k
    /\ conn' = "connecting"
    /\ ready' = [ready EXCEPT ![k] = "connecting"]

\* The requests cs go out on socket k, behind what is on its way already.
Sent(cs, k) ==
  [c \in Calls |-> IF c \in cs THEN [call[c] EXCEPT !.pc = "pending", !.k = k] ELSE call[c]]

Sending(cs, k) == up[k] \cup {[type |-> call[c].kind, c |-> c] : c \in cs}

\* A request on an open socket, which may still wait for its hello_ack.
CallNow(c, kind) ==
  /\ call[c] = Idle /\ Unsent(c) /\ Connected
  /\ call' = [call EXCEPT ![c] = [pc |-> "pending", kind |-> kind, k |-> socket]]
  /\ up' = [up EXCEPT ![socket] = @ \cup {[type |-> kind, c |-> c]}]
  /\ UNCHANGED <<socket, opener, hello, beat, conn, self, room, ready, down, alive, shook, seat, crossed>>

\* A request while there is no open socket waits for the connection, and opens
\* one unless another caller is opening it.
CallFirst(c, kind) ==
  /\ call[c] = Idle /\ Unsent(c) /\ ~ Connected
  /\ call' = [call EXCEPT ![c] = [pc |-> "waiting", kind |-> kind, k |-> Nil]]
  /\ IF opener = Nil THEN Connect ELSE UNCHANGED <<socket, opener, conn, ready>>
  /\ UNCHANGED <<hello, beat, self, room, up, down, alive, shook, seat, crossed>>

\* sendParamBatch and sendRemoteParamEdit, which do nothing outside a room and
\* reconnect like a request, but wait for no answer.
SendParams ==
  /\ room # Nil /\ ~ Connected /\ opener = Nil
  /\ Connect
  /\ UNCHANGED <<hello, beat, self, room, call, up, down, alive, shook, seat, crossed>>

-----------------------------------------------------------------------------
(* Events of the sockets.                                                  *)

\* connectPromise is resolved with a failure: those who wait for it return.
ConnectFails ==
  /\ opener' = Nil
  /\ call' = [c \in Calls |-> IF c \in Waiting THEN Idle ELSE call[c]]

\* The open listener.  If the client has dropped the socket meanwhile, hello
\* is not sent, and the socket stays open with nobody to use it.
Open(k) ==
  /\ ready[k] = "connecting"
  /\ ready' = [ready EXCEPT ![k] = "open"]
  /\ alive' = alive \cup {k}
  /\ IF socket = k
     THEN /\ hello' = TRUE
          /\ up' = [up EXCEPT ![k] = {[type |-> "hello", c |-> Nil]}]
          /\ UNCHANGED <<opener, call>>
     ELSE ConnectFails /\ UNCHANGED <<hello, up>>
  /\ UNCHANGED <<socket, beat, conn, self, room, down, shook, seat, crossed>>

CloseKeepingRequests ==
  /\ socket' = Nil /\ beat' = FALSE /\ conn' = "disconnected" /\ room' = Nil
  /\ hello' = FALSE
  /\ IF hello THEN ConnectFails ELSE UNCHANGED <<opener, call>>

CloseUnresolved ==
  /\ socket' = Nil /\ beat' = FALSE /\ conn' = "disconnected" /\ room' = Nil
  /\ hello' = FALSE
  /\ call' = [c \in Calls |-> IF c \in Pending THEN Idle ELSE call[c]]
  /\ UNCHANGED opener

CloseKeepingRoom ==
  /\ socket' = Nil /\ beat' = FALSE /\ conn' = "disconnected"
  /\ hello' = FALSE
  /\ IF hello THEN opener' = Nil ELSE UNCHANGED opener
  /\ call' = [c \in Calls |-> IF \/ c \in Pending
                                 \/ c \in Waiting /\ hello THEN Idle ELSE call[c]]
  /\ UNCHANGED room

\* handleSocketClose, which does not ask which socket has closed: it drops the
\* current one, clears the room and fails every pending request; if hello is
\* one of them, connectPromise and those who wait for it fail too.
handleSocketClose ==
  /\ socket' = Nil /\ beat' = FALSE /\ conn' = "disconnected" /\ room' = Nil
  /\ hello' = FALSE
  /\ IF hello THEN opener' = Nil ELSE UNCHANGED opener
  /\ call' = [c \in Calls |-> IF \/ c \in Pending
                                 \/ c \in Waiting /\ hello THEN Idle ELSE call[c]]

\* A connection that cannot be opened: the error listener, then the close event.
Fail(k) ==
  /\ ready[k] = "connecting"
  /\ ready' = [ready EXCEPT ![k] = "none"]
  /\ socket' = Nil /\ beat' = FALSE /\ conn' = "disconnected" /\ room' = Nil
  /\ hello' = FALSE
  /\ opener' = Nil
  /\ call' = [c \in Calls |-> Idle]
  /\ UNCHANGED <<self, up, down, alive, shook, seat, crossed>>

\* The close frame of the server, behind everything it has sent.
CloseFrame(k) ==
  /\ ready[k] = "open" /\ k \notin alive /\ down[k] = <<>>
  /\ ready' = [ready EXCEPT ![k] = "closing"]
  /\ UNCHANGED <<client, up, down, alive, shook, seat, crossed>>

\* The close event, at any time: a lost connection has no close frame, and the
\* server may go on for a while with a connection the client has lost.
Close(k) ==
  /\ ready[k] \in {"open", "closing"}
  /\ ready' = [ready EXCEPT ![k] = "none"]
  /\ up' = [up EXCEPT ![k] = IF k \in alive THEN @ ELSE {}]
  /\ down' = [down EXCEPT ![k] = <<>>]
  /\ handleSocketClose
  /\ UNCHANGED <<self, alive, shook, seat, crossed>>

ResolvedUnlessLeft(m) ==
  IF m.c = Nil \/ call[m.c].pc # "pending" \/ m.type = "participantLeft" THEN call
  ELSE [call EXCEPT ![m.c] = IF m.type = "error" THEN [@ EXCEPT !.pc = "refused"] ELSE Idle]

\* handleMessage with resolvePendingRequest: a request is resolved by an answer
\* of the type it expects, which an error never is.
Resolved(m) ==
  IF m.c = Nil \/ call[m.c].pc # "pending" THEN call
  ELSE [call EXCEPT ![m.c] = IF m.type = "error" THEN [@ EXCEPT !.pc = "refused"] ELSE Idle]

ReceiveAck(k) ==
  /\ ready[k] = "open" /\ down[k] # <<>> /\ Head(down[k]).type = "helloAck"
  /\ down' = [down EXCEPT ![k] = Tail(@)]
  /\ conn' = "connected" /\ self' = k /\ beat' = TRUE
  /\ IF hello /\ opener = k
     THEN /\ hello' = FALSE
          /\ opener' = Nil
          /\ call' = Sent(Waiting, k)
          /\ up' = [up EXCEPT ![k] = Sending(Waiting, k)]
     ELSE UNCHANGED <<hello, opener, call, up>>
  /\ UNCHANGED <<socket, room, ready, alive, shook, seat, crossed>>


ReceiveAnswer(k) ==
  /\ ready[k] = "open" /\ down[k] # <<>> /\ Head(down[k]).type # "helloAck"
  /\ down' = [down EXCEPT ![k] = Tail(@)]
  /\ LET m == Head(down[k])
     IN /\ call' = Resolved(m)
        /\ self' = IF m.type = "roomJoined" THEN k ELSE self
        /\ room' = CASE m.type = "roomJoined" -> m.r
                     [] m.type = "participantLeft" /\ self = k -> Nil
                     [] OTHER -> room
  /\ UNCHANGED <<socket, opener, hello, beat, conn, ready, up, alive, shook, seat, crossed>>

-----------------------------------------------------------------------------
(* The server, one step for each message it handles and each end of a      *)
(* connection; module RoomServer has the details of both.                  *)

Reply(k, m, type, r) ==
  /\ up' = [up EXCEPT ![k] = @ \ {m}]
  /\ down' = [down EXCEPT ![k] = IF ready[k] = "open" THEN Append(@, [type |-> type, c |-> m.c, r |-> r]) ELSE @]
  /\ UNCHANGED <<client, ready, alive>>

ServeHello(k) ==
  \E m \in up[k] : /\ k \in alive
                   /\ m.type = "hello"
                   /\ shook' = shook \cup {k}
                   /\ Reply(k, m, "helloAck", Nil)
                   /\ UNCHANGED <<seat, crossed>>

Joining(k) == {m \in up[k] : m.type = "entered"}

\* leave_room is carried out and answered on the socket it came from; a request
\* of any kind may be refused.
ServeRequest(k, c) ==
  \E m \in up[k] :
    /\ m.c = c
    /\ k \in alive /\ k \in shook
    /\ \/ /\ m.type = "leave" /\ seat[k] # Nil
          /\ seat' = [seat EXCEPT ![k] = Nil]
          /\ crossed' = IF Joining(k) # {} THEN crossed \cup {k} ELSE crossed
          /\ Reply(k, m, "participantLeft", seat[k])
       \/ /\ m.type \in Kinds /\ (m.type = "leave" => seat[k] = Nil)
          /\ Reply(k, m, "error", Nil)
          /\ UNCHANGED <<seat, crossed>>
    /\ UNCHANGED shook

\* The other requests are carried out first, which only a session outside or in
\* a room can ask for, and answered after further reads.
CarryOut(k, c) ==
  \E m \in up[k], r \in Rooms :
    /\ m.c = c
    /\ k \in alive /\ k \in shook
    /\ \/ /\ m.type = "enter" /\ seat[k] = Nil
          /\ up' = [up EXCEPT ![k] = (@ \ {m}) \cup {[type |-> "entered", c |-> c, r |-> r]}]
       \/ /\ m.type = "other" /\ seat[k] = r
          /\ up' = [up EXCEPT ![k] = (@ \ {m}) \cup {[type |-> "carriedOut", c |-> c, r |-> r]}]
    /\ seat' = [seat EXCEPT ![k] = r]
    /\ UNCHANGED <<client, ready, down, alive, shook, crossed>>

\* create_room answers as soon as it has written; join_room reads four keys
\* first, one after the other, and a leave_room of the same client that has begun
\* meanwhile needs but three reads before its write and its answer.  If that has
\* deleted the room, join_room fails, else it answers with a room already left.
buildRoomJoinedPayload(k, c) ==
  \E m \in Joining(k) :
    /\ m.c = c
    /\ k \in alive
    /\ Reply(k, m, "roomJoined", m.r) \/ (seat[k] # m.r /\ Reply(k, m, "error", Nil))
    /\ UNCHANGED <<shook, seat, crossed>>

\* broadcastToRoom, the only answer that take_owner, set_display_name and
\* set_room_settings get, reads the participants of the room once the request is
\* carried out: a session that has left meanwhile is not among them.
broadcastToRoom(k, c) ==
  \E m \in up[k] :
    /\ m.c = c
    /\ k \in alive
    /\ m.type = "carriedOut"
    /\ \/ seat[k] = m.r /\ Reply(k, m, "otherDone", Nil)
       \/ /\ seat[k] # m.r
          /\ up' = [up EXCEPT ![k] = @ \ {m}]
          /\ call' = IF call[c].pc = "pending" THEN [call EXCEPT ![c].pc = "unheard"] ELSE call
          /\ UNCHANGED <<socket, opener, hello, beat, conn, self, room, ready, down, alive>>
    /\ UNCHANGED <<shook, seat, crossed>>

\* The server stops, or closes the connection: the session leaves its room.
ServerClose(k) ==
  /\ k \in alive
  /\ alive' = alive \ {k}
  /\ shook' = shook \ {k}
  /\ seat' = [seat EXCEPT ![k] = Nil]
  /\ crossed' = crossed \ {k}
  /\ up' = [up EXCEPT ![k] = {}]
  /\ UNCHANGED <<client, ready, down>>

\* Heartbeats reach the server, so its sweep leaves the connection alone.
Beating(k) == beat /\ socket = k /\ ready[k] = "open" /\ k \in shook

Sweep(k) == ~ Beating(k) /\ ServerClose(k)

-----------------------------------------------------------------------------

Next ==
  \/ \E c \in Calls, kind \in Kinds : CallNow(c, kind) \/ CallFirst(c, kind)
  \/ SendParams
  \/ \E k \in Sockets :
       \/ Open(k) \/ Fail(k) \/ CloseFrame(k) \/ Close(k)
       \/ ReceiveAck(k) \/ ReceiveAnswer(k)
       \/ ServeHello(k) \/ ServerClose(k)
       \/ \E c \in Calls : \/ ServeRequest(k, c) \/ CarryOut(k, c)
                          \/ buildRoomJoinedPayload(k, c) \/ broadcastToRoom(k, c)

Spec == Init /\ [][Next]_vars

\* The event loop runs, the network delivers or reports the loss of a connection,
\* the server handles what it gets and sweeps connections without heartbeats.
Fairness ==
  \A k \in Sockets :
    /\ WF_vars(Open(k) \/ Fail(k))
    /\ WF_vars(ServeHello(k))
    /\ \A c \in Calls : /\ WF_vars(ServeRequest(k, c) \/ CarryOut(k, c))
                        /\ WF_vars(buildRoomJoinedPayload(k, c))
                        /\ WF_vars(broadcastToRoom(k, c))
    /\ WF_vars(ReceiveAck(k)) /\ WF_vars(ReceiveAnswer(k))
    /\ WF_vars(k \notin alive /\ Close(k))
    /\ WF_vars(Sweep(k))

FairSpec == Spec /\ Fairness

-----------------------------------------------------------------------------
(* Properties.                                                             *)

Live(k) == ready[k] \in {"open", "closing"}

\* A request in pendingRequests was sent on a socket whose close event is still
\* to come: no request outlives its connection unanswered.
PendingOnLiveSocket == \A c \in Pending : call[c].k # Nil /\ Live(call[c].k)

\* A caller that waits for a connection waits for a promise somebody will
\* resolve: a socket is being opened, or hello is on its way on an open one.
WaitersAreServed ==
  /\ Waiting # {} => opener # Nil
  /\ opener # Nil => \/ ready[opener] = "connecting" /\ ~ hello
                     \/ hello /\ socket = opener /\ Live(opener)

\* The renderer is told of a room or of a connection only while the client has
\* some connection, and of a connection being opened only while one is.
ShownHasConnection ==
  /\ room # Nil \/ conn = "connected" => \E k \in Sockets : Live(k)
  /\ conn = "connecting" => opener # Nil /\ socket = opener

\* backend-client.ts resolves a request that the server refuses with the
\* server's error, for the renderer to show.
RefusalsReturn == \A c \in Calls : call[c].pc # "refused"

\* A request returns, or the server refuses it, or its session has left the room
\* that its answer goes to: a request overtaken by a leave_room of the same
\* client stays pending until its socket closes.
CallsSettle ==
  \A c \in Calls :
    call[c].pc \in {"waiting", "pending"} ~> call[c].pc \in {"idle", "refused", "unheard"}

=============================================================================
