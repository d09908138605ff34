------------------------ MODULE BackendClient_proofs ------------------------
(* Theorems about BackendClient, for any number of sockets and requests.    *)
EXTENDS BackendClient, SequenceTheorems, TLAPS

\* What the invariants need to be preserved: only the socket of connectPromise
\* is being opened, and this.socket is never an object that has closed.
OpeningIsOpener ==
  /\ \A k \in Sockets : ready[k] = "connecting" => opener = k
  /\ socket # Nil => ready[socket] # "none"
  /\ hello => opener # Nil

Held == OpeningIsOpener /\ PendingOnLiveSocket /\ WaitersAreServed /\ ShownHasConnection

Inv == TypeOK /\ Held

-----------------------------------------------------------------------------
(* Type correctness.                                                       *)

\* What a request becomes while its handler runs is a message, too.
LEMMA HandlersAreMessages ==
  ASSUME NEW c \in Calls, NEW r \in Rooms
  PROVE  /\ [type |-> "entered", c |-> c, r |-> r] \in Message
         /\ [type |-> "carriedOut", c |-> c, r |-> r] \in Message
BY DEF Message

\* The invariant holds when the client starts.
LEMMA InitInv == Init => Inv
<1> SUFFICES ASSUME Init PROVE Inv
  OBVIOUS
<1>1. call \in [Calls -> CallState] /\ Waiting = {} /\ Pending = {}
  BY DEF Init, Idle, CallState, Kinds, Waiting, Pending
<1>2. down \in [Sockets -> Seq(Answer)]
  BY DEF Init
<1>3. TypeOK
  BY <1>1, <1>2 DEF Init, TypeOK
<1>4. Held
  BY <1>1 DEF Init, Held, OpeningIsOpener, PendingOnLiveSocket, WaitersAreServed, ShownHasConnection
<1> QED
  BY <1>3, <1>4 DEF Inv

\* The requests a socket's closing fails, or that go out on a socket, leave the
\* others as they are.
LEMMA CallTypes ==
  ASSUME TypeOK, NEW cs \in SUBSET Calls
  PROVE  /\ [c \in Calls |-> IF c \in cs THEN Idle ELSE call[c]] \in [Calls -> CallState]
         /\ \A k \in Sockets : Sent(cs, k) \in [Calls -> CallState]
         /\ \A k \in Sockets : Sending(cs, k) \in SUBSET Message
<1>1. Idle \in CallState
  BY DEF Idle, CallState, Kinds
<1>2. call \in [Calls -> CallState]
  BY DEF TypeOK
<1>3. [c \in Calls |-> IF c \in cs THEN Idle ELSE call[c]] \in [Calls -> CallState]
  BY <1>1, <1>2
<1>4. ASSUME NEW k \in Sockets, NEW c \in Calls
      PROVE  [call[c] EXCEPT !.pc = "pending", !.k = k] \in CallState
  BY <1>2 DEF CallState
<1>5. ASSUME NEW k \in Sockets PROVE Sent(cs, k) \in [Calls -> CallState]
  BY <1>2, <1>4 DEF Sent
<1>6. ASSUME NEW k \in Sockets PROVE Sending(cs, k) \in SUBSET Message
  <2>1. \A c \in cs : [type |-> call[c].kind, c |-> c] \in Message
    BY <1>2 DEF CallState, Message
  <2>2. up[k] \in SUBSET Message
    BY DEF TypeOK
  <2> QED
    BY <2>1, <2>2 DEF Sending
<1> QED
  BY <1>3, <1>5, <1>6

\* What a client may find after opening a socket.
LEMMA ConnectTypes ==
  ASSUME TypeOK, Connect
  PROVE  /\ socket' \in Sockets /\ opener' \in Sockets /\ conn' = "connecting"
         /\ ready' \in [Sockets -> {"none", "connecting", "open", "closing"}]
  BY DEF TypeOK, Connect

\* A join_room being answered has a room to answer with.
LEMMA JoiningRoom ==
  ASSUME TypeOK, NEW k \in Sockets, NEW m \in up[k], m.type = "entered"
  PROVE  m.r \in Rooms
<1>1. m \in Message
  BY DEF TypeOK
<1>2. CASE m \in [type : {"hello"} \cup Kinds, c : Calls \cup {Nil}]
  <2>1. m.type \in {"hello"} \cup Kinds
    BY <1>2
  <2> QED
    BY <2>1 DEF Kinds
<1>3. CASE m \in [type : {"entered", "carriedOut"}, c : Calls, r : Rooms]
  BY <1>3
<1> QED
  BY <1>1, <1>2, <1>3 DEF Message

\* Every step keeps the types.
LEMMA NextTypes == TypeOK /\ [Next]_vars => TypeOK'
<1> SUFFICES ASSUME TypeOK, [Next]_vars PROVE TypeOK'
  OBVIOUS
<1>1. ASSUME NEW c \in Calls, NEW kind \in Kinds, CallNow(c, kind) PROVE TypeOK'
  <2>1. socket \in Sockets
    BY <1>1 DEF CallNow, Connected, TypeOK
  <2>2. [pc |-> "pending", kind |-> kind, k |-> socket] \in CallState
    BY <2>1 DEF CallState
  <2>3. [type |-> kind, c |-> c] \in Message
    BY DEF Message
  <2> QED
    BY <1>1, <2>1, <2>2, <2>3 DEF CallNow, TypeOK
<1>2. ASSUME NEW c \in Calls, NEW kind \in Kinds, CallFirst(c, kind) PROVE TypeOK'
  <2>1. [pc |-> "waiting", kind |-> kind, k |-> Nil] \in CallState
    BY DEF CallState
  <2>2. call' \in [Calls -> CallState]
    BY <1>2, <2>1 DEF CallFirst, TypeOK
  <2> QED
    BY <1>2, <2>2, ConnectTypes DEF CallFirst, TypeOK
<1>3. CASE SendParams
  BY <1>3, ConnectTypes DEF SendParams, TypeOK
<1>4. ASSUME NEW k \in Sockets, Open(k) PROVE TypeOK'
  <2>1. Waiting \in SUBSET Calls /\ [type |-> "hello", c |-> Nil] \in Message
    BY DEF Waiting, Message
  <2>2. call' \in [Calls -> CallState] /\ opener' \in Sockets \cup {Nil}
    BY <1>4, <2>1, CallTypes DEF Open, ConnectFails, TypeOK
  <2>3. up' \in [Sockets -> SUBSET Message] /\ hello' \in BOOLEAN
    <3>1. {[type |-> "hello", c |-> Nil]} \in SUBSET Message /\ up \in [Sockets -> SUBSET Message]
      BY <2>1 DEF TypeOK
    <3>2. hello \in BOOLEAN
      BY DEF TypeOK
    <3> QED
      BY <1>4, <3>1, <3>2, Zenon DEF Open
  <2>4. ready' \in [Sockets -> {"none", "connecting", "open", "closing"}]
    BY <1>4 DEF Open, TypeOK
  <2> QED
    BY <1>4, <2>2, <2>3, <2>4 DEF Open, TypeOK
<1>5. ASSUME NEW k \in Sockets, Fail(k) PROVE TypeOK'
  <2>1. Idle \in CallState
    BY DEF Idle, CallState, Kinds
  <2>2. call' \in [Calls -> CallState] /\ ready' \in [Sockets -> {"none", "connecting", "open", "closing"}]
    BY <1>5, <2>1 DEF Fail, TypeOK
  <2> QED
    BY <1>5, <2>2 DEF Fail, TypeOK
<1>6. ASSUME NEW k \in Sockets, CloseFrame(k) PROVE TypeOK'
  BY <1>6 DEF CloseFrame, TypeOK, client
<1>7. ASSUME NEW k \in Sockets, Close(k) PROVE TypeOK'
  <2>1. Idle \in CallState
    BY DEF Idle, CallState, Kinds
  <2>2. call' \in [Calls -> CallState]
    BY <1>7, <2>1 DEF Close, handleSocketClose, TypeOK
  <2>3. down' \in [Sockets -> Seq(Answer)] /\ up' \in [Sockets -> SUBSET Message]
    BY <1>7 DEF Close, TypeOK
  <2>4. ready' \in [Sockets -> {"none", "connecting", "open", "closing"}]
    BY <1>7 DEF Close, TypeOK
  <2> QED
    BY <1>7, <2>2, <2>3, <2>4 DEF Close, handleSocketClose, TypeOK
<1>8. ASSUME NEW k \in Sockets, ReceiveAck(k) PROVE TypeOK'
  <2>1. Waiting \in SUBSET Calls
    BY DEF Waiting
  <2>2. down' \in [Sockets -> Seq(Answer)]
    <3>1. down[k] \in Seq(Answer) /\ down[k] # <<>>
      BY <1>8 DEF ReceiveAck, TypeOK
    <3>2. Tail(down[k]) \in Seq(Answer)
      BY <3>1, HeadTailProperties
    <3> QED
      BY <1>8, <3>2 DEF ReceiveAck, TypeOK
  <2>3. call' \in [Calls -> CallState] /\ up' \in [Sockets -> SUBSET Message]
    <3>1. /\ call \in [Calls -> CallState] /\ up \in [Sockets -> SUBSET Message]
          /\ Sent(Waiting, k) \in [Calls -> CallState]
          /\ Sending(Waiting, k) \in SUBSET Message
      BY <2>1, CallTypes DEF TypeOK
    <3> QED
      BY <1>8, <3>1 DEF ReceiveAck
  <2>4. /\ hello' \in BOOLEAN /\ opener' \in Sockets \cup {Nil}
        /\ conn' = "connected" /\ self' = k /\ beat' = TRUE
        /\ UNCHANGED <<socket, room, ready, alive, shook, seat, crossed>>
    BY <1>8 DEF ReceiveAck, TypeOK
  <2> QED
    BY <2>2, <2>3, <2>4 DEF TypeOK
<1>9. ASSUME NEW k \in Sockets, ReceiveAnswer(k) PROVE TypeOK'
  <2> DEFINE m == Head(down[k])
  <2>1. m \in Answer /\ Tail(down[k]) \in Seq(Answer)
    <3>1. down[k] \in Seq(Answer) /\ down[k] # <<>>
      BY <1>9 DEF ReceiveAnswer, TypeOK
    <3> QED
      BY <3>1, HeadTailProperties
  <2>2. down' \in [Sockets -> Seq(Answer)] /\ self' \in Sockets \cup {Nil} /\ room' \in Rooms \cup {Nil}
    BY <1>9, <2>1 DEF ReceiveAnswer, TypeOK, Answer
  <2>3. Resolved(m) \in [Calls -> CallState]
    <3>1. Idle \in CallState /\ call \in [Calls -> CallState] /\ m.c \in Calls \cup {Nil}
      BY <2>1 DEF Idle, CallState, Kinds, TypeOK, Answer
    <3>2. \A c \in Calls : [call[c] EXCEPT !.pc = "refused"] \in CallState
      BY <3>1 DEF CallState
    <3> HIDE DEF m
    <3> QED
      BY <3>1, <3>2 DEF Resolved
  <2>4. call' \in [Calls -> CallState]
    BY <1>9, <2>3 DEF ReceiveAnswer
  <2> QED
    BY <1>9, <2>2, <2>4 DEF ReceiveAnswer, TypeOK
<1>10. ASSUME NEW k \in Sockets, NEW m \in up[k], NEW type \in {"helloAck", "roomJoined", "participantLeft", "otherDone", "error"},
              NEW r \in Rooms \cup {Nil}, Reply(k, m, type, r),
              shook' \subseteq Sockets, seat' \in [Sockets -> Rooms \cup {Nil}], crossed' \subseteq Sockets
       PROVE  TypeOK'
  <2>1. [type |-> type, c |-> m.c, r |-> r] \in Answer
    BY DEF TypeOK, Message, Answer
  <2>2. Append(down[k], [type |-> type, c |-> m.c, r |-> r]) \in Seq(Answer)
    BY <2>1, AppendProperties DEF TypeOK
  <2>3. down' \in [Sockets -> Seq(Answer)] /\ up' \in [Sockets -> SUBSET Message]
    BY <1>10, <2>2 DEF Reply, TypeOK
  <2> QED
    BY <1>10, <2>3 DEF Reply, TypeOK, client
<1>11. ASSUME NEW k \in Sockets, ServeHello(k) PROVE TypeOK'
  BY <1>10, <1>11 DEF ServeHello, TypeOK
<1>12. ASSUME NEW k \in Sockets, NEW c \in Calls, ServeRequest(k, c) PROVE TypeOK'
  BY <1>10, <1>12 DEF ServeRequest, TypeOK
<1>13. ASSUME NEW k \in Sockets, ServerClose(k) PROVE TypeOK'
  BY <1>13 DEF ServerClose, TypeOK, client
<1>15. ASSUME NEW k \in Sockets, NEW c \in Calls, CarryOut(k, c) PROVE TypeOK'
  <2>1. PICK m \in up[k], r \in Rooms, n \in Message :
          /\ up' = [up EXCEPT ![k] = (@ \ {m}) \cup {n}]
          /\ seat' = [seat EXCEPT ![k] = r]
    BY <1>15, HandlersAreMessages DEF CarryOut
  <2>2. up' \in [Sockets -> SUBSET Message] /\ seat' \in [Sockets -> Rooms \cup {Nil}]
    BY <2>1 DEF TypeOK
  <2> QED
    BY <1>15, <2>2 DEF CarryOut, TypeOK, client
<1>17. ASSUME NEW k \in Sockets, NEW c \in Calls, buildRoomJoinedPayload(k, c) PROVE TypeOK'
  <2>1. PICK m \in up[k] : /\ m.type = "entered"
                           /\ Reply(k, m, "roomJoined", m.r) \/ Reply(k, m, "error", Nil)
                           /\ UNCHANGED <<shook, seat, crossed>>
    BY <1>17 DEF buildRoomJoinedPayload, Joining
  <2>2. m.r \in Rooms
    BY <2>1, JoiningRoom
  <2>3. CASE Reply(k, m, "roomJoined", m.r)
    BY <1>10, <2>1, <2>2, <2>3 DEF TypeOK
  <2>4. CASE Reply(k, m, "error", Nil)
    BY <1>10, <2>1, <2>4 DEF TypeOK
  <2> QED
    BY <2>1, <2>3, <2>4
<1>16. ASSUME NEW k \in Sockets, NEW c \in Calls, broadcastToRoom(k, c) PROVE TypeOK'
  <2>1. PICK m \in up[k] :
          \/ Reply(k, m, "otherDone", Nil)
          \/ /\ up' = [up EXCEPT ![k] = @ \ {m}]
             /\ call' = IF call[c].pc = "pending" THEN [call EXCEPT ![c].pc = "unheard"] ELSE call
             /\ UNCHANGED <<socket, opener, hello, beat, conn, self, room, ready, down, alive>>
    BY <1>16 DEF broadcastToRoom
  <2>2. UNCHANGED <<shook, seat, crossed>>
    BY <1>16 DEF broadcastToRoom
  <2>3. CASE Reply(k, m, "otherDone", Nil)
    BY <1>10, <2>2, <2>3 DEF TypeOK
  <2>4. CASE ~ Reply(k, m, "otherDone", Nil)
    <3>1. [call[c] EXCEPT !.pc = "unheard"] \in CallState
      <4>1. call[c] \in CallState
        BY DEF TypeOK
      <4> QED
        BY <4>1 DEF CallState
    <3>2. call' \in [Calls -> CallState] /\ up' \in [Sockets -> SUBSET Message]
      BY <2>1, <2>4, <3>1 DEF TypeOK
    <3> QED
      BY <2>1, <2>2, <2>4, <3>2 DEF TypeOK
  <2> QED
    BY <2>3, <2>4
<1>14. CASE UNCHANGED vars
  BY <1>14 DEF vars, client, network, TypeOK
<1> QED
  BY <1>1, <1>2, <1>3, <1>4, <1>5, <1>6, <1>7, <1>8, <1>9, <1>11, <1>12, <1>13, <1>14, <1>15, <1>16, <1>17 DEF Next

\* Types are kept in every behaviour.
THEOREM ClientTyped == Spec => []TypeOK
<1>1. Init => TypeOK
  BY InitInv DEF Inv
<1> QED
  BY <1>1, NextTypes, PTL DEF Spec

-----------------------------------------------------------------------------
(* The safety properties.                                                  *)

USE DEF Held, OpeningIsOpener, PendingOnLiveSocket, WaitersAreServed, ShownHasConnection, Live

\* A step that leaves the client's sockets, requests and display alone.
LEMMA QuietStep ==
  ASSUME Held, UNCHANGED <<socket, opener, hello, conn, room, call, ready>>
  PROVE  Held'
  BY DEF Waiting, Pending

\* A socket is opened: it becomes this.socket and the one of connectPromise.
LEMMA ConnectStep ==
  ASSUME Inv, opener = Nil, Connect, UNCHANGED <<hello, room>>,
         Pending' = Pending, \A c \in Pending : call'[c] = call[c]
  PROVE  Held'
<1>1. PICK k \in Sockets : /\ Fresh(k) /\ socket' = k /\ opener' = k
                          /\ conn' = "connecting"
                          /\ ready' = [ready EXCEPT ![k] = "connecting"]
  BY DEF Connect
<1>2. k # Nil /\ ready[k] = "none" /\ ready \in [Sockets -> {"none", "connecting", "open", "closing"}]
  BY <1>1, NilAssumption DEF Fresh, Inv, TypeOK
<1>3. \A j \in Sockets \ {k} : ready'[j] = ready[j] /\ ready[j] # "connecting"
  BY <1>1, <1>2, NilAssumption DEF Inv
<1>4. ~ hello /\ ready'[k] = "connecting"
  BY <1>1, <1>2 DEF Inv
<1>5. PendingOnLiveSocket'
  <2>1. \A c \in Pending : call[c].k \in Sockets /\ call[c].k # k
    BY <1>2 DEF Inv, TypeOK, Pending, CallState
  <2> QED
    BY <1>3, <2>1 DEF Inv
<1>6. OpeningIsOpener' /\ WaitersAreServed'
  BY <1>1, <1>2, <1>3, <1>4
<1>7. ShownHasConnection'
  <2>1. \A j \in Sockets : Live(j) => Live(j)'
    BY <1>2, <1>3
  <2> QED
    BY <1>1, <1>2, <2>1 DEF Inv
<1> QED
  BY <1>5, <1>6, <1>7

\* Every step keeps the safety properties.
LEMMA NextHeld == Inv /\ [Next]_vars => Held'
<1> SUFFICES ASSUME Inv, [Next]_vars PROVE Held'
  OBVIOUS
<1>t. TypeOK /\ Held
  BY DEF Inv
<1>1. ASSUME NEW c \in Calls, NEW kind \in Kinds, CallNow(c, kind) PROVE Held'
  <2>1. /\ socket \in Sockets /\ ready[socket] = "open" /\ socket # Nil
        /\ call'[c] = [pc |-> "pending", kind |-> kind, k |-> socket]
        /\ \A d \in Calls \ {c} : call'[d] = call[d]
        /\ UNCHANGED <<socket, opener, hello, conn, room, ready>>
    BY <1>1, <1>t DEF CallNow, Connected, TypeOK
  <2>2. Waiting' \subseteq Waiting /\ \A d \in Pending' : d = c \/ (d \in Pending /\ call'[d] = call[d])
    BY <2>1 DEF Waiting, Pending
  <2>3. call'[c].k = socket
    BY <2>1
  <2>4. PendingOnLiveSocket'
    BY <1>t, <2>1, <2>2, <2>3
  <2> QED
    BY <1>t, <2>1, <2>2, <2>4
<1>2. ASSUME NEW c \in Calls, NEW kind \in Kinds, CallFirst(c, kind) PROVE Held'
  <2>1. /\ call'[c] = [pc |-> "waiting", kind |-> kind, k |-> Nil]
        /\ call[c].pc = "idle"
        /\ \A d \in Calls \ {c} : call'[d] = call[d]
    BY <1>2, <1>t DEF CallFirst, TypeOK, Idle
  <2>2. Pending' = Pending /\ \A d \in Pending : call'[d] = call[d]
    BY <2>1 DEF Pending
  <2>3. CASE opener = Nil
    BY <1>2, <2>2, <2>3, ConnectStep DEF CallFirst
  <2>4. CASE opener # Nil
    <3>1. UNCHANGED <<socket, opener, hello, conn, room, ready>>
      BY <1>2, <2>4 DEF CallFirst
    <3> QED
      BY <1>t, <2>2, <2>4, <3>1
  <2> QED
    BY <2>3, <2>4
<1>3. CASE SendParams
  <2>1. Pending' = Pending /\ \A d \in Pending : call'[d] = call[d]
    BY <1>3 DEF SendParams, Pending
  <2> QED
    BY <1>3, <2>1, ConnectStep DEF SendParams
<1>4. ASSUME NEW k \in Sockets, Open(k) PROVE Held'
  <2>1. /\ opener = k /\ k # Nil /\ ready[k] = "connecting" /\ ready'[k] = "open" /\ ~ hello
        /\ \A j \in Sockets \ {k} : ready'[j] = ready[j] /\ ready[j] # "connecting"
        /\ UNCHANGED <<socket, conn, room>>
    BY <1>4, <1>t, NilAssumption DEF Open, TypeOK
  <2>2. \A j \in Sockets : Live(j) => Live(j)'
    BY <2>1
  <2>3. socket # Nil => ready'[socket] # "none"
    BY <1>t, <2>1 DEF TypeOK
  <2>4. CASE socket = k
    <3>1. hello' = TRUE /\ UNCHANGED <<opener, call>>
      BY <1>4, <2>4 DEF Open
    <3>2. PendingOnLiveSocket'
      <4>1. \A c \in Pending : call[c].k \in Sockets
        BY <1>t DEF TypeOK, Pending, CallState
      <4> QED
        BY <1>t, <2>2, <3>1, <4>1 DEF Pending
    <3> QED
      BY <1>t, <2>1, <2>2, <2>3, <2>4, <3>1, <3>2 DEF Waiting
  <2>5. CASE socket # k
    <3>1. opener' = Nil /\ hello' = hello /\ call' = [c \in Calls |-> IF c \in Waiting THEN Idle ELSE call[c]]
      BY <1>4, <2>5 DEF Open, ConnectFails
    <3>2. Waiting' = {} /\ \A c \in Pending' : c \in Pending /\ call'[c] = call[c]
      BY <3>1 DEF Waiting, Pending, Idle
    <3>3. PendingOnLiveSocket'
      <4>1. \A c \in Pending : call[c].k \in Sockets
        BY <1>t DEF TypeOK, Pending, CallState
      <4> QED
        BY <1>t, <2>2, <3>2, <4>1
    <3>4. conn # "connecting"
      BY <1>t, <2>1, <2>5
    <3> QED
      BY <1>t, <2>1, <2>2, <2>3, <3>1, <3>2, <3>3, <3>4
  <2> QED
    BY <2>4, <2>5
<1>5. ASSUME NEW k \in Sockets, Fail(k) PROVE Held'
  <2>1. /\ opener = k /\ ready' = [ready EXCEPT ![k] = "none"]
        /\ socket' = Nil /\ conn' = "disconnected" /\ room' = Nil /\ hello' = FALSE /\ opener' = Nil
        /\ call' = [c \in Calls |-> Idle]
    BY <1>5, <1>t DEF Fail
  <2>2. Waiting' = {} /\ Pending' = {}
    BY <2>1 DEF Waiting, Pending, Idle
  <2>3. \A j \in Sockets : ready'[j] # "connecting"
    BY <1>t, <2>1 DEF TypeOK
  <2> QED
    BY <2>1, <2>2, <2>3
<1>6. ASSUME NEW k \in Sockets, CloseFrame(k) PROVE Held'
  <2>1. /\ ready[k] = "open" /\ ready' = [ready EXCEPT ![k] = "closing"]
        /\ UNCHANGED <<socket, opener, hello, conn, room, call>>
    BY <1>6 DEF CloseFrame, client
  <2>2. /\ \A j \in Sockets : Live(j) => Live(j)'
        /\ \A j \in Sockets : ready'[j] = "connecting" <=> ready[j] = "connecting"
        /\ \A j \in Sockets : ready'[j] = "none" <=> ready[j] = "none"
    BY <1>t, <2>1 DEF TypeOK
  <2>3. PendingOnLiveSocket'
    <3>1. \A c \in Pending : call[c].k \in Sockets
      BY <1>t DEF TypeOK, Pending, CallState
    <3> QED
      BY <1>t, <2>1, <2>2, <3>1 DEF Pending
  <2> QED
    BY <1>t, <2>1, <2>2, <2>3 DEF Waiting, TypeOK
<1>7. ASSUME NEW k \in Sockets, Close(k) PROVE Held'
  <2>1. /\ Live(k) /\ ready' = [ready EXCEPT ![k] = "none"]
        /\ socket' = Nil /\ conn' = "disconnected" /\ room' = Nil /\ hello' = FALSE
        /\ hello => opener' = Nil
        /\ ~ hello => opener' = opener
    BY <1>7 DEF Close, handleSocketClose
  <2>2. /\ Pending' = {}
        /\ Waiting' \subseteq Waiting
        /\ hello => Waiting' = {}
    <3>1. \A c \in Calls : /\ c \in Pending \/ (c \in Waiting /\ hello) => call'[c] = Idle
                           /\ ~ (c \in Pending \/ (c \in Waiting /\ hello)) => call'[c] = call[c]
      BY <1>7 DEF Close, handleSocketClose
    <3> QED
      BY <3>1 DEF Waiting, Pending, Idle
  <2>3. \A j \in Sockets : ready'[j] = "connecting" <=> ready[j] = "connecting"
    BY <1>t, <2>1 DEF TypeOK
  <2>4. CASE hello
    <3>1. ready[opener] # "connecting"
      BY <1>t, <2>4
    <3>2. \A j \in Sockets : ready[j] # "connecting"
      BY <1>t, <3>1
    <3> QED
      BY <2>1, <2>2, <2>3, <2>4, <3>2
  <2>5. CASE ~ hello
    <3>1. opener # Nil => opener \in Sockets /\ ready[opener] = "connecting"
      BY <1>t, <2>5 DEF TypeOK
    <3> QED
      BY <1>t, <2>1, <2>2, <2>3, <2>5, <3>1
  <2> QED
    BY <2>4, <2>5
<1>8. ASSUME NEW k \in Sockets, ReceiveAck(k) PROVE Held'
  <2>1. /\ ready[k] = "open" /\ conn' = "connected" /\ k # Nil
        /\ UNCHANGED <<socket, room, ready>>
    BY <1>8, NilAssumption DEF ReceiveAck
  <2>2. CASE hello /\ opener = k
    <3>1. hello' = FALSE /\ opener' = Nil /\ call' = Sent(Waiting, k)
      BY <1>8, <2>2 DEF ReceiveAck
    <3>2. \A c \in Calls : call'[c] = IF c \in Waiting THEN [call[c] EXCEPT !.pc = "pending", !.k = k] ELSE call[c]
      BY <3>1 DEF Sent
    <3>3. /\ Waiting' = {}
          /\ \A c \in Waiting : call'[c].k = k
          /\ \A c \in Pending' : c \in Waiting \/ (c \in Pending /\ call'[c] = call[c])
      <4>1. \A c \in Waiting : call'[c].k = k /\ call'[c].pc = "pending"
        BY <1>t, <3>2 DEF Waiting, TypeOK, CallState
      <4>2. \A c \in Calls \ Waiting : call'[c] = call[c] /\ call[c].pc # "waiting"
        BY <3>2 DEF Waiting
      <4> QED
        BY <4>1, <4>2 DEF Waiting, Pending
    <3>4. PendingOnLiveSocket'
      BY <1>t, <2>1, <3>3
    <3>5. \A j \in Sockets : ready[j] # "connecting"
      BY <1>t, <2>1, <2>2
    <3> QED
      BY <1>t, <2>1, <3>1, <3>3, <3>4, <3>5
  <2>3. CASE ~ (hello /\ opener = k)
    <3>1. UNCHANGED <<hello, opener, call>>
      BY <1>8, <2>3 DEF ReceiveAck
    <3> QED
      BY <1>t, <2>1, <3>1 DEF Waiting, Pending
  <2> QED
    BY <2>2, <2>3
<1>9. ASSUME NEW k \in Sockets, ReceiveAnswer(k) PROVE Held'
  <2> DEFINE m == Head(down[k])
  <2>1. /\ ready[k] = "open" /\ call' = Resolved(m)
        /\ UNCHANGED <<socket, opener, hello, conn, ready>>
    BY <1>9 DEF ReceiveAnswer
  <2>2. \A c \in Calls : \/ call'[c] = call[c]
                         \/ call'[c] = Idle
                         \/ call[c].pc = "pending" /\ call'[c] = [call[c] EXCEPT !.pc = "refused"]
    <3>1. call \in [Calls -> CallState]
      BY <1>t DEF TypeOK
    <3> HIDE DEF m
    <3> QED
      BY <2>1, <3>1 DEF Resolved
  <2>3. /\ Waiting' \subseteq Waiting
        /\ \A c \in Pending' : c \in Pending /\ call'[c].k = call[c].k
    <3>1. \A c \in Calls : [call[c] EXCEPT !.pc = "refused"].k = call[c].k
                         /\ [call[c] EXCEPT !.pc = "refused"].pc = "refused"
      BY <1>t DEF TypeOK, CallState
    <3>2. Idle.pc = "idle"
      BY DEF Idle
    <3> QED
      BY <2>2, <3>1, <3>2 DEF Waiting, Pending
  <2>4. PendingOnLiveSocket'
    BY <1>t, <2>1, <2>3
  <2> QED
    BY <1>t, <2>1, <2>3, <2>4
<1>10. ASSUME NEW k \in Sockets, ServeHello(k) PROVE Held'
  BY <1>10, <1>t, QuietStep DEF ServeHello, Reply, client
<1>11. ASSUME NEW k \in Sockets, NEW c \in Calls, ServeRequest(k, c) PROVE Held'
  <2>1. UNCHANGED <<client, ready>>
    BY <1>11 DEF ServeRequest, Reply
  <2> QED
    BY <1>t, <2>1, QuietStep DEF client
<1>12. ASSUME NEW k \in Sockets, ServerClose(k) PROVE Held'
  BY <1>12, <1>t, QuietStep DEF ServerClose, client
<1>14. ASSUME NEW k \in Sockets, NEW c \in Calls, CarryOut(k, c) PROVE Held'
  BY <1>14, <1>t, QuietStep DEF CarryOut, client
<1>16. ASSUME NEW k \in Sockets, NEW c \in Calls, buildRoomJoinedPayload(k, c) PROVE Held'
  BY <1>16, <1>t, QuietStep DEF buildRoomJoinedPayload, Reply, client
<1>15. ASSUME NEW k \in Sockets, NEW c \in Calls, broadcastToRoom(k, c) PROVE Held'
  <2>1. CASE call' = call
    <3>1. UNCHANGED <<socket, opener, hello, conn, room, ready>>
      BY <1>15 DEF broadcastToRoom, Reply, client
    <3> QED
      BY <1>t, <2>1, <3>1, QuietStep
  <2>2. CASE call' # call
    <3>1. /\ call[c].pc = "pending" /\ call' = [call EXCEPT ![c].pc = "unheard"]
          /\ UNCHANGED <<socket, opener, hello, conn, room, ready>>
      BY <1>15, <2>2 DEF broadcastToRoom, Reply, client
    <3>2. /\ call'[c].pc = "unheard" /\ call'[c].k = call[c].k
          /\ \A d \in Calls \ {c} : call'[d] = call[d]
      BY <1>t, <3>1 DEF TypeOK, CallState
    <3>3. /\ Waiting' = Waiting
          /\ \A d \in Pending' : d \in Pending /\ call'[d].k = call[d].k
      BY <3>1, <3>2 DEF Waiting, Pending
    <3>4. PendingOnLiveSocket'
      BY <1>t, <3>1, <3>3
    <3> QED
      BY <1>t, <3>1, <3>3, <3>4
  <2> QED
    BY <2>1, <2>2
<1>13. CASE UNCHANGED vars
  BY <1>13, <1>t, QuietStep DEF vars, client, network
<1> QED
  BY <1>1, <1>2, <1>3, <1>4, <1>5, <1>6, <1>7, <1>8, <1>9, <1>10, <1>11, <1>12, <1>13, <1>14, <1>15, <1>16 DEF Next

\* The invariant holds in every behaviour.
LEMMA InvAlways == Spec => []Inv
<1>1. Inv /\ [Next]_vars => Inv'
  BY NextTypes, NextHeld DEF Inv
<1> QED
  BY InitInv, <1>1, PTL DEF Spec

\* No request outlives its connection unanswered: handleSocketClose fails them.
THEOREM RequestsEndWithSocket == Spec => []PendingOnLiveSocket
<1>1. Inv => PendingOnLiveSocket
  BY DEF Inv
<1> QED
  BY <1>1, InvAlways, PTL

\* Whoever waits for connectPromise waits for a connection that is being opened
\* or greeted.
THEOREM WaitersServed == Spec => []WaitersAreServed
<1>1. Inv => WaitersAreServed
  BY DEF Inv
<1> QED
  BY <1>1, InvAlways, PTL

\* The renderer is told of a room or a connection only while there is one.
THEOREM ShownConnected == Spec => []ShownHasConnection
<1>1. Inv => ShownHasConnection
  BY DEF Inv
<1> QED
  BY <1>1, InvAlways, PTL

-----------------------------------------------------------------------------
(* No request is lost: the safety part of CallsSettle.                     *)

\* Request c is on its way to the server on socket k or being handled there, or
\* its answer is on its way back.
Bears(k, c) ==
  \/ \E m \in up[k] : m.c = c
  \/ \E i \in DOMAIN down[k] : down[k][i].c = c

\* Whoever waits for an answer waits for one that is on its way or to be written,
\* unless the server has closed the connection: then its close event answers.
Underway ==
  \A c \in Calls : call[c].pc = "pending" => call[c].k \notin alive \/ Bears(call[c].k, c)

\* hello and its answer bear no request.
Greetings ==
  \A k \in Sockets :
    /\ \A m \in up[k] : m.type = "hello" => m.c = Nil
    /\ \A i \in DOMAIN down[k] : down[k][i].type = "helloAck" => down[k][i].c = Nil

\* Only the server sends close frames.
ClosedThere == \A k \in Sockets : ready[k] = "closing" => k \notin alive

Sure == Underway /\ Greetings /\ ClosedThere

USE DEF Sure, Greetings, ClosedThere
HIDE DEF Held, OpeningIsOpener, PendingOnLiveSocket, WaitersAreServed, ShownHasConnection, Live

\* A step that sends, delivers and closes nothing, and adds no pending request.
LEMMA StillUnderway ==
  ASSUME Sure, UNCHANGED <<up, down, alive>>,
         \A k \in Sockets : ready'[k] = "closing" => ready[k] = "closing" \/ k \notin alive,
         \A c \in Calls : call'[c].pc = "pending" => call[c].pc = "pending" /\ call'[c].k = call[c].k
  PROVE  Sure'
BY DEF Underway, Bears

\* A pending request waits for a socket that has not closed.
LEMMA PendingLive ==
  ASSUME Inv, NEW c \in Calls, call[c].pc = "pending"
  PROVE  call[c].k \in Sockets /\ ready[call[c].k] \in {"open", "closing"}
<1>1. call[c] \in CallState /\ c \in Pending
  BY DEF Inv, TypeOK, Pending
<1>2. call[c].k # Nil /\ ready[call[c].k] \in {"open", "closing"}
  BY <1>1 DEF Inv, Held, PendingOnLiveSocket, Live
<1> QED
  BY <1>1, <1>2 DEF CallState

\* What a sequence holds when an element has been put at its end.
LEMMA Appended ==
  ASSUME NEW S, NEW s \in Seq(S), NEW e
  PROVE  /\ \A i \in DOMAIN s : i \in DOMAIN Append(s, e) /\ Append(s, e)[i] = s[i]
         /\ \A i \in DOMAIN Append(s, e) :
              \/ i \in DOMAIN s /\ Append(s, e)[i] = s[i]
              \/ Append(s, e)[i] = e
         /\ \E i \in DOMAIN Append(s, e) : Append(s, e)[i] = e
<1>1. /\ DOMAIN s = 1 .. Len(s) /\ Len(s) \in Nat
      /\ DOMAIN Append(s, e) = 1 .. Len(s) + 1
  OBVIOUS
<1>2. Append(s, e)[Len(s) + 1] = e
  OBVIOUS
<1>3. \A i \in 1 .. Len(s) : Append(s, e)[i] = s[i]
  OBVIOUS
<1>4. \A i \in 1 .. Len(s) + 1 : i \in 1 .. Len(s) \/ i = Len(s) + 1
  BY <1>1
<1>5. 1 .. Len(s) \subseteq 1 .. Len(s) + 1 /\ Len(s) + 1 \in 1 .. Len(s) + 1
  BY <1>1
<1> QED
  BY <1>1, <1>2, <1>3, <1>4, <1>5

\* A step of the server answers request m.c, which only a live socket may lose.
LEMMA ReplyUnderway ==
  ASSUME Inv, Sure, NEW k \in Sockets, NEW m \in up[k], k \in alive,
         NEW type \in {"helloAck", "roomJoined", "participantLeft", "otherDone", "error"},
         NEW r \in Rooms \cup {Nil}, Reply(k, m, type, r),
         type = "helloAck" => m.type = "hello"
  PROVE  Sure'
<1> DEFINE a == [type |-> type, c |-> m.c, r |-> r]
<1>1. /\ call' = call /\ ready' = ready /\ alive' = alive
      /\ \A j \in Sockets : up'[j] = IF j = k THEN up[k] \ {m} ELSE up[j]
      /\ \A j \in Sockets : down'[j] = IF j = k /\ ready[k] = "open" THEN Append(down[k], a) ELSE down[j]
  BY DEF Reply, client, Inv, TypeOK
<1>2. /\ \A i \in DOMAIN down[k] : i \in DOMAIN Append(down[k], a) /\ Append(down[k], a)[i] = down[k][i]
      /\ \A i \in DOMAIN Append(down[k], a) :
           \/ i \in DOMAIN down[k] /\ Append(down[k], a)[i] = down[k][i]
           \/ Append(down[k], a)[i] = a
      /\ \E i \in DOMAIN Append(down[k], a) : Append(down[k], a)[i] = a
  <2>1. down[k] \in Seq(Answer)
    BY DEF Inv, TypeOK
  <2> HIDE DEF a
  <2> QED
    BY <2>1, Appended
<1>3. a.c = m.c /\ a.type = type
  OBVIOUS
<1> HIDE DEF a
<1>4. Greetings'
  <2>1. \A j \in Sockets : \A n \in up'[j] : n.type = "hello" => n.c = Nil
    BY <1>1
  <2>2. type = "helloAck" => m.c = Nil
    OBVIOUS
  <2>3. ASSUME NEW j \in Sockets, NEW i \in DOMAIN down'[j], down'[j][i].type = "helloAck"
        PROVE  down'[j][i].c = Nil
    <3>1. CASE j = k /\ ready[k] = "open"
      <4>1. down'[j] = Append(down[k], a)
        BY <1>1, <3>1
      <4>2. \/ i \in DOMAIN down[k] /\ down'[j][i] = down[k][i]
            \/ down'[j][i] = a
        BY <1>2, <2>3, <4>1
      <4> QED
        BY <1>3, <2>2, <2>3, <4>2
    <3>2. CASE ~ (j = k /\ ready[k] = "open")
      BY <1>1, <2>3, <3>2
    <3> QED
      BY <3>1, <3>2
  <2> QED
    BY <2>1, <2>3
<1>5. Underway'
  <2> SUFFICES ASSUME NEW c \in Calls, call[c].pc = "pending", call[c].k \in alive
               PROVE  Bears(call[c].k, c)'
    BY <1>1 DEF Underway
  <2>1. /\ call[c].k \in Sockets /\ ready[call[c].k] \in {"open", "closing"}
        /\ Bears(call[c].k, c)
    BY PendingLive DEF Underway
  <2>2. CASE call[c].k # k
    BY <1>1, <2>1, <2>2 DEF Bears
  <2>3. CASE call[c].k = k
    <3>1. ready[k] = "open"
      BY <2>1, <2>3
    <3>2. down'[k] = Append(down[k], a) /\ up'[k] = up[k] \ {m}
      BY <1>1, <3>1
    <3>3. CASE m.c = c
      BY <1>1, <1>2, <1>3, <2>3, <3>2, <3>3 DEF Bears
    <3>4. CASE m.c # c
      BY <1>1, <1>2, <2>1, <2>3, <3>2, <3>4 DEF Bears
    <3> QED
      BY <3>3, <3>4
  <2> QED
    BY <2>2, <2>3
<1> QED
  BY <1>1, <1>4, <1>5

\* A message leaves the head of what is on its way to the client, and what a
\* request waited for with it only if the request ends.
LEMMA TakenUnderway ==
  ASSUME Inv, Sure, NEW k \in Sockets, down[k] # <<>>, down' = [down EXCEPT ![k] = Tail(@)],
         alive' = alive, ready' = ready,
         \A j \in Sockets : \A m \in up[j] : m \in up'[j],
         \A j \in Sockets : \A m \in up'[j] : m \in up[j] \/ m.type # "hello",
         \A c \in Calls : call'[c].pc = "pending" =>
           \/ /\ call[c].pc = "pending" /\ call'[c].k = call[c].k
              /\ Head(down[k]).c # c
           \/ call'[c].k \in Sockets /\ \E m \in up'[call'[c].k] : m.c = c
  PROVE  Sure'
<1>1. /\ \A j \in Sockets : down'[j] = IF j = k THEN Tail(down[k]) ELSE down[j]
      /\ down[k] \in Seq(Answer)
  BY DEF Inv, TypeOK
<1>2. /\ Head(down[k]) = down[k][1]
      /\ \A i \in DOMAIN down[k] : i = 1 \/ (i - 1 \in DOMAIN Tail(down[k]) /\ Tail(down[k])[i - 1] = down[k][i])
      /\ \A i \in DOMAIN Tail(down[k]) : i + 1 \in DOMAIN down[k] /\ down[k][i + 1] = Tail(down[k])[i]
  BY <1>1
<1>3. Greetings'
  <2>1. \A j \in Sockets : \A m \in up'[j] : m.type = "hello" => m.c = Nil
    OBVIOUS
  <2>2. \A j \in Sockets : \A i \in DOMAIN down'[j] : down'[j][i].type = "helloAck" => down'[j][i].c = Nil
    <3> SUFFICES ASSUME NEW j \in Sockets, NEW i \in DOMAIN down'[j], down'[j][i].type = "helloAck"
                 PROVE  down'[j][i].c = Nil
      OBVIOUS
    <3>1. CASE j = k
      BY <1>1, <1>2, <3>1
    <3>2. CASE j # k
      BY <1>1, <3>2
    <3> QED
      BY <3>1, <3>2
  <2> QED
    BY <2>1, <2>2
<1>4. Underway'
  <2> SUFFICES ASSUME NEW c \in Calls, call'[c].pc = "pending", call'[c].k \in alive
               PROVE  Bears(call[c].k, c)'
    BY DEF Underway
  <2>1. CASE \E m \in up'[call'[c].k] : m.c = c
    BY <2>1 DEF Bears
  <2>2. CASE /\ call[c].pc = "pending" /\ call'[c].k = call[c].k
             /\ Head(down[k]).c # c
    <3>1. PICK j \in Sockets : j = call[c].k
      BY <2>2 DEF Inv, TypeOK, CallState, Pending
    <3>2. Bears(j, c)
      BY <2>2, <3>1 DEF Underway
    <3>3. CASE \E m \in up[j] : m.c = c
      BY <2>2, <3>1, <3>3 DEF Bears
    <3>4. CASE \E i \in DOMAIN down[j] : down[j][i].c = c
      <4>1. CASE j = k
        <5>1. PICK i \in DOMAIN down[k] : down[k][i].c = c
          BY <3>4, <4>1
        <5>2. i # 1
          BY <1>2, <2>2, <5>1
        <5>3. i - 1 \in DOMAIN Tail(down[k]) /\ Tail(down[k])[i - 1] = down[k][i]
          BY <1>2, <5>1, <5>2
        <5>4. down'[j] = Tail(down[k])
          BY <1>1, <4>1
        <5> QED
          <6>1. \E n \in DOMAIN down'[j] : down'[j][n].c = c
            BY <5>1, <5>3, <5>4
          <6> QED
            BY <2>2, <3>1, <6>1 DEF Bears
      <4>2. CASE j # k
        BY <1>1, <2>2, <3>1, <3>4, <4>2 DEF Bears
      <4> QED
        BY <4>1, <4>2
    <3> QED
      BY <3>2, <3>3, <3>4 DEF Bears
  <2> QED
    BY <2>1, <2>2
<1> QED
  BY <1>3, <1>4

\* Every step keeps the three.
LEMMA NextSure == Inv /\ Sure /\ [Next]_vars => Sure'
<1> SUFFICES ASSUME Inv, Sure, [Next]_vars PROVE Sure'
  OBVIOUS
<1>t. TypeOK /\ Held
  BY DEF Inv
<1>p. \A c \in Calls :
        call[c].pc = "pending" => call[c].k \in Sockets /\ ready[call[c].k] \in {"open", "closing"}
  BY PendingLive
<1>1. ASSUME NEW c \in Calls, NEW kind \in Kinds, CallNow(c, kind) PROVE Sure'
  <2>1. /\ socket \in Sockets
        /\ call'[c].pc = "pending" /\ call'[c].k = socket
        /\ \A d \in Calls \ {c} : call'[d] = call[d]
        /\ UNCHANGED <<ready, down, alive>>
        /\ \A j \in Sockets : up'[j] = IF j = socket THEN up[socket] \cup {[type |-> kind, c |-> c]} ELSE up[j]
    BY <1>1, <1>t DEF CallNow, Connected, TypeOK
  <2>2. kind # "hello"
    BY DEF Kinds
  <2>3. [type |-> kind, c |-> c] \in up'[socket]
    BY <2>1
  <2>4. \A d \in Calls, j \in Sockets : Bears(j, d) => Bears(j, d)'
    BY <2>1 DEF Bears
  <2>5. Underway'
    <3>1. PICK s \in Sockets : s = socket
      BY <2>1
    <3>2. Bears(s, c)'
      <4>1. [type |-> kind, c |-> c].c = c
        OBVIOUS
      <4> QED
        BY <2>3, <3>1, <4>1 DEF Bears
    <3> SUFFICES ASSUME NEW d \in Calls, call'[d].pc = "pending", call'[d].k \in alive
                 PROVE  Bears(call[d].k, d)'
      BY <2>1 DEF Underway
    <3>3. CASE d = c
      BY <2>1, <3>1, <3>2, <3>3
    <3>4. CASE d # c
      BY <1>p, <2>1, <2>4, <3>4 DEF Underway
    <3> QED
      BY <3>3, <3>4
  <2>6. Greetings' /\ ClosedThere'
    BY <2>1, <2>2
  <2> QED
    BY <2>5, <2>6
<1>2. ASSUME NEW c \in Calls, NEW kind \in Kinds, CallFirst(c, kind) PROVE Sure'
  <2>1. /\ UNCHANGED <<up, down, alive>>
        /\ \A d \in Calls : call'[d].pc = "pending" => call'[d] = call[d]
        /\ \A k \in Sockets : ready'[k] = "closing" => ready[k] = "closing"
    BY <1>2, <1>t DEF CallFirst, TypeOK, Connect
  <2> QED
    BY <2>1, StillUnderway
<1>3. CASE SendParams
  <2>1. /\ UNCHANGED <<up, down, alive, call>>
        /\ \A k \in Sockets : ready'[k] = "closing" => ready[k] = "closing"
    BY <1>3, <1>t DEF SendParams, TypeOK, Connect
  <2> QED
    BY <2>1, StillUnderway
<1>4. ASSUME NEW k \in Sockets, Open(k) PROVE Sure'
  <2>1. /\ ready[k] = "connecting" /\ alive' = alive \cup {k} /\ down' = down
        /\ \A j \in Sockets : ready'[j] = IF j = k THEN "open" ELSE ready[j]
        /\ \A j \in Sockets : j # k => up'[j] = up[j]
        /\ up'[k] = {[type |-> "hello", c |-> Nil]} \/ up'[k] = up[k]
    BY <1>4, <1>t DEF Open, TypeOK
  <2>2. \A c \in Calls : call'[c].pc = "pending" => call'[c] = call[c]
    BY <1>4, <1>t DEF Open, ConnectFails, Idle, TypeOK
  <2>3. \A c \in Calls : call[c].pc = "pending" => call[c].k \in Sockets \ {k}
    BY <1>p, <2>1
  <2>4. Underway'
    BY <2>1, <2>2, <2>3 DEF Underway, Bears
  <2>5. Greetings' /\ ClosedThere'
    BY <2>1
  <2> QED
    BY <2>4, <2>5
<1>5. ASSUME NEW k \in Sockets, Fail(k) PROVE Sure'
  <2>1. /\ UNCHANGED <<up, down, alive>>
        /\ \A d \in Calls : call'[d].pc # "pending"
        /\ \A j \in Sockets : ready'[j] = "closing" => ready[j] = "closing"
    BY <1>5, <1>t DEF Fail, TypeOK, Idle
  <2> QED
    BY <2>1, StillUnderway
<1>6. ASSUME NEW k \in Sockets, CloseFrame(k) PROVE Sure'
  <2>1. /\ UNCHANGED <<up, down, alive, call>>
        /\ \A j \in Sockets : ready'[j] = "closing" => ready[j] = "closing" \/ j \notin alive
    BY <1>6, <1>t DEF CloseFrame, TypeOK, client
  <2> QED
    BY <2>1, StillUnderway
<1>7. ASSUME NEW k \in Sockets, Close(k) PROVE Sure'
  <2>1. /\ \A c \in Calls : call'[c].pc # "pending"
        /\ alive' = alive
        /\ \A j \in Sockets : ready'[j] = IF j = k THEN "none" ELSE ready[j]
        /\ \A j \in Sockets : up'[j] \subseteq up[j]
        /\ \A j \in Sockets : down'[j] = <<>> \/ down'[j] = down[j]
    BY <1>7, <1>t DEF Close, handleSocketClose, Idle, Pending, TypeOK
  <2> QED
    BY <2>1 DEF Underway
<1>8. ASSUME NEW k \in Sockets, ReceiveAck(k) PROVE Sure'
  <2>1. /\ ready[k] = "open" /\ down[k] # <<>> /\ Head(down[k]).type = "helloAck"
        /\ down' = [down EXCEPT ![k] = Tail(@)] /\ UNCHANGED <<ready, alive>>
    BY <1>8 DEF ReceiveAck
  <2>2. \A c \in Calls : Head(down[k]).c # c
    <3>1. 1 \in DOMAIN down[k] /\ Head(down[k]) = down[k][1]
      BY <1>t, <2>1 DEF TypeOK
    <3> QED
      BY <2>1, <3>1, NilAssumption
  <2>3. CASE hello /\ opener = k
    <3>1. call' = Sent(Waiting, k) /\ up' = [up EXCEPT ![k] = Sending(Waiting, k)]
      BY <1>8, <2>3 DEF ReceiveAck
    <3>2. \A j \in Sockets : up'[j] = IF j = k THEN up[k] \cup {[type |-> call[c].kind, c |-> c] : c \in Waiting} ELSE up[j]
      BY <1>t, <3>1 DEF Sending, TypeOK
    <3>3. \A c \in Calls : call[c].kind # "hello"
      BY <1>t DEF TypeOK, CallState, Kinds
    <3>4. \A j \in Sockets : \A m \in up'[j] : m \in up[j] \/ m.type # "hello"
      <4>1. \A c \in Waiting : [type |-> call[c].kind, c |-> c].type # "hello"
        BY <3>3 DEF Waiting
      <4>2. ASSUME NEW j \in Sockets, NEW m \in up'[j], m \notin up[j] PROVE m.type # "hello"
        <5>1. j = k
          BY <3>2, <4>2
        <5>2. m \in {[type |-> call[c].kind, c |-> c] : c \in Waiting}
          BY <3>2, <4>2, <5>1
        <5> QED
          BY <4>1, <5>2
      <4> QED
        BY <4>2
    <3>5. \A c \in Calls : call'[c] = IF c \in Waiting THEN [call[c] EXCEPT !.pc = "pending", !.k = k] ELSE call[c]
      BY <3>1 DEF Sent
    <3>6. ASSUME NEW c \in Waiting PROVE call'[c].k = k /\ \E m \in up'[k] : m.c = c
      <4>1. call[c] \in CallState /\ c \in Calls
        BY <1>t DEF TypeOK, Waiting
      <4>2. call'[c].k = k
        BY <3>5, <4>1 DEF CallState
      <4>3. [type |-> call[c].kind, c |-> c] \in up'[k]
        BY <3>2
      <4> QED
        BY <4>2, <4>3
    <3>7. \A c \in Calls : call'[c].pc = "pending" =>
            \/ call[c].pc = "pending" /\ call'[c].k = call[c].k /\ Head(down[k]).c # c
            \/ call'[c].k \in Sockets /\ \E m \in up'[call'[c].k] : m.c = c
      BY <2>2, <3>5, <3>6
    <3>8. \A j \in Sockets : \A m \in up[j] : m \in up'[j]
      BY <3>2
    <3> HIDE DEF Sure
    <3> QED
      BY <2>1, <3>4, <3>7, <3>8, TakenUnderway
  <2>4. CASE ~ (hello /\ opener = k)
    <3>1. UNCHANGED <<call, up>>
      BY <1>8, <2>4 DEF ReceiveAck
    <3> HIDE DEF Sure
    <3> QED
      BY <2>1, <2>2, <3>1, TakenUnderway
  <2> QED
    BY <2>3, <2>4
<1>9. ASSUME NEW k \in Sockets, ReceiveAnswer(k) PROVE Sure'
  <2>1. PICK m : m = Head(down[k])
    OBVIOUS
  <2>2. /\ down[k] # <<>> /\ down' = [down EXCEPT ![k] = Tail(@)] /\ call' = Resolved(m)
        /\ UNCHANGED <<ready, alive, up>>
    BY <1>9, <2>1 DEF ReceiveAnswer
  <2>3. m \in Answer
    BY <1>t, <2>1, <2>2 DEF TypeOK
  <2>4. \A c \in Calls : call'[c].pc = "pending" =>
          call[c].pc = "pending" /\ call'[c].k = call[c].k /\ m.c # c
    <3>1. call \in [Calls -> CallState] /\ m.c \in Calls \cup {Nil}
      BY <1>t, <2>3 DEF TypeOK, Answer
    <3>2. \A c \in Calls : [call[c] EXCEPT !.pc = "refused"].pc = "refused" /\ Idle.pc = "idle"
      BY <3>1 DEF CallState, Idle
    <3>3. CASE m.c = Nil \/ call[m.c].pc # "pending"
      BY <2>2, <3>3, NilAssumption DEF Resolved
    <3>4. CASE m.c \in Calls /\ call[m.c].pc = "pending"
      <4>1. /\ \A c \in Calls : c # m.c => call'[c] = call[c]
            /\ call'[m.c] \in {Idle, [call[m.c] EXCEPT !.pc = "refused"]}
        BY <2>2, <3>1, <3>4, NilAssumption DEF Resolved
      <4> QED
        BY <3>2, <3>4, <4>1
    <3> QED
      BY <3>1, <3>3, <3>4
  <2> HIDE DEF Sure
  <2> QED
    BY <2>1, <2>2, <2>4, TakenUnderway
<1>10. ASSUME NEW k \in Sockets, ServeHello(k) PROVE Sure'
  BY <1>10, ReplyUnderway DEF ServeHello
<1>11. ASSUME NEW k \in Sockets, NEW c \in Calls, ServeRequest(k, c) PROVE Sure'
  <2>1. PICK m \in up[k] : k \in alive /\
          \E r \in Rooms \cup {Nil}, type \in {"roomJoined", "participantLeft", "otherDone", "error"} :
            Reply(k, m, type, r)
    BY <1>11, <1>t DEF ServeRequest, TypeOK
  <2> QED
    BY <2>1, ReplyUnderway
<1>12. ASSUME NEW k \in Sockets, ServerClose(k) PROVE Sure'
  <2>1. /\ UNCHANGED <<call, ready, down>> /\ alive' = alive \ {k}
        /\ \A j \in Sockets : up'[j] = IF j = k THEN {} ELSE up[j]
    BY <1>12, <1>t DEF ServerClose, client, TypeOK
  <2>2. Underway'
    BY <1>p, <2>1 DEF Underway, Bears
  <2> QED
    BY <2>1, <2>2
<1>14. ASSUME NEW k \in Sockets, NEW c \in Calls, CarryOut(k, c) PROVE Sure'
  <2>1. PICK m \in up[k], r \in Rooms, n \in Message :
          /\ m.c = c
          /\ up' = [up EXCEPT ![k] = (@ \ {m}) \cup {n}]
          /\ n.c = c /\ n.type # "hello"
    <3>1. \A r \in Rooms : /\ [type |-> "entered", c |-> c, r |-> r].c = c
                           /\ [type |-> "entered", c |-> c, r |-> r].type = "entered"
                           /\ [type |-> "carriedOut", c |-> c, r |-> r].c = c
                           /\ [type |-> "carriedOut", c |-> c, r |-> r].type = "carriedOut"
      OBVIOUS
    <3> QED
      BY <1>14, <3>1, HandlersAreMessages DEF CarryOut
  <2>2. UNCHANGED <<call, ready, down, alive>>
    BY <1>14 DEF CarryOut, client
  <2>5. \A j \in Sockets : up'[j] = IF j = k THEN (up[k] \ {m}) \cup {n} ELSE up[j]
    BY <1>t, <2>1 DEF TypeOK
  <2>6. \A j \in Sockets, d \in Calls : Bears(j, d) => Bears(j, d)'
    BY <2>1, <2>2, <2>5 DEF Bears
  <2>7. Underway'
    BY <1>p, <2>2, <2>6 DEF Underway
  <2>8. Greetings' /\ ClosedThere'
    BY <2>1, <2>2, <2>5
  <2> QED
    BY <2>7, <2>8
<1>16. ASSUME NEW k \in Sockets, NEW c \in Calls, buildRoomJoinedPayload(k, c) PROVE Sure'
  <2>1. PICK m \in up[k] : k \in alive /\
          \E r \in Rooms \cup {Nil}, type \in {"roomJoined", "error"} : Reply(k, m, type, r)
    <3>1. \A m \in Joining(k) : m \in up[k] /\ m.r \in Rooms
      BY <1>t, JoiningRoom DEF Joining
    <3> QED
      BY <1>16, <3>1 DEF buildRoomJoinedPayload
  <2> QED
    BY <2>1, ReplyUnderway
<1>15. ASSUME NEW k \in Sockets, NEW c \in Calls, broadcastToRoom(k, c) PROVE Sure'
  <2>1. PICK m \in up[k] :
          /\ m.c = c /\ k \in alive
          /\ \/ Reply(k, m, "otherDone", Nil)
             \/ /\ up' = [up EXCEPT ![k] = @ \ {m}]
                /\ call' = IF call[c].pc = "pending" THEN [call EXCEPT ![c].pc = "unheard"] ELSE call
                /\ UNCHANGED <<ready, down, alive>>
    BY <1>15 DEF broadcastToRoom
  <2>2. CASE Reply(k, m, "otherDone", Nil)
    BY <2>1, <2>2, ReplyUnderway
  <2>3. CASE ~ Reply(k, m, "otherDone", Nil)
    <3>1. /\ call' = IF call[c].pc = "pending" THEN [call EXCEPT ![c].pc = "unheard"] ELSE call
          /\ UNCHANGED <<ready, down, alive>>
          /\ \A j \in Sockets : up'[j] = IF j = k THEN up[k] \ {m} ELSE up[j]
      BY <1>t, <2>1, <2>3 DEF TypeOK
    <3>2. \A d \in Calls : call'[d].pc = "pending" => d # c /\ call'[d] = call[d]
      BY <1>t, <3>1 DEF TypeOK, CallState
    <3>3. \A j \in Sockets, d \in Calls : Bears(j, d) /\ d # c => Bears(j, d)'
      BY <2>1, <3>1 DEF Bears
    <3>4. Underway'
      <4> SUFFICES ASSUME NEW d \in Calls, call'[d].pc = "pending", call'[d].k \in alive
                   PROVE  Bears(call[d].k, d)'
        BY <3>1 DEF Underway
      <4>1. d # c /\ call'[d] = call[d]
        BY <3>2
      <4>2. PICK j \in Sockets : j = call[d].k
        BY <1>p, <4>1
      <4>3. Bears(j, d)
        BY <4>1, <4>2 DEF Underway
      <4>4. Bears(j, d)'
        BY <3>3, <4>1, <4>3
      <4> QED
        BY <4>1, <4>2, <4>4
    <3>5. Greetings' /\ ClosedThere'
      BY <3>1
    <3> QED
      BY <3>4, <3>5
  <2> QED
    BY <2>2, <2>3
<1>13. CASE UNCHANGED vars
  BY <1>13, StillUnderway DEF vars, client, network
<1> QED
  BY <1>1, <1>2, <1>3, <1>4, <1>5, <1>6, <1>7, <1>8, <1>9, <1>10, <1>11, <1>12, <1>13, <1>14, <1>15, <1>16 DEF Next

\* What a message asks for.
Asks(m) ==
  CASE m.type = "entered" -> "enter" [] m.type = "carriedOut" -> "other" [] OTHER -> m.type

\* A message of a request that is pending asks for what the request does, and
\* one that waits for a connection has no message.
Matching ==
  \A k \in Sockets, c \in Calls : \A m \in up[k] :
    m.c = c => call[c].pc # "waiting" /\ (call[c].pc = "pending" => call[c].kind = Asks(m))

\* Only a request that a broadcast answers can be left unheard.
UnheardBroadcast == \A c \in Calls : call[c].pc = "unheard" => call[c].kind = "other"

Asked == Matching /\ UnheardBroadcast

\* A step that sends no request, and at most ends some.
LEMMA StillAsked ==
  ASSUME Asked,
         \A k \in Sockets : \A m \in up'[k] : m \in up[k] \/ m.c \notin Calls,
         \A c \in Calls : call'[c] = call[c] \/ call'[c].pc \in {"idle", "refused"}
  PROVE  Asked'
<1>1. Matching'
  BY DEF Asked, Matching
<1>2. UnheardBroadcast'
  BY DEF Asked, UnheardBroadcast
<1> QED
  BY <1>1, <1>2 DEF Asked

\* Every step keeps the messages and the requests matched.
LEMMA NextAsked == Inv /\ Asked /\ [Next]_vars => Asked'
<1> SUFFICES ASSUME Inv, Asked, [Next]_vars PROVE Asked'
  OBVIOUS
<1>t. TypeOK
  BY DEF Inv
<1>1. ASSUME NEW c \in Calls, NEW kind \in Kinds, CallNow(c, kind) PROVE Asked'
  <2>1. PICK n : n = [type |-> kind, c |-> c]
    OBVIOUS
  <2>2. n.type = kind /\ n.c = c /\ kind \notin {"entered", "carriedOut"}
    BY <2>1 DEF Kinds
  <2>3. /\ socket \in Sockets
        /\ call'[c].pc = "pending" /\ call'[c].kind = kind
        /\ \A d \in Calls \ {c} : call'[d] = call[d]
        /\ \A j \in Sockets : up'[j] = IF j = socket THEN up[j] \cup {n} ELSE up[j]
        /\ \A j \in Sockets : \A m \in up[j] : m.c # c
    BY <1>1, <1>t, <2>1 DEF CallNow, Connected, Unsent, TypeOK
  <2>4. Matching'
    <3> SUFFICES ASSUME NEW j \in Sockets, NEW d \in Calls, NEW m \in up'[j], m.c = d
                 PROVE  call'[d].pc # "waiting" /\ (call'[d].pc = "pending" => call'[d].kind = Asks(m))
      BY DEF Matching, Asks
    <3>1. CASE m \in up[j]
      <4>1. d # c
        BY <2>3, <3>1
      <4> QED
        BY <2>3, <3>1, <4>1 DEF Asked, Matching
    <3>2. CASE m \notin up[j]
      <4>1. m = n
        BY <2>3, <3>2
      <4>2. d = c /\ Asks(m) = kind
        BY <2>2, <4>1 DEF Asks
      <4> QED
        BY <2>3, <4>2
    <3> QED
      BY <3>1, <3>2
  <2>5. UnheardBroadcast'
    BY <2>3 DEF Asked, UnheardBroadcast
  <2> QED
    BY <2>4, <2>5 DEF Asked
<1>2. ASSUME NEW c \in Calls, NEW kind \in Kinds, CallFirst(c, kind) PROVE Asked'
  <2>1. /\ call'[c].pc = "waiting"
        /\ \A d \in Calls \ {c} : call'[d] = call[d]
        /\ up' = up
        /\ \A j \in Sockets : \A m \in up[j] : m.c # c
    BY <1>2, <1>t DEF CallFirst, Unsent, TypeOK
  <2>2. Matching'
    BY <2>1 DEF Asked, Matching, Asks
  <2>3. UnheardBroadcast'
    BY <2>1 DEF Asked, UnheardBroadcast
  <2> QED
    BY <2>2, <2>3 DEF Asked
<1>3. CASE SendParams
  BY <1>3, StillAsked DEF SendParams
<1>4. ASSUME NEW k \in Sockets, Open(k) PROVE Asked'
  <2>1. \A c \in Calls : call'[c] = call[c] \/ call'[c].pc = "idle"
    BY <1>4, <1>t DEF Open, ConnectFails, Idle, TypeOK
  <2>2. \A j \in Sockets : \A m \in up'[j] : m \in up[j] \/ m.c \notin Calls
    <3>1. \A j \in Sockets : j # k => up'[j] = up[j]
      BY <1>4, <1>t DEF Open, TypeOK
    <3>2. up'[k] = up[k] \/ up'[k] = {[type |-> "hello", c |-> Nil]}
      BY <1>4, <1>t DEF Open, TypeOK
    <3>3. [type |-> "hello", c |-> Nil].c \notin Calls
      BY NilAssumption
    <3> QED
      BY <3>1, <3>2, <3>3
  <2> QED
    BY <2>1, <2>2, StillAsked
<1>5. ASSUME NEW k \in Sockets, Fail(k) PROVE Asked'
  <2>1. up' = up /\ \A c \in Calls : call'[c].pc = "idle"
    BY <1>5 DEF Fail, Idle
  <2> QED
    BY <2>1, StillAsked
<1>6. ASSUME NEW k \in Sockets, CloseFrame(k) PROVE Asked'
  BY <1>6, StillAsked DEF CloseFrame, client
<1>7. ASSUME NEW k \in Sockets, Close(k) PROVE Asked'
  <2>1. \A c \in Calls : call'[c] = call[c] \/ call'[c].pc = "idle"
    BY <1>7 DEF Close, handleSocketClose, Idle
  <2>2. \A j \in Sockets : up'[j] \subseteq up[j]
    BY <1>7, <1>t DEF Close, TypeOK
  <2> QED
    BY <2>1, <2>2, StillAsked
<1>8. ASSUME NEW k \in Sockets, ReceiveAck(k) PROVE Asked'
  <2>1. CASE hello /\ opener = k
    <3>1. /\ \A j \in Sockets : up'[j] = IF j = k
                                         THEN up[k] \cup {[type |-> call[c].kind, c |-> c] : c \in Waiting}
                                         ELSE up[j]
          /\ \A c \in Calls : call'[c] = IF c \in Waiting
                                         THEN [call[c] EXCEPT !.pc = "pending", !.k = k] ELSE call[c]
      BY <1>8, <1>t, <2>1 DEF ReceiveAck, Sent, Sending, TypeOK
    <3>2. \A c \in Waiting : c \in Calls /\ call[c].kind \in Kinds /\ call[c].pc = "waiting"
      BY <1>t DEF TypeOK, CallState, Waiting
    <3>3. \A c \in Waiting : call'[c].pc = "pending" /\ call'[c].kind = call[c].kind
      BY <1>t, <3>1, <3>2 DEF TypeOK, CallState
    <3>4. ASSUME NEW j \in Sockets, NEW c \in Calls, NEW m \in up'[j], m.c = c
          PROVE  call'[c].pc # "waiting" /\ (call'[c].pc = "pending" => call'[c].kind = Asks(m))
      <4>1. CASE m \in up[j]
        <5>1. call[c].pc # "waiting" /\ (call[c].pc = "pending" => call[c].kind = Asks(m))
          BY <3>4, <4>1 DEF Asked, Matching
        <5>2. call'[c] = call[c]
          BY <3>1, <3>2, <5>1
        <5> QED
          BY <5>1, <5>2
      <4>2. CASE m \notin up[j]
        <5>1. m \in {[type |-> call[d].kind, c |-> d] : d \in Waiting}
          BY <3>1, <4>2
        <5>2. c \in Waiting /\ m.type = call[c].kind
          BY <3>4, <5>1
        <5>3. m.type \notin {"entered", "carriedOut"}
          BY <3>2, <5>2 DEF Kinds
        <5> QED
          BY <3>3, <5>2, <5>3 DEF Asks
      <4> QED
        BY <4>1, <4>2
    <3>5. Matching'
      BY <3>4 DEF Matching, Asks
    <3>6. UnheardBroadcast'
      BY <3>1, <3>3 DEF Asked, UnheardBroadcast
    <3> QED
      BY <3>5, <3>6 DEF Asked
  <2>2. CASE ~ (hello /\ opener = k)
    BY <1>8, <2>2, StillAsked DEF ReceiveAck
  <2> QED
    BY <2>1, <2>2
<1>9. ASSUME NEW k \in Sockets, ReceiveAnswer(k) PROVE Asked'
  <2>1. PICK m : m = Head(down[k])
    OBVIOUS
  <2>2. call' = Resolved(m) /\ up' = up /\ call \in [Calls -> CallState]
    BY <1>9, <1>t, <2>1 DEF ReceiveAnswer, TypeOK
  <2>3. \A c \in Calls : [call[c] EXCEPT !.pc = "refused"].pc = "refused" /\ Idle.pc = "idle"
    BY <2>2 DEF CallState, Idle
  <2>4. \A c \in Calls : call'[c] = call[c] \/ call'[c] = Idle \/ call'[c] = [call[c] EXCEPT !.pc = "refused"]
    BY <2>2 DEF Resolved
  <2>5. \A c \in Calls : call'[c] = call[c] \/ call'[c].pc \in {"idle", "refused"}
    BY <2>3, <2>4
  <2> QED
    BY <2>2, <2>5, StillAsked
<1>10. ASSUME NEW k \in Sockets, NEW m, NEW type, NEW r, Reply(k, m, type, r) PROVE Asked'
  <2>1. call' = call /\ \A j \in Sockets : up'[j] \subseteq up[j]
    BY <1>10, <1>t DEF Reply, client, TypeOK
  <2> QED
    BY <2>1, StillAsked
<1>11. ASSUME NEW k \in Sockets, ServeHello(k) PROVE Asked'
  BY <1>10, <1>11 DEF ServeHello
<1>12. ASSUME NEW k \in Sockets, NEW c \in Calls, ServeRequest(k, c) PROVE Asked'
  BY <1>10, <1>12 DEF ServeRequest
<1>13. ASSUME NEW k \in Sockets, NEW c \in Calls, CarryOut(k, c) PROVE Asked'
  <2>1. PICK m \in up[k], r \in Rooms, n \in Message :
          /\ m.c = c /\ n.c = c /\ Asks(n) = Asks(m)
          /\ up' = [up EXCEPT ![k] = (@ \ {m}) \cup {n}]
    <3>1. ASSUME NEW r \in Rooms, NEW o, o = [type |-> "entered", c |-> c, r |-> r]
          PROVE  o.c = c /\ Asks(o) = "enter"
      BY <3>1 DEF Asks
    <3>2. ASSUME NEW r \in Rooms, NEW o, o = [type |-> "carriedOut", c |-> c, r |-> r]
          PROVE  o.c = c /\ Asks(o) = "other"
      BY <3>2 DEF Asks
    <3>3. \A m \in up[k] : m.type \in {"enter", "other"} => Asks(m) = m.type
      BY DEF Asks
    <3>4. PICK m \in up[k], r \in Rooms :
            /\ m.c = c
            /\ \/ /\ m.type = "enter"
                  /\ up' = [up EXCEPT ![k] = (@ \ {m}) \cup {[type |-> "entered", c |-> c, r |-> r]}]
               \/ /\ m.type = "other"
                  /\ up' = [up EXCEPT ![k] = (@ \ {m}) \cup {[type |-> "carriedOut", c |-> c, r |-> r]}]
      BY <1>13 DEF CarryOut
    <3>5. PICK e \in Message : e = [type |-> "entered", c |-> c, r |-> r]
      BY HandlersAreMessages
    <3>6. PICK o \in Message : o = [type |-> "carriedOut", c |-> c, r |-> r]
      BY HandlersAreMessages
    <3>7. CASE m.type = "enter"
      <4>1. /\ e.c = c /\ Asks(e) = Asks(m)
            /\ up' = [up EXCEPT ![k] = (@ \ {m}) \cup {e}]
        BY <3>1, <3>3, <3>4, <3>5, <3>7
      <4> QED
        BY <3>4, <4>1
    <3>8. CASE m.type = "other"
      <4>1. /\ o.c = c /\ Asks(o) = Asks(m)
            /\ up' = [up EXCEPT ![k] = (@ \ {m}) \cup {o}]
        BY <3>2, <3>3, <3>4, <3>6, <3>8
      <4> QED
        BY <3>4, <4>1
    <3> QED
      BY <3>4, <3>7, <3>8
  <2>4. call' = call /\ \A j \in Sockets : up'[j] = IF j = k THEN (up[k] \ {m}) \cup {n} ELSE up[j]
    BY <1>13, <1>t, <2>1 DEF CarryOut, client, TypeOK
  <2>5. \A j \in Sockets, d \in Calls : \A o \in up'[j] : o.c = d =>
          call[d].pc # "waiting" /\ (call[d].pc = "pending" => call[d].kind = Asks(o))
    BY <2>1, <2>4 DEF Asked, Matching
  <2>6. Matching'
    BY <2>4, <2>5 DEF Matching, Asks
  <2> QED
    BY <2>4, <2>6 DEF Asked, UnheardBroadcast
<1>17. ASSUME NEW k \in Sockets, NEW c \in Calls, buildRoomJoinedPayload(k, c) PROVE Asked'
  BY <1>10, <1>17 DEF buildRoomJoinedPayload
<1>14. ASSUME NEW k \in Sockets, NEW c \in Calls, broadcastToRoom(k, c) PROVE Asked'
  <2>1. PICK m \in up[k] :
          /\ m.c = c /\ m.type = "carriedOut"
          /\ \/ Reply(k, m, "otherDone", Nil)
             \/ /\ up' = [up EXCEPT ![k] = @ \ {m}]
                /\ call' = IF call[c].pc = "pending" THEN [call EXCEPT ![c].pc = "unheard"] ELSE call
    BY <1>14 DEF broadcastToRoom
  <2>2. CASE Reply(k, m, "otherDone", Nil)
    BY <1>10, <2>2
  <2>3. CASE ~ Reply(k, m, "otherDone", Nil)
    <3>1. \A j \in Sockets : up'[j] \subseteq up[j]
      BY <1>t, <2>1, <2>3 DEF TypeOK
    <3>2. CASE call[c].pc = "pending"
      <4>1. call[c].kind = "other"
        BY <2>1, <3>2 DEF Asked, Matching, Asks
      <4>2. /\ call'[c].pc = "unheard" /\ call'[c].kind = "other"
            /\ \A d \in Calls \ {c} : call'[d] = call[d]
        BY <1>t, <2>1, <2>3, <3>2, <4>1 DEF TypeOK, CallState
      <4>3. Matching'
        BY <3>1, <4>2 DEF Asked, Matching, Asks
      <4>4. UnheardBroadcast'
        BY <4>2 DEF Asked, UnheardBroadcast
      <4> QED
        BY <4>3, <4>4 DEF Asked
    <3>3. CASE call[c].pc # "pending"
      BY <2>1, <2>3, <3>1, <3>3, StillAsked
    <3> QED
      BY <3>2, <3>3
  <2> QED
    BY <2>2, <2>3
<1>15. ASSUME NEW k \in Sockets, ServerClose(k) PROVE Asked'
  <2>1. call' = call /\ \A j \in Sockets : up'[j] \subseteq up[j]
    BY <1>15, <1>t DEF ServerClose, client, TypeOK
  <2> QED
    BY <2>1, StillAsked
<1>16. CASE UNCHANGED vars
  BY <1>16, StillAsked DEF vars, client, network
<1> QED
  BY <1>1, <1>2, <1>3, <1>4, <1>5, <1>6, <1>7, <1>8, <1>9, <1>11, <1>12, <1>13, <1>14, <1>15, <1>16, <1>17 DEF Next

\* No request of the client is forgotten between the two programs: while one is
\* pending it is on its way, in the server's hands, or its answer is on its way
\* back, or the connection has been closed, whatever other sockets open and close
\* meanwhile.  The one way to end without an answer, a broadcast to a room that
\* the session has left, is open to take_owner, set_display_name and
\* set_room_settings only.
THEOREM RequestsAreUnderway == Spec => [](Underway /\ UnheardBroadcast)
<1>1. Init => Sure
  <2> SUFFICES ASSUME Init PROVE Sure
    OBVIOUS
  <2>1. \A k \in Sockets : up[k] = {} /\ down[k] = <<>> /\ ready[k] = "none"
    BY DEF Init
  <2>2. \A c \in Calls : call[c].pc = "idle"
    BY DEF Init, Idle
  <2> QED
    BY <2>1, <2>2 DEF Underway
<1>2. Init => Asked
  <2> SUFFICES ASSUME Init PROVE Asked
    OBVIOUS
  <2>1. (\A k \in Sockets : up[k] = {}) /\ (\A c \in Calls : call[c].pc = "idle")
    BY DEF Init, Idle
  <2> QED
    BY <2>1 DEF Asked, Matching, UnheardBroadcast
<1>3. Sure /\ Asked => Underway /\ UnheardBroadcast
  BY DEF Asked
<1> QED
  BY <1>1, <1>2, <1>3, NextSure, NextAsked, InvAlways, PTL DEF Spec

-----------------------------------------------------------------------------
(* The room shown is the session's: the safety part of ViewHeals.          *)

HIDE DEF Sure, Greetings, ClosedThere

\* The answers that enter or leave a room, and the room they lead to.
Moves(m) == m.type \in {"roomJoined", "participantLeft"}
To(m)    == IF m.type = "roomJoined" THEN m.r ELSE Nil

\* No answer on its way to k changes the room.
Still(k) == \A i \in DOMAIN down[k] : ~ Moves(down[k][i])

\* k is the client's only connection, and the server has it too.
Sole(k)   == socket = k /\ \A j \in Sockets \ {k} : ready[j] = "none"
Shared(k) == Sole(k) /\ ready[k] = "open" /\ k \in alive

\* With one connection, the client shows the room of its session once it has
\* handled the answers on their way and no join_room of it is being answered,
\* unless the answers of a join_room and a leave_room have crossed.
RoomTold ==
  \A k \in Sockets :
    Shared(k) /\ Still(k) /\ Joining(k) = {} /\ k \notin crossed => room = seat[k]

\* The last of the answers on their way leads to the room of the session.
Leads(k) ==
  /\ Still(k) => room = seat[k]
  /\ \A i \in DOMAIN down[k] :
       /\ Moves(down[k][i])
       /\ \A j \in DOMAIN down[k] : j > i => ~ Moves(down[k][j])
       => To(down[k][i]) = seat[k]

\* The answer of a join_room, which is one at a time, is to lead there.
Told(k) ==
  k \notin crossed =>
    /\ Joining(k) = {} => Leads(k)
    /\ \A m, n \in Joining(k) : m = n /\ m.r = seat[k]

\* The client knows its session before it gets an answer about its room.
Known(k) ==
  /\ k \in shook => self = k \/ \E i \in DOMAIN down[k] : down[k][i].type = "helloAck"
  /\ \A i \in DOMAIN down[k] : down[k][i].type = "participantLeft" =>
       self = k \/ \E j \in DOMAIN down[k] : j < i /\ down[k][j].type = "helloAck"

\* A connection that is not open at the server has no session there, and to one
\* that is not open yet, or any more, nothing is on its way.
Blank ==
  \A k \in Sockets :
    /\ k \notin alive => seat[k] = Nil /\ k \notin shook
    /\ ready[k] \in {"none", "connecting"} => down[k] = <<>>
    /\ ready[k] = "connecting" => k \notin alive /\ (Sole(k) => room = Nil)

Faithful == Blank /\ \A k \in Sockets : Shared(k) => Told(k) /\ Known(k)

\* A step that leaves the server and what is on its way alone, and shares no
\* connection that was not.
LEMMA QuietTold ==
  ASSUME Faithful, down' = down, seat' = seat, alive' = alive, shook' = shook, self' = self,
         crossed' = crossed,
         \A k \in Sockets : Shared(k)' => Shared(k) /\ room' = room /\ Joining(k)' = Joining(k),
         \A k \in Sockets : ready'[k] \in {"none", "connecting"} => down[k] = <<>>,
         \A k \in Sockets : ready'[k] = "connecting" => k \notin alive /\ (Sole(k)' => room' = Nil)
  PROVE  Faithful'
<1>1. Blank'
  BY DEF Faithful, Blank
<1>2. ASSUME NEW k \in Sockets, Shared(k)' PROVE Told(k)' /\ Known(k)'
  <2>1. Told(k) /\ Known(k) /\ room' = room /\ Joining(k)' = Joining(k)
    BY <1>2 DEF Faithful
  <2>2. Leads(k) => Leads(k)'
    BY <2>1 DEF Leads, Still
  <2>3. Told(k)'
    BY <2>1, <2>2 DEF Told
  <2> QED
    BY <2>1, <2>3 DEF Known
<1> QED
  BY <1>1, <1>2 DEF Faithful

\* Opening a socket: no other lives, or the step has not made it the only one.
LEMMA ConnectTold ==
  ASSUME Inv, Faithful, Connect, UNCHANGED <<down, seat, alive, shook, crossed, self, room>>
  PROVE  Faithful'
<1>1. PICK k \in Sockets : /\ ready[k] = "none" /\ k \notin alive /\ socket' = k
                           /\ ready' = [ready EXCEPT ![k] = "connecting"]
  BY DEF Connect, Fresh
<1>2. \A j \in Sockets : ready'[j] = IF j = k THEN "connecting" ELSE ready[j]
  BY <1>1 DEF Inv, TypeOK
<1>3. \A j \in Sockets : ~ Shared(j)'
  BY <1>1, <1>2 DEF Shared, Sole
<1>4. Sole(k)' => room' = Nil
  <2> SUFFICES ASSUME Sole(k)' PROVE room = Nil
    OBVIOUS
  <2>1. \A j \in Sockets : ready[j] = "none"
    BY <1>1, <1>2 DEF Sole
  <2> QED
    BY <2>1 DEF Inv, Held, ShownHasConnection, Live
<1>5. \A j \in Sockets : j # k => ~ Sole(j)'
  BY <1>1 DEF Sole
<1>6. \A j \in Sockets : ready'[j] = "connecting" => j \notin alive /\ (Sole(j)' => room' = Nil)
  BY <1>1, <1>2, <1>4, <1>5 DEF Faithful, Blank
<1>7. \A j \in Sockets : ready'[j] \in {"none", "connecting"} => down[j] = <<>>
  BY <1>1, <1>2 DEF Faithful, Blank
<1> QED
  BY <1>3, <1>6, <1>7, QuietTold

\* An answer e is put on its way to k, and the session is where it leads.
LEMMA AppendLeads ==
  ASSUME NEW k \in Sockets, NEW e \in Answer, down[k] \in Seq(Answer),
         down'[k] = Append(down[k], e), room' = room, self' = self,
         seat'[k] = IF Moves(e) THEN To(e) ELSE seat[k],
         Moves(e) \/ Leads(k)
  PROVE  Leads(k)'
<1>1. /\ DOMAIN down[k] = 1 .. Len(down[k]) /\ Len(down[k]) \in Nat
      /\ DOMAIN down'[k] = 1 .. Len(down[k]) + 1
      /\ down'[k][Len(down[k]) + 1] = e
      /\ \A i \in 1 .. Len(down[k]) : down'[k][i] = down[k][i]
  <2>1. DOMAIN down[k] = 1 .. Len(down[k]) /\ Len(down[k]) \in Nat
    OBVIOUS
  <2>2. DOMAIN down'[k] = 1 .. Len(down[k]) + 1
    OBVIOUS
  <2>3. down'[k][Len(down[k]) + 1] = e
    OBVIOUS
  <2>4. \A i \in 1 .. Len(down[k]) : down'[k][i] = down[k][i]
    OBVIOUS
  <2> QED
    BY <2>1, <2>2, <2>3, <2>4
<1>2. Still(k)' => room' = seat'[k]
  BY <1>1 DEF Leads, Still
<1>3. ASSUME NEW i \in DOMAIN down'[k], Moves(down'[k][i]),
             \A j \in DOMAIN down'[k] : j > i => ~ Moves(down'[k][j])
      PROVE  To(down'[k][i]) = seat'[k]
  <2>1. CASE i = Len(down[k]) + 1
    BY <1>1, <1>3, <2>1
  <2>2. CASE i \in 1 .. Len(down[k])
    <3>1. ~ Moves(e)
      BY <1>1, <1>3, <2>2
    <3>2. Moves(down[k][i]) /\ \A j \in DOMAIN down[k] : j > i => ~ Moves(down[k][j])
      BY <1>1, <1>3, <2>2
    <3>3. To(down[k][i]) = seat[k]
      BY <1>1, <2>2, <3>1, <3>2 DEF Leads
    <3> QED
      BY <1>1, <2>2, <3>1, <3>3
  <2> QED
    BY <1>1, <1>3, <2>1, <2>2
<1> QED
  BY <1>2, <1>3 DEF Leads

\* The client still knows its session when e is put on its way to k.
LEMMA AppendKnown ==
  ASSUME NEW k \in Sockets, NEW e \in Answer, down[k] \in Seq(Answer), Known(k),
         down'[k] = Append(down[k], e), self' = self,
         k \in shook' => k \in shook \/ e.type = "helloAck",
         e.type = "participantLeft" => k \in shook
  PROVE  Known(k)'
<1>1. /\ DOMAIN down[k] = 1 .. Len(down[k]) /\ Len(down[k]) \in Nat
      /\ DOMAIN down'[k] = 1 .. Len(down[k]) + 1
      /\ down'[k][Len(down[k]) + 1] = e
      /\ \A i \in 1 .. Len(down[k]) : down'[k][i] = down[k][i]
  <2>1. DOMAIN down[k] = 1 .. Len(down[k]) /\ Len(down[k]) \in Nat
    OBVIOUS
  <2>2. DOMAIN down'[k] = 1 .. Len(down[k]) + 1
    OBVIOUS
  <2>3. down'[k][Len(down[k]) + 1] = e
    OBVIOUS
  <2>4. \A i \in 1 .. Len(down[k]) : down'[k][i] = down[k][i]
    OBVIOUS
  <2> QED
    BY <2>1, <2>2, <2>3, <2>4
<1>4. k \in shook' => self' = k \/ \E i \in DOMAIN down'[k] : down'[k][i].type = "helloAck"
  <2>1. CASE e.type = "helloAck"
    <3>1. Len(down[k]) + 1 \in DOMAIN down'[k]
      BY <1>1
    <3> QED
      BY <1>1, <2>1, <3>1
  <2>2. CASE e.type # "helloAck"
    <3>1. ASSUME NEW j \in DOMAIN down[k] PROVE j \in DOMAIN down'[k] /\ down'[k][j] = down[k][j]
      BY <1>1
    <3> QED
      BY <2>2, <3>1 DEF Known
  <2> QED
    BY <2>1, <2>2
<1>5. ASSUME NEW i \in DOMAIN down'[k], down'[k][i].type = "participantLeft", self' # k
      PROVE  \E j \in DOMAIN down'[k] : j < i /\ down'[k][j].type = "helloAck"
  <2>1. CASE i = Len(down[k]) + 1
    <3>1. PICK j \in DOMAIN down[k] : down[k][j].type = "helloAck"
      BY <1>1, <1>5, <2>1 DEF Known
    <3> QED
      BY <1>1, <2>1, <3>1
  <2>2. CASE i \in 1 .. Len(down[k])
    <3>1. PICK j \in DOMAIN down[k] : j < i /\ down[k][j].type = "helloAck"
      BY <1>1, <1>5, <2>2 DEF Known
    <3> QED
      BY <1>1, <3>1
  <2> QED
    BY <1>1, <1>5, <2>1, <2>2
<1> QED
  BY <1>4, <1>5 DEF Known

\* The first answer on its way to k is taken, and the client goes where it leads.
LEMMA TakeLeads ==
  ASSUME NEW k \in Sockets, down[k] \in Seq(Answer), down[k] # <<>>, Known(k),
         down'[k] = Tail(down[k]), seat' = seat, shook' = shook,
         room' = IF Moves(Head(down[k])) THEN To(Head(down[k])) ELSE room,
         Head(down[k]).type = "helloAck" => self' = k,
         self = k => self' = k
  PROVE  (Leads(k) => Leads(k)') /\ Known(k)'
<1>1. /\ DOMAIN down[k] = 1 .. Len(down[k]) /\ Len(down[k]) \in Nat \ {0}
      /\ DOMAIN down'[k] = 1 .. Len(down[k]) - 1
      /\ Head(down[k]) = down[k][1]
      /\ \A i \in 1 .. Len(down[k]) - 1 : down'[k][i] = down[k][i + 1]
  <2>1. DOMAIN down[k] = 1 .. Len(down[k]) /\ Len(down[k]) \in Nat \ {0}
    OBVIOUS
  <2>2. DOMAIN down'[k] = 1 .. Len(down[k]) - 1
    OBVIOUS
  <2>3. Head(down[k]) = down[k][1]
    OBVIOUS
  <2>4. \A i \in 1 .. Len(down[k]) - 1 : down'[k][i] = down[k][i + 1]
    OBVIOUS
  <2> QED
    BY <2>1, <2>2, <2>3, <2>4
<1>2. ASSUME NEW j \in DOMAIN down[k], j # 1
      PROVE  j - 1 \in DOMAIN down'[k] /\ down'[k][j - 1] = down[k][j]
  <2>1. j - 1 \in 1 .. Len(down[k]) - 1 /\ (j - 1) + 1 = j
    BY <1>1, <1>2
  <2> QED
    BY <1>1, <2>1
<1>3. ASSUME NEW i \in DOMAIN down'[k] PROVE i + 1 \in DOMAIN down[k] /\ down'[k][i] = down[k][i + 1]
  <2>1. i \in 1 .. Len(down[k]) - 1
    BY <1>1
  <2> QED
    BY <1>1, <2>1
<1>4. 1 \in DOMAIN down[k] /\ \A i \in DOMAIN down[k] : i \in Nat /\ i >= 1
  BY <1>1
<1>5. ASSUME Leads(k), Still(k)' PROVE room' = seat'[k]
  <2>1. \A j \in DOMAIN down[k] : j # 1 => ~ Moves(down[k][j])
    BY <1>2, <1>5 DEF Still
  <2>2. CASE Moves(down[k][1])
    <3>1. To(down[k][1]) = seat[k]
      BY <1>4, <1>5, <2>1, <2>2 DEF Leads
    <3> QED
      BY <1>1, <2>2, <3>1
  <2>3. CASE ~ Moves(down[k][1])
    <3>1. Still(k)
      BY <2>1, <2>3 DEF Still
    <3> QED
      BY <1>1, <1>5, <2>3, <3>1 DEF Leads
  <2> QED
    BY <2>2, <2>3
<1>6. ASSUME Leads(k), NEW i \in DOMAIN down'[k], Moves(down'[k][i]),
             \A j \in DOMAIN down'[k] : j > i => ~ Moves(down'[k][j])
      PROVE  To(down'[k][i]) = seat'[k]
  <2>1. i + 1 \in DOMAIN down[k] /\ down'[k][i] = down[k][i + 1] /\ i \in Nat
    BY <1>1, <1>3
  <2>2. \A j \in DOMAIN down[k] : j > i + 1 => ~ Moves(down[k][j])
    <3> SUFFICES ASSUME NEW j \in DOMAIN down[k], j > i + 1 PROVE ~ Moves(down[k][j])
      OBVIOUS
    <3>1. j # 1 /\ j - 1 > i
      BY <1>4, <2>1
    <3> QED
      BY <1>2, <1>6, <3>1
  <2> QED
    BY <1>6, <2>1, <2>2 DEF Leads
<1>7. ASSUME self' # k, NEW j \in DOMAIN down[k], down[k][j].type = "helloAck"
      PROVE  j # 1
  BY <1>1, <1>7
<1>8. k \in shook' => self' = k \/ \E i \in DOMAIN down'[k] : down'[k][i].type = "helloAck"
  <2> SUFFICES ASSUME k \in shook, self' # k PROVE \E i \in DOMAIN down'[k] : down'[k][i].type = "helloAck"
    OBVIOUS
  <2>1. PICK j \in DOMAIN down[k] : down[k][j].type = "helloAck"
    BY DEF Known
  <2> QED
    BY <1>2, <1>7, <2>1
<1>9. ASSUME NEW i \in DOMAIN down'[k], down'[k][i].type = "participantLeft", self' # k
      PROVE  \E j \in DOMAIN down'[k] : j < i /\ down'[k][j].type = "helloAck"
  <2>1. i + 1 \in DOMAIN down[k] /\ down[k][i + 1].type = "participantLeft" /\ i \in Nat
    BY <1>1, <1>3, <1>9
  <2>2. PICK j \in DOMAIN down[k] : j < i + 1 /\ down[k][j].type = "helloAck"
    BY <1>9, <2>1 DEF Known
  <2>3. j # 1 /\ j \in Nat
    BY <1>4, <1>7, <1>9, <2>2
  <2>4. j - 1 \in DOMAIN down'[k] /\ down'[k][j - 1].type = "helloAck" /\ j - 1 < i
    BY <1>2, <2>1, <2>2, <2>3
  <2> QED
    BY <2>4
<1> QED
  BY <1>5, <1>6, <1>8, <1>9 DEF Leads, Known

\* Every step keeps what the client is told true.
LEMMA NextFaithful == Inv /\ Faithful /\ [Next]_vars => Faithful'
<1> SUFFICES ASSUME Inv, Faithful, [Next]_vars PROVE Faithful'
  OBVIOUS
<1>t. TypeOK
  BY DEF Inv
<1>q. ASSUME UNCHANGED <<down, seat, alive, shook, crossed, self, room, socket, ready>>,
             \A k \in Sockets : Joining(k)' = Joining(k)
      PROVE  Faithful'
  <2>1. \A k \in Sockets : Shared(k)' => Shared(k) /\ room' = room
    BY <1>q DEF Shared, Sole
  <2>2. \A k \in Sockets : Sole(k)' => Sole(k)
    BY <1>q DEF Sole
  <2> QED
    BY <1>q, <2>1, <2>2, QuietTold DEF Faithful, Blank
<1>1. ASSUME NEW c \in Calls, NEW kind \in Kinds, CallNow(c, kind) PROVE Faithful'
  <2>1. /\ up' = [up EXCEPT ![socket] = @ \cup {[type |-> kind, c |-> c]}]
        /\ kind # "entered"
    BY <1>1 DEF CallNow, Kinds
  <2>2. \A k \in Sockets : Joining(k)' = Joining(k)
    BY <1>t, <2>1 DEF Joining, TypeOK
  <2> QED
    BY <1>1, <2>2, <1>q DEF CallNow
<1>2. ASSUME NEW c \in Calls, NEW kind \in Kinds, CallFirst(c, kind) PROVE Faithful'
  <2>1. CASE opener = Nil
    BY <1>2, <2>1, ConnectTold DEF CallFirst
  <2>2. CASE opener # Nil
    BY <1>2, <2>2, <1>q DEF CallFirst, Joining
  <2> QED
    BY <2>1, <2>2
<1>3. CASE SendParams
  BY <1>3, ConnectTold DEF SendParams
<1>4. ASSUME NEW k \in Sockets, Open(k) PROVE Faithful'
  <2>1. /\ ready[k] = "connecting" /\ alive' = alive \cup {k} /\ socket' = socket
        /\ \A j \in Sockets : ready'[j] = IF j = k THEN "open" ELSE ready[j]
        /\ UNCHANGED <<down, seat, shook, self, room>>
        /\ socket = k => up'[k] = {[type |-> "hello", c |-> Nil]}
    BY <1>4, <1>t DEF Open, TypeOK
  <2>2. /\ down[k] = <<>> /\ k \notin alive /\ (Sole(k) => room = Nil)
        /\ seat[k] = Nil /\ k \notin shook
    BY <2>1 DEF Faithful, Blank
  <2>3. \A j \in Sockets \ {k} : ~ Sole(j)'
    BY <2>1 DEF Sole
  <2>4. Sole(k)' => Sole(k)
    BY <2>1 DEF Sole
  <2>5. Blank'
    BY <2>1, <2>3 DEF Faithful, Blank
  <2>6. ASSUME NEW j \in Sockets, Shared(j)' PROVE Told(j)' /\ Known(j)'
    <3>1. j = k /\ room = Nil
      BY <2>2, <2>3, <2>4, <2>6 DEF Shared
    <3>2. DOMAIN down[k] = {}
      BY <2>2
    <3>3. Joining(k)' = {}
      <4>1. socket = k
        BY <2>1, <2>6, <3>1 DEF Shared, Sole
      <4> QED
        BY <2>1, <4>1 DEF Joining
    <3>4. Leads(k)'
      BY <2>1, <2>2, <3>1, <3>2 DEF Leads, Still
    <3>5. Known(k)'
      BY <2>1, <2>2, <3>2 DEF Known
    <3> QED
      BY <3>1, <3>3, <3>4, <3>5 DEF Told
  <2> QED
    BY <2>5, <2>6 DEF Faithful
<1>5. ASSUME NEW k \in Sockets, Fail(k) PROVE Faithful'
  <2>1. /\ socket' = Nil /\ \A j \in Sockets : ready'[j] = IF j = k THEN "none" ELSE ready[j]
        /\ ready[k] = "connecting" /\ UNCHANGED <<down, seat, alive, shook, crossed, self>>
    BY <1>5, <1>t DEF Fail, TypeOK
  <2>2. \A j \in Sockets : ~ Sole(j)' /\ ~ Shared(j)'
    BY <2>1, NilAssumption DEF Sole, Shared
  <2> QED
    BY <2>1, <2>2, QuietTold DEF Faithful, Blank
<1>6. ASSUME NEW k \in Sockets, CloseFrame(k) PROVE Faithful'
  <2>1. /\ socket' = socket /\ room' = room
        /\ \A j \in Sockets : ready'[j] = IF j = k THEN "closing" ELSE ready[j]
        /\ ready[k] = "open" /\ UNCHANGED <<down, seat, alive, shook, crossed, self>>
    BY <1>6, <1>t DEF CloseFrame, TypeOK, client
  <2>2. \A j \in Sockets : /\ Sole(j)' => j = k
                           /\ ~ Shared(j)'
    BY <2>1 DEF Sole, Shared
  <2> QED
    BY <2>1, <2>2, QuietTold DEF Faithful, Blank
<1>7. ASSUME NEW k \in Sockets, Close(k) PROVE Faithful'
  <2>1. /\ socket' = Nil /\ \A j \in Sockets : ready'[j] = IF j = k THEN "none" ELSE ready[j]
        /\ \A j \in Sockets : down'[j] = IF j = k THEN <<>> ELSE down[j]
        /\ UNCHANGED <<seat, alive, shook>>
    BY <1>7, <1>t DEF Close, handleSocketClose, TypeOK
  <2>2. \A j \in Sockets : ~ Sole(j)' /\ ~ Shared(j)'
    BY <2>1, NilAssumption DEF Sole, Shared
  <2> QED
    BY <2>1, <2>2 DEF Faithful, Blank
<1>8. ASSUME NEW k \in Sockets, ready[k] = "open", down[k] # <<>>,
             down' = [down EXCEPT ![k] = Tail(@)],
             UNCHANGED <<socket, ready, alive, shook, seat, crossed>>,
             \A j \in Sockets : Joining(j)' = Joining(j),
             Shared(k) => /\ room' = IF Moves(Head(down[k])) THEN To(Head(down[k])) ELSE room
                          /\ Head(down[k]).type = "helloAck" => self' = k
                          /\ self = k => self' = k
      PROVE  Faithful'
  <2>1. /\ down[k] \in Seq(Answer)
        /\ \A j \in Sockets : down'[j] = IF j = k THEN Tail(down[k]) ELSE down[j]
    BY <1>8, <1>t DEF TypeOK
  <2>2. \A j \in Sockets : j # k => ~ Sole(j)'
    BY <1>8 DEF Sole
  <2>3. Blank'
    BY <1>8, <2>1, <2>2 DEF Faithful, Blank
  <2>4. ASSUME NEW j \in Sockets, Shared(j)' PROVE Told(j)' /\ Known(j)'
    <3>1. j = k /\ Shared(k)
      BY <1>8, <2>2, <2>4 DEF Shared, Sole
    <3>2. Told(k) /\ Known(k)
      BY <3>1 DEF Faithful
    <3>3. (Leads(k) => Leads(k)') /\ Known(k)'
      BY <1>8, <2>1, <3>1, <3>2, TakeLeads
    <3>4. Told(k)'
      BY <1>8, <3>2, <3>3 DEF Told
    <3> QED
      BY <3>1, <3>3, <3>4
  <2> QED
    BY <2>3, <2>4 DEF Faithful
<1>9. ASSUME NEW k \in Sockets, ReceiveAck(k) PROVE Faithful'
  <2>1. /\ ready[k] = "open" /\ down[k] # <<>> /\ Head(down[k]).type = "helloAck"
        /\ down' = [down EXCEPT ![k] = Tail(@)] /\ self' = k
        /\ UNCHANGED <<socket, ready, alive, shook, seat, crossed, room>>
    BY <1>9 DEF ReceiveAck
  <2>2. ~ Moves(Head(down[k]))
    BY <2>1 DEF Moves
  <2>3. \A j \in Sockets : Joining(j)' = Joining(j)
    <3>1. \A c \in Calls : call[c].kind # "entered"
      BY <1>t DEF TypeOK, CallState, Kinds
    <3>2. \A m \in {[type |-> call[c].kind, c |-> c] : c \in Waiting} : m.type # "entered"
      <4>1. \A c \in Waiting : [type |-> call[c].kind, c |-> c].type # "entered"
        BY <3>1 DEF Waiting
      <4> QED
        BY <4>1
    <3>3. \A j \in Sockets :
            \/ up'[j] = up[j]
            \/ up'[j] = up[j] \cup {[type |-> call[c].kind, c |-> c] : c \in Waiting}
      BY <1>9, <1>t DEF ReceiveAck, Sending, TypeOK
    <3> QED
      BY <3>2, <3>3 DEF Joining
  <2> QED
    BY <1>8, <2>1, <2>2, <2>3
<1>10. ASSUME NEW k \in Sockets, ReceiveAnswer(k) PROVE Faithful'
  <2>1. PICK m : m = Head(down[k])
    OBVIOUS
  <2>2. /\ ready[k] = "open" /\ down[k] # <<>> /\ m.type # "helloAck"
        /\ down' = [down EXCEPT ![k] = Tail(@)]
        /\ self' = IF m.type = "roomJoined" THEN k ELSE self
        /\ room' = CASE m.type = "roomJoined" -> m.r
                     [] m.type = "participantLeft" /\ self = k -> Nil
                     [] OTHER -> room
        /\ UNCHANGED <<socket, ready, alive, shook, seat, crossed, up>>
    BY <1>10, <2>1 DEF ReceiveAnswer
  <2>3. ASSUME Shared(k), m.type = "participantLeft" PROVE self = k
    <3>1. 1 \in DOMAIN down[k] /\ Head(down[k]) = down[k][1] /\ \A j \in DOMAIN down[k] : ~ (j < 1)
      BY <1>t, <2>2 DEF TypeOK
    <3>2. Known(k)
      BY <2>3 DEF Faithful
    <3> QED
      BY <2>1, <2>3, <3>1, <3>2 DEF Known
  <2>4. Shared(k) => room' = IF Moves(m) THEN To(m) ELSE room
    BY <2>2, <2>3 DEF Moves, To
  <2>5. \A j \in Sockets : Joining(j)' = Joining(j)
    BY <2>2 DEF Joining
  <2> QED
    BY <1>8, <2>1, <2>2, <2>4, <2>5
<1>11. ASSUME NEW k \in Sockets, NEW m \in up[k], k \in alive,
              NEW type \in {"helloAck", "roomJoined", "participantLeft", "otherDone", "error"},
              NEW r \in Rooms \cup {Nil}, Reply(k, m, type, r),
              \A j \in Sockets \ {k} : seat'[j] = seat[j],
              \A j \in Sockets \ {k} : j \in crossed' <=> j \in crossed,
              shook' = IF type = "helloAck" THEN shook \cup {k} ELSE shook,
              type = "participantLeft" => k \in shook,
              k \notin crossed' => k \notin crossed,
              k \notin crossed' =>
                seat'[k] = IF type = "roomJoined" THEN r ELSE IF type = "participantLeft" THEN Nil ELSE seat[k],
              type = "roomJoined" => m \in Joining(k),
              k \notin crossed' /\ type # "roomJoined" => m \notin Joining(k),
              k \notin crossed' /\ type = "participantLeft" => Joining(k) = {}
       PROVE  Faithful'
  <2>1. PICK e \in Answer : /\ e = [type |-> type, c |-> m.c, r |-> r]
                            /\ e.type = type /\ e.r = r
    <3>1. m.c \in Calls \cup {Nil}
      BY <1>t DEF TypeOK, Message
    <3>2. [type |-> type, c |-> m.c, r |-> r] \in Answer
      BY <3>1 DEF Answer
    <3>3. [type |-> type, c |-> m.c, r |-> r].type = type /\ [type |-> type, c |-> m.c, r |-> r].r = r
      OBVIOUS
    <3> QED
      BY <3>2, <3>3, Zenon
  <2>2. /\ UNCHANGED <<socket, ready, alive, self, room>>
        /\ \A j \in Sockets :
             down'[j] = IF j = k /\ ready[k] = "open" THEN Append(down[k], e) ELSE down[j]
        /\ \A j \in Sockets : up'[j] = IF j = k THEN up[k] \ {m} ELSE up[j]
    BY <1>11, <1>t, <2>1 DEF Reply, client, TypeOK
  <2>3. \A j \in Sockets : (Sole(j)' => Sole(j)) /\ (Shared(j)' => Shared(j))
    BY <2>2 DEF Sole, Shared
  <2>4. Blank'
    BY <1>11, <2>2, <2>3 DEF Faithful, Blank
  <2>5. ASSUME NEW j \in Sockets, Shared(j)' PROVE Told(j)' /\ Known(j)'
    <3>1. Told(j) /\ Known(j) /\ ready[j] = "open"
      BY <2>3, <2>5 DEF Faithful, Shared
    <3>2. CASE j = k
      <4>1. down'[k] = Append(down[k], e) /\ down[k] \in Seq(Answer)
        BY <1>t, <2>2, <3>1, <3>2 DEF TypeOK
      <4>2. Known(k)'
        BY <1>11, <2>1, <2>2, <3>1, <3>2, <4>1, AppendKnown
      <4>3. ASSUME k \notin crossed'
            PROVE  /\ Joining(k)' = {} => Leads(k)'
                   /\ \A a, b \in Joining(k)' : a = b /\ a.r = seat'[k]
        <5>1. Joining(k)' = Joining(k) \ {m}
          BY <2>2 DEF Joining
        <5>2. /\ Joining(k) = {} => Leads(k)
              /\ \A a, b \in Joining(k) : a = b /\ a.r = seat[k]
          BY <1>11, <3>1, <3>2, <4>3 DEF Told
        <5>3. seat'[k] = IF Moves(e) THEN To(e) ELSE seat[k]
          BY <1>11, <2>1, <4>3 DEF Moves, To
        <5>4. CASE Joining(k) = {}
          <6>1. Leads(k)'
            BY <2>2, <4>1, <5>2, <5>3, <5>4, AppendLeads
          <6> QED
            BY <5>1, <5>4, <6>1
        <5>5. CASE Joining(k) # {} /\ type = "roomJoined" /\ m \in Joining(k)
          <6>1. Moves(e)
            BY <2>1, <5>5 DEF Moves
          <6>2. Leads(k)'
            BY <2>2, <4>1, <5>3, <6>1, AppendLeads
          <6>3. Joining(k)' = {}
            BY <5>1, <5>2, <5>5
          <6> QED
            BY <6>2, <6>3
        <5>6. CASE Joining(k) # {} /\ type \in {"helloAck", "otherDone", "error"} /\ m \notin Joining(k)
          <6>1. Joining(k)' = Joining(k) /\ seat'[k] = seat[k]
            BY <1>11, <4>3, <5>1, <5>6
          <6> QED
            BY <5>2, <5>6, <6>1
        <5> QED
          BY <1>11, <4>3, <5>4, <5>5, <5>6
      <4>4. Told(k)'
        BY <4>3 DEF Told
      <4> QED
        BY <3>2, <4>2, <4>4
    <3>3. CASE j # k
      <4>1. /\ down'[j] = down[j] /\ seat'[j] = seat[j] /\ room' = room /\ self' = self
            /\ j \in shook' <=> j \in shook
            /\ j \in crossed' <=> j \in crossed
            /\ Joining(j)' = Joining(j)
        BY <1>11, <2>2, <3>3 DEF Joining
      <4>2. Leads(j) => Leads(j)'
        BY <4>1 DEF Leads, Still
      <4>3. Told(j)'
        BY <3>1, <4>1, <4>2 DEF Told
      <4>4. Known(j)'
        BY <3>1, <4>1 DEF Known
      <4> QED
        BY <4>3, <4>4
    <3> QED
      BY <3>2, <3>3
  <2> QED
    BY <2>4, <2>5 DEF Faithful
<1>12. ASSUME NEW k \in Sockets, ServeHello(k) PROVE Faithful'
  <2>1. PICK m \in up[k] : /\ k \in alive /\ Reply(k, m, "helloAck", Nil)
                           /\ shook' = shook \cup {k} /\ seat' = seat /\ crossed' = crossed
                           /\ m.type = "hello"
    BY <1>12 DEF ServeHello
  <2>2. m \notin Joining(k)
    BY <2>1 DEF Joining
  <2> QED
    BY <1>11, <2>1, <2>2
<1>13. ASSUME NEW k \in Sockets, NEW c \in Calls, ServeRequest(k, c) PROVE Faithful'
  <2>1. PICK m \in up[k] :
          /\ k \in alive /\ k \in shook /\ shook' = shook
          /\ \/ /\ seat' = [seat EXCEPT ![k] = Nil]
                /\ crossed' = IF Joining(k) # {} THEN crossed \cup {k} ELSE crossed
                /\ Reply(k, m, "participantLeft", seat[k])
             \/ /\ m.type \in Kinds
                /\ Reply(k, m, "error", Nil) /\ seat' = seat /\ crossed' = crossed
    BY <1>13 DEF ServeRequest
  <2>2. seat \in [Sockets -> Rooms \cup {Nil}]
    BY <1>t DEF TypeOK
  <2>4. CASE /\ seat' = [seat EXCEPT ![k] = Nil] /\ Reply(k, m, "participantLeft", seat[k])
             /\ crossed' = IF Joining(k) # {} THEN crossed \cup {k} ELSE crossed
    <3>1. PICK r \in Rooms \cup {Nil} : r = seat[k]
      BY <2>2
    <3>2. k \notin crossed' => k \notin crossed /\ Joining(k) = {} /\ seat'[k] = Nil
      BY <2>2, <2>4
    <3> QED
      BY <1>11, <2>1, <2>2, <2>4, <3>1, <3>2
  <2>6. CASE m.type \in Kinds /\ Reply(k, m, "error", Nil) /\ seat' = seat /\ crossed' = crossed
    <3>1. m \notin Joining(k)
      BY <2>6 DEF Joining, Kinds
    <3> QED
      BY <1>11, <2>1, <2>6, <3>1
  <2> QED
    BY <2>1, <2>4, <2>6
<1>16. ASSUME NEW k \in Sockets, NEW c \in Calls, CarryOut(k, c) PROVE Faithful'
  <2>1. PICK m \in up[k], r \in Rooms, n \in Message :
          /\ up' = [up EXCEPT ![k] = (@ \ {m}) \cup {n}]
          /\ m.type # "entered" /\ k \in alive
          /\ \/ seat[k] = Nil /\ n.type = "entered" /\ n.r = r
             \/ seat[k] = r /\ n.type # "entered"
          /\ seat' = [seat EXCEPT ![k] = r]
    <3>1. \A r \in Rooms : /\ [type |-> "entered", c |-> c, r |-> r].r = r
                           /\ [type |-> "entered", c |-> c, r |-> r].type = "entered"
                           /\ [type |-> "carriedOut", c |-> c, r |-> r].type # "entered"
      OBVIOUS
    <3> QED
      BY <1>16, <3>1, HandlersAreMessages DEF CarryOut
  <2>2. UNCHANGED <<client, ready, down, alive, shook, crossed>>
    BY <1>16 DEF CarryOut
  <2>3. UNCHANGED <<socket, self, room>>
    BY <2>2 DEF client
  <2>4. /\ \A j \in Sockets : up'[j] = IF j = k THEN (up[k] \ {m}) \cup {n} ELSE up[j]
        /\ \A j \in Sockets : seat'[j] = IF j = k THEN r ELSE seat[j]
    BY <1>t, <2>1 DEF TypeOK
  <2>5. \A j \in Sockets : (Sole(j)' => Sole(j)) /\ (Shared(j)' => Shared(j))
    BY <2>2, <2>3 DEF Sole, Shared
  <2>6. Blank'
    BY <2>1, <2>2, <2>3, <2>4, <2>5 DEF Faithful, Blank
  <2>7. ASSUME NEW j \in Sockets, Shared(j)' PROVE Told(j)' /\ Known(j)'
    <3>1. Told(j) /\ Known(j)
      BY <2>5, <2>7 DEF Faithful
    <3>2. Known(j)'
      BY <2>2, <2>3, <3>1 DEF Known
    <3>3. CASE seat'[j] = seat[j] /\ Joining(j)' = Joining(j)
      <4>1. Leads(j) => Leads(j)'
        BY <2>2, <2>3, <3>3 DEF Leads, Still
      <4>2. Told(j)'
        BY <2>2, <3>1, <3>3, <4>1 DEF Told
      <4> QED
        BY <3>2, <4>2
    <3>4. CASE ~ (seat'[j] = seat[j] /\ Joining(j)' = Joining(j))
      <4>1. j = k /\ seat[k] = Nil /\ n.type = "entered" /\ n.r = r
        BY <2>1, <2>4, <3>4 DEF Joining
      <4>2. k \notin crossed => Joining(k) = {}
        <5>1. ASSUME NEW a \in Joining(k) PROVE a.r # seat[k]
          <6>1. a.r \in Rooms
            BY <1>t, <5>1, JoiningRoom DEF Joining
          <6> QED
            BY <4>1, <6>1, NilAssumption
        <5> QED
          BY <3>1, <4>1, <5>1 DEF Told
      <4>3. k \notin crossed => Joining(k)' = {n}
        BY <2>4, <4>1, <4>2 DEF Joining
      <4>4. Told(k)'
        BY <2>2, <2>4, <4>1, <4>3 DEF Told
      <4> QED
        BY <3>2, <4>1, <4>4
    <3> QED
      BY <3>3, <3>4
  <2> QED
    BY <2>6, <2>7 DEF Faithful
<1>18. ASSUME NEW k \in Sockets, NEW c \in Calls, buildRoomJoinedPayload(k, c) PROVE Faithful'
  <2>1. PICK m \in Joining(k) :
          /\ k \in alive
          /\ Reply(k, m, "roomJoined", m.r) \/ (seat[k] # m.r /\ Reply(k, m, "error", Nil))
          /\ UNCHANGED <<shook, seat, crossed>>
    BY <1>18 DEF buildRoomJoinedPayload
  <2>2. m \in up[k] /\ m.type = "entered"
    BY DEF Joining
  <2>3. PICK r \in Rooms : r = m.r
    BY <1>t, <2>2, JoiningRoom
  <2>4. Shared(k) /\ k \notin crossed => seat[k] = r
    BY <2>1, <2>3 DEF Faithful, Told
  <2>5. CASE Shared(k)
    <3>1. k \notin crossed => seat[k] = r
      BY <2>4, <2>5
    <3>s. seat' = seat /\ shook' = shook /\ crossed' = crossed /\ k \in alive /\ m \in up[k]
      BY <2>1, <2>2
    <3>2. CASE Reply(k, m, "roomJoined", r)
      BY <1>11, <3>s, <3>1, <3>2
    <3>3. CASE seat[k] # r /\ Reply(k, m, "error", Nil)
      <4>1. k \in crossed'
        BY <3>s, <3>1, <3>3
      <4> QED
        BY <1>11, <3>s, <3>3, <4>1
    <3> QED
      BY <2>1, <2>3, <3>2, <3>3
  <2>6. CASE ~ Shared(k)
    <3>1. /\ UNCHANGED <<socket, ready, alive, self, room, shook, seat, crossed>>
          /\ \A j \in Sockets \ {k} : down'[j] = down[j] /\ up'[j] = up[j]
          /\ ready[k] # "open" => down'[k] = down[k]
      BY <1>t, <2>1 DEF Reply, client, TypeOK
    <3>2. \A j \in Sockets : (Sole(j)' => Sole(j)) /\ (Shared(j)' => Shared(j) /\ j # k)
      BY <2>6, <3>1 DEF Sole, Shared
    <3>3. Blank'
      BY <3>1, <3>2 DEF Faithful, Blank
    <3>4. ASSUME NEW j \in Sockets, Shared(j)' PROVE Told(j)' /\ Known(j)'
      <4>1. Told(j) /\ Known(j) /\ j # k
        BY <3>2, <3>4 DEF Faithful
      <4>2. Joining(j)' = Joining(j) /\ (Leads(j) => Leads(j)')
        BY <3>1, <4>1 DEF Joining, Leads, Still
      <4>3. Told(j)'
        BY <3>1, <4>1, <4>2 DEF Told
      <4>4. Known(j)'
        BY <3>1, <4>1 DEF Known
      <4> QED
        BY <4>3, <4>4
    <3> QED
      BY <3>3, <3>4 DEF Faithful
  <2> QED
    BY <2>5, <2>6
<1>17. ASSUME NEW k \in Sockets, NEW c \in Calls, broadcastToRoom(k, c) PROVE Faithful'
  <2>1. PICK m \in up[k] :
          /\ k \in alive /\ seat' = seat /\ shook' = shook /\ crossed' = crossed
          /\ m.type = "carriedOut"
          /\ \/ Reply(k, m, "otherDone", Nil)
             \/ /\ up' = [up EXCEPT ![k] = @ \ {m}]
                /\ UNCHANGED <<socket, self, room, ready, down, alive>>
    BY <1>17 DEF broadcastToRoom
  <2>2. CASE Reply(k, m, "otherDone", Nil)
    <3>1. m \notin Joining(k)
      BY <2>1 DEF Joining
    <3> QED
      BY <1>11, <2>1, <2>2, <3>1
  <2>3. CASE /\ up' = [up EXCEPT ![k] = @ \ {m}]
             /\ UNCHANGED <<socket, self, room, ready, down, alive>>
    <3>1. \A j \in Sockets : Joining(j)' = Joining(j)
      BY <1>t, <2>1, <2>3 DEF Joining, TypeOK
    <3> QED
      BY <1>q, <2>1, <2>3, <3>1
  <2> QED
    BY <2>1, <2>2, <2>3
<1>14. ASSUME NEW k \in Sockets, ServerClose(k) PROVE Faithful'
  <2>1. /\ UNCHANGED <<socket, ready, down, self, room>>
        /\ alive' = alive \ {k} /\ shook' = shook \ {k} /\ crossed' = crossed \ {k}
        /\ \A j \in Sockets : seat'[j] = IF j = k THEN Nil ELSE seat[j]
        /\ \A j \in Sockets : j # k => up'[j] = up[j]
    BY <1>14, <1>t DEF ServerClose, client, TypeOK
  <2>2. \A j \in Sockets : Sole(j)' => Sole(j)
    BY <2>1 DEF Sole
  <2>3. Blank'
    BY <2>1, <2>2 DEF Faithful, Blank
  <2>4. ASSUME NEW j \in Sockets, Shared(j)' PROVE Told(j)' /\ Known(j)'
    <3>1. j # k /\ Shared(j)
      BY <2>1, <2>2, <2>4 DEF Shared
    <3>2. Told(j) /\ Known(j) /\ seat'[j] = seat[j] /\ (j \in shook' <=> j \in shook)
      BY <2>1, <3>1 DEF Faithful
    <3>3. Joining(j)' = Joining(j) /\ (Leads(j) => Leads(j)')
      BY <2>1, <3>1, <3>2 DEF Joining, Leads, Still
    <3>4. Told(j)'
      BY <2>1, <3>1, <3>2, <3>3 DEF Told
    <3>5. Known(j)'
      BY <2>1, <3>2 DEF Known
    <3> QED
      BY <3>4, <3>5
  <2> QED
    BY <2>3, <2>4 DEF Faithful
<1>15. CASE UNCHANGED vars
  BY <1>15, <1>q DEF vars, client, network, Joining
<1> QED
  BY <1>1, <1>2, <1>3, <1>4, <1>5, <1>6, <1>7, <1>9, <1>10, <1>12, <1>13, <1>14, <1>15, <1>16, <1>17, <1>18 DEF Next

\* However connections are lost and replaced, and however late their close events
\* come: when the client has one connection left, the room it shows is the one of
\* its session as soon as it has handled what the server has sent and no join_room
\* waits for its answer.  Only a leave_room that overtakes a join_room breaks this.
THEOREM SoleConnectionIsTold == Spec => []RoomTold
<1>1. Init => Faithful
  <2> SUFFICES ASSUME Init PROVE Faithful
    OBVIOUS
  <2>1. \A k \in Sockets : ready[k] = "none" /\ down[k] = <<>> /\ seat[k] = Nil /\ shook = {}
    BY DEF Init
  <2> QED
    BY <2>1 DEF Faithful, Blank, Shared
<1>2. Faithful => RoomTold
  BY DEF Faithful, RoomTold, Told, Leads
<1> QED
  BY <1>1, <1>2, NextFaithful, InvAlways, PTL DEF Spec
=============================================================================
