----------------------------- MODULE RoomServer -----------------------------
(***************************************************************************)
(* The WebSocket server (index.ts, ws-handlers.ts, ws-messaging.ts) running *)
(* the operations of the room manager (room-manager.ts).                   *)
(*                                                                         *)
(* A handler is an async function.  Between two of its Redis commands it   *)
(* is suspended and any other handler, a new request or a closing socket   *)
(* may run, so each action below is one Redis command together with the    *)
(* synchronous code up to the handler's next one.  flight holds the        *)
(* handlers that wait for a reply.                                         *)
(*                                                                         *)
(* A socket delivers its events in the order they are sent and no request  *)
(* depends on what the client has seen, so an event is applied to the      *)
(* client's view when it is sent: view[s] is what the client of session s  *)
(* shows once everything sent to it has arrived.                           *)
(***************************************************************************)
EXTENDS RoomKeys, Sequences, SequencesExt

CONSTANTS
  Workload,     \* what clients do: a subset of Requests, "close" and "stop"
  MaxLost,      \* bound on sessions that a stop leaves in their rooms
  MaxInFlight,  \* bound on handlers running at once; 1: none overlap
  Fifo          \* TRUE: each reply reaches its handler alone, in command order
                \* FALSE: handlers proceed in any order

Requests == {"create", "join", "leave", "rename", "take", "settings", "params", "avatar"}

ASSUME WorkloadAssumption    == Workload \subseteq Requests \cup {"close", "stop"}
ASSUME MaxLostAssumption     == MaxLost \in Nat
ASSUME MaxInFlightAssumption == MaxInFlight \in Nat \ {0}
ASSUME FifoAssumption        == Fifo \in BOOLEAN

VARIABLES
  open,     \* registry.sessionSockets: the sessions with an open socket
  wsRoom,   \* wsRoom[s]: ws.data.roomCode of the socket of session s
  wsName,   \* wsName[s]: ws.data.displayName
  flight,   \* the suspended handlers
  view      \* view[s]: the room as the client of session s shows it

sockets == <<open, wsRoom, wsName>>
vars    == <<keys, sockets, flight, view>>

INSTANCE ClientView

ASSUME MessageAssumption == Nil \notin Message

Pcs == {"EnsureNotInRoom", "PickCode", "CommitCreate", "ReadRoom", "ReadHolder",
        "CommitJoin", "SnapRoom", "SnapOrder", "SnapParticipants", "SnapState",
        "RequireSession", "ReadParticipant", "ReadOrder", "ReadKeys",
        "ReadNewOwner", "CommitLeave", "CommitRename", "ReadAvatar", "CommitOwner",
        "CommitSettings", "CommitState", "CommitSessionAvatar",
        "CommitParticipantAvatar", "CommitOwnerAvatar", "Broadcast"}

\* A suspended handler: its request, where it waits, and its local variables.
Handler ==
  [op   : Requests \cup {"disconnect"}, s : Sessions, pc : Pcs,
   c    : Codes \cup {Nil},      \* roomCode
   n    : Names \cup {Nil},      \* displayName of the request
   old  : Names \cup {Nil},      \* displayName of the participant that was read
   a    : Avatars \cup {Nil},    \* an avatar id, of the request or read
   b    : BOOLEAN,               \* instantOwnerTakeoverEnabled of the request
   m    : Room,                  \* roomMeta
   q    : [Sessions -> Nat],     \* ordered
   p    : [Sessions -> Participant \cup {Nil}], \* participants of the snapshot
   o    : Sessions \cup {Nil},   \* nextOwner
   np   : Participant \cup {Nil}, \* newOwnerParticipant
   out  : Message \cup {Nil},    \* the event being broadcast
   then : Message \cup {Nil}]    \* the event to broadcast after it

Started(op, s, pc) ==
  [op |-> op, s |-> s, pc |-> pc, c |-> Nil, n |-> Nil, old |-> Nil, a |-> Nil,
   b |-> DefaultTakeover, m |-> NoRoom, q |-> NoOrder, p |-> NoParts, o |-> Nil,
   np |-> Nil, out |-> Nil, then |-> Nil]

\* Where a handler's local variables have been given values.
Located == Pcs \ {"EnsureNotInRoom", "PickCode", "RequireSession"}
Naming  == {"CommitLeave", "ReadOrder", "ReadKeys", "ReadNewOwner", "CommitRename",
            "CommitParticipantAvatar"}

\* A handler whose local variables are defined where its next steps use them.
HandlerOK(h) ==
  /\ h \in Handler
  /\ h.pc \in Located \/ h.op = "join" => h.c # Nil
  /\ h.op \in {"create", "join", "rename"} /\ h.pc # "Broadcast" => h.n # Nil
  /\ h.pc \in Naming => h.old # Nil
  /\ h.op \in {"leave", "disconnect"} /\ h.pc = "ReadRoom" => h.old # Nil
  /\ h.pc = "ReadNewOwner" => h.o # Nil
  /\ h.pc = "Broadcast" => h.out # Nil
  /\ h.out # Nil /\ h.out.type \in {"joined", "name"} => h.out.n # Nil
  /\ h.out # Nil /\ h.out.type = "left" => h.out.x = h.out.s
  /\ h.then # Nil => h.then.type = "owner"

FlightOK == flight \in Seq(Handler) /\ \A k \in DOMAIN flight : HandlerOK(flight[k])

TypeOK ==
  /\ KeysTypeOK
  /\ open \subseteq Sessions
  /\ wsRoom \in [Sessions -> Codes \cup {Nil}]
  /\ wsName \in [Sessions -> Names \cup {Nil}]
  /\ \A s \in open : wsName[s] # Nil
  /\ FlightOK
  /\ view \in [Sessions -> View]

Init ==
  /\ NoKeys
  /\ open = {}
  /\ wsRoom = [s \in Sessions |-> Nil]
  /\ wsName = [s \in Sessions |-> Nil]
  /\ flight = <<>>
  /\ view = [s \in Sessions |-> NoView]

Quiet == flight = <<>>

-----------------------------------------------------------------------------
(* Starting and suspending handlers.                                       *)

Start(h) ==
  /\ Len(flight) < MaxInFlight
  /\ flight' = Append(flight, h)

\* Handler k, back from its command, issues the next one and waits as h.
Wait(k, h) ==
  flight' = IF Fifo THEN Append(Tail(flight), h) ELSE [flight EXCEPT ![k] = h]

Return(k) == flight' = RemoveAt(flight, k)

RefusedOffByOne(h) ==
  \/ h.pc = "EnsureNotInRoom" /\ sess[h.s].room # Nil
  \/ h.pc = "RequireSession"  /\ sess[h.s].room = Nil
  \/ h.pc \in {"ReadRoom", "SnapRoom"} /\ h.op \in {"join", "take", "settings", "params"}
       /\ ~ meta[h.c].code
  \/ h.pc = "ReadRoom" /\ h.op = "join" /\ meta[h.c].count > RoomMax
  \/ h.pc = "ReadRoom" /\ h.op = "take" /\ ~ meta[h.c].takeover
  \/ h.pc = "ReadRoom" /\ h.op = "settings" /\ meta[h.c].owner # h.s
  \/ h.pc = "ReadHolder" /\ h.op = "join" /\ names[h.c][LowerCase[h.n]] # Nil
  \/ h.pc = "ReadHolder" /\ h.op = "rename" /\ names[h.c][LowerCase[h.n]] \notin {Nil, h.s}
  \/ h.pc = "ReadParticipant" /\ h.op # "avatar" /\ parts[h.c][h.s] = Nil
  \/ h.pc = "ReadKeys" /\ \A r \in Present(h.c) \ {h.s} : h.q[r] = 0

\* The request of handler h fails at the command it waits for: the domain
\* errors of room-manager.ts, one disjunct per throw.
Refused(h) ==
  \/ h.pc = "EnsureNotInRoom" /\ sess[h.s].room # Nil
  \/ h.pc = "RequireSession"  /\ sess[h.s].room = Nil
  \/ h.pc \in {"ReadRoom", "SnapRoom"} /\ h.op \in {"join", "take", "settings", "params"}
       /\ ~ meta[h.c].code
  \/ h.pc = "ReadRoom" /\ h.op = "join" /\ meta[h.c].count >= RoomMax
  \/ h.pc = "ReadRoom" /\ h.op = "take" /\ ~ meta[h.c].takeover
  \/ h.pc = "ReadRoom" /\ h.op = "settings" /\ meta[h.c].owner # h.s
  \/ h.pc = "ReadHolder" /\ h.op = "join" /\ names[h.c][LowerCase[h.n]] # Nil
  \/ h.pc = "ReadHolder" /\ h.op = "rename" /\ names[h.c][LowerCase[h.n]] \notin {Nil, h.s}
  \/ h.pc = "ReadParticipant" /\ h.op # "avatar" /\ parts[h.c][h.s] = Nil
  \/ h.pc = "ReadKeys" /\ \A r \in Present(h.c) \ {h.s} : h.q[r] = 0

\* Handler k may proceed from pc, in a request of one of the kinds ops.
At(k, ops, pc) ==
  /\ k \in DOMAIN flight
  /\ Fifo => k = 1
  /\ flight[k].op \in ops
  /\ flight[k].pc = pc
  /\ ~ Refused(flight[k])

\* handleDomainError: the client is told of the error; nothing else changes.
Refuse(k) ==
  /\ k \in DOMAIN flight
  /\ Fifo => k = 1
  /\ Refused(flight[k])
  /\ Return(k)
  /\ UNCHANGED <<keys, sockets, view>>

\* An event about session s in room c that the session x is not sent.
Event(type, c, s, x) ==
  [type |-> type, c |-> c, s |-> s, n |-> Nil, a |-> Nil, b |-> DefaultTakeover, x |-> x]

\* handleMessage of one client, for an event sent on its socket.
Deliver(s, v) == view' = [view EXCEPT ![s] = IF s \in open THEN v ELSE @]

-----------------------------------------------------------------------------
(* Sockets: hello, requests and close.                                     *)

\* A session id no key, handler or socket mentions: crypto.randomUUID() never
\* returns one that is in use, and the identity of an unused one is immaterial.
Unused(s) ==
  /\ s \notin open
  /\ sess[s] = NoSession
  /\ \A c \in Codes : /\ parts[c][s] = Nil
                      /\ order[c][s] = 0
                      /\ meta[c].owner # s
                      /\ state[c] # s
                      /\ \A k \in Names : names[c][k] # s
  /\ \A k \in DOMAIN flight : flight[k].s # s /\ flight[k].o # s
  /\ \A t \in Sessions : view[t].list[s] = Nil /\ view[t].owner # s

\* A room code generateRoomCode may return: no room has it, and no leftover of
\* a former room either (36^16 codes make a second draw of one immaterial).
Fresh(c) ==
  /\ meta[c] = NoRoom
  /\ Present(c) = {}
  /\ state[c] = Nil
  /\ \A s \in Sessions : order[c][s] = 0 /\ sess[s].room # c /\ view[s].room # c
                         /\ (s \in open => wsRoom[s] # c)
  /\ \A k \in Names : names[c][k] = Nil
  /\ \A k \in DOMAIN flight : flight[k].c # c

handleHello(s, n) ==
  /\ Unused(s)
  /\ open' = open \cup {s}
  /\ wsRoom' = [wsRoom EXCEPT ![s] = Nil]
  /\ wsName' = [wsName EXCEPT ![s] = n]
  /\ UNCHANGED <<keys, flight, view>>

Request(s, op, h) ==
  /\ s \in open
  /\ op \in Workload
  /\ Start(h)
  /\ UNCHANGED <<keys, sockets, view>>

\* Codes bounds the rooms: clients ask for one only while a code is left for it.
RequestCreate(s) ==
  /\ LET picking == {k \in DOMAIN flight : flight[k].pc \in {"EnsureNotInRoom", "PickCode"}}
     IN Cardinality(picking) < Cardinality({c \in Codes : Fresh(c)})
  /\ \E b \in IF "settings" \in Workload THEN BOOLEAN ELSE {DefaultTakeover} :
       Request(s, "create", [Started("create", s, "EnsureNotInRoom") EXCEPT !.n = wsName[s], !.b = b])

RequestJoin(s) ==
  \E c \in Codes :
    Request(s, "join", [Started("join", s, "EnsureNotInRoom") EXCEPT !.n = wsName[s], !.c = c])

RequestRename(s) ==
  \E n \in Names : Request(s, "rename", [Started("rename", s, "RequireSession") EXCEPT !.n = n])

RequestSettings(s) ==
  \E b \in BOOLEAN : Request(s, "settings", [Started("settings", s, "RequireSession") EXCEPT !.b = b])

RequestAvatar(s) ==
  \E a \in Avatars : Request(s, "avatar", [Started("avatar", s, "RequireSession") EXCEPT !.a = a])

RequestPlain(s) ==
  \E op \in {"leave", "take", "params"} : Request(s, op, Started(op, s, "RequireSession"))

CloseLeavingSeat(s) ==
  /\ s \in open
  /\ "close" \in Workload
  /\ Len(flight) < MaxInFlight
  /\ open' = open \ {s}
  /\ view' = [view EXCEPT ![s] = NoView]
  /\ UNCHANGED <<flight, keys, wsRoom, wsName>>

\* The close callback and handleDisconnect: a socket that is in a room, as far
\* as ws.data knows, leaves it.  The client forgets the room (handleSocketClose).
Close(s) ==
  /\ s \in open
  /\ "close" \in Workload
  /\ open' = open \ {s}
  /\ view' = [view EXCEPT ![s] = NoView]
  /\ IF wsRoom[s] = Nil THEN Len(flight) < MaxInFlight /\ UNCHANGED flight
                        ELSE Start(Started("disconnect", s, "RequireSession"))
  /\ UNCHANGED <<keys, wsRoom, wsName>>

\* The server stops, whatever its handlers wait for, and starts again: Redis
\* keeps the keys, nothing else is left.
Stop ==
  /\ "stop" \in Workload
  /\ open # {}
  /\ Cardinality(open \cup {s \in Sessions : sess[s].room # Nil}) <= MaxLost
  /\ open' = {}
  /\ wsRoom' = [s \in Sessions |-> Nil] /\ wsName' = [s \in Sessions |-> Nil]
  /\ flight' = <<>>
  /\ view' = [s \in Sessions |-> NoView]
  /\ UNCHANGED keys

-----------------------------------------------------------------------------
(* createRoom, joinRoom.                                                   *)

EnsureNotInRoom(k) ==
  /\ At(k, {"create", "join"}, "EnsureNotInRoom")
  /\ LET h == flight[k]
     IN Wait(k, [h EXCEPT !.pc = IF h.op = "create" THEN "PickCode" ELSE "ReadRoom"])
  /\ UNCHANGED <<keys, sockets, view>>

PickCode(k) ==
  /\ At(k, {"create"}, "PickCode")
  /\ \E c \in Codes : Fresh(c) /\ Wait(k, [flight[k] EXCEPT !.pc = "CommitCreate", !.c = c])
  /\ UNCHANGED <<keys, sockets, view>>

CommitCreate(k) ==
  /\ At(k, {"create"}, "CommitCreate")
  /\ LET h == flight[k]
     IN /\ AddRoom(h.s, h.n, h.c, h.b)
        /\ wsRoom' = [wsRoom EXCEPT ![h.s] = h.c]
        /\ Deliver(h.s, applyRoomJoined(h.c, h.s,
             [NoParts EXCEPT ![h.s] = [name |-> h.n, avatar |-> Nil]], h.b, Nil))
  /\ Return(k)
  /\ UNCHANGED <<open, wsName>>

JoinReadRoom(k) ==
  /\ At(k, {"join"}, "ReadRoom")
  /\ Wait(k, [flight[k] EXCEPT !.pc = "ReadHolder", !.m.count = meta[flight[k].c].count])
  /\ UNCHANGED <<keys, sockets, view>>

JoinReadHolder(k) ==
  /\ At(k, {"join"}, "ReadHolder")
  /\ Wait(k, [flight[k] EXCEPT !.pc = "CommitJoin"])
  /\ UNCHANGED <<keys, sockets, view>>

CommitJoin(k) ==
  /\ At(k, {"join"}, "CommitJoin")
  /\ LET h == flight[k]
     IN /\ AddParticipant(h.s, h.n, h.c, h.m.count)
        /\ Wait(k, [h EXCEPT !.pc = "SnapRoom", !.m = NoRoom])
  /\ UNCHANGED <<sockets, view>>

\* buildRoomJoinedPayload: four reads, one after the other.
SnapRoom(k) ==
  /\ At(k, {"join"}, "SnapRoom")
  /\ Wait(k, [flight[k] EXCEPT !.pc = "SnapOrder", !.m = meta[flight[k].c]])
  /\ UNCHANGED <<keys, sockets, view>>

SnapOrder(k) ==
  /\ At(k, {"join"}, "SnapOrder")
  /\ Wait(k, [flight[k] EXCEPT !.pc = "SnapParticipants", !.q = order[flight[k].c]])
  /\ UNCHANGED <<keys, sockets, view>>

SnapParticipants(k) ==
  /\ At(k, {"join"}, "SnapParticipants")
  /\ LET h == flight[k]
     IN Wait(k, [h EXCEPT !.pc = "SnapState", !.q = NoOrder,
                   !.p = [s \in Sessions |-> IF h.q[s] = 0 THEN Nil ELSE parts[h.c][s]]])
  /\ UNCHANGED <<keys, sockets, view>>

\* The last read, then handleJoinRoom: the socket is in the room, the client
\* is sent room_joined and the others, if the snapshot has the joiner, are
\* about to be sent participant_joined.
SnapState(k) ==
  /\ At(k, {"join"}, "SnapState")
  /\ LET h == flight[k]
     IN /\ wsRoom' = [wsRoom EXCEPT ![h.s] = h.c]
        /\ Deliver(h.s, applyRoomJoined(h.c, h.m.owner, h.p, h.m.takeover, h.m.avatar))
        /\ IF h.p[h.s] = Nil THEN Return(k)
           ELSE Wait(k, [Started(h.op, h.s, "Broadcast") EXCEPT !.c = h.c,
                  !.out = [Event("joined", h.c, h.s, h.s)
                             EXCEPT !.n = h.p[h.s].name, !.a = h.p[h.s].avatar]])
  /\ UNCHANGED <<keys, open, wsName>>

-----------------------------------------------------------------------------
(* leaveRoom, for a leave request and for a closed socket.                  *)

\* requireSession, the first command of every operation on the current room.
RequireSession(k) ==
  /\ At(k, {"leave", "disconnect", "rename", "take", "settings", "params", "avatar"}, "RequireSession")
  /\ LET h == flight[k]
     IN Wait(k, [h EXCEPT !.c = sess[h.s].room,
                          !.pc = CASE h.op \in {"leave", "disconnect"} -> "ReadParticipant"
                                   [] h.op = "rename" -> "ReadHolder"
                                   [] h.op = "avatar" -> "CommitSessionAvatar"
                                   [] OTHER           -> "ReadRoom"])
  /\ UNCHANGED <<keys, sockets, view>>

Leaving == {"leave", "disconnect"}

LeaveReadParticipantUnread(k) ==
  /\ At(k, Leaving, "ReadParticipant")
  /\ Wait(k, [flight[k] EXCEPT !.pc = "ReadRoom"])
  /\ UNCHANGED <<keys, sockets, view>>

LeaveReadParticipant(k) ==
  /\ At(k, Leaving, "ReadParticipant")
  /\ LET h == flight[k]
     IN Wait(k, [h EXCEPT !.pc = "ReadRoom", !.old = parts[h.c][h.s].name])
  /\ UNCHANGED <<keys, sockets, view>>

\* m.count becomes the number of participants left behind; 0 deletes the room.
LeaveReadRoom(k) ==
  /\ At(k, Leaving, "ReadRoom")
  /\ LET h    == flight[k]
         left == Plus(meta[h.c].count, -1)
         owns == left # 0 /\ meta[h.c].owner = h.s
     IN Wait(k, [h EXCEPT !.pc = IF owns THEN "ReadOrder" ELSE "CommitLeave", !.m.count = left])
  /\ UNCHANGED <<keys, sockets, view>>

LeaveReadOrder(k) ==
  /\ At(k, Leaving, "ReadOrder")
  /\ Wait(k, [flight[k] EXCEPT !.pc = "ReadKeys", !.q = order[flight[k].c]])
  /\ UNCHANGED <<keys, sockets, view>>

LeaveReadKeysNewest(k) ==
  /\ At(k, Leaving, "ReadKeys")
  /\ LET h    == flight[k]
         rest == {r \in Present(h.c) \ {h.s} : h.q[r] # 0}
     IN \E o \in rest : /\ \A r \in rest : h.q[r] <= h.q[o]
                        /\ Wait(k, [h EXCEPT !.pc = "ReadNewOwner", !.q = NoOrder, !.o = o])
  /\ UNCHANGED <<keys, sockets, view>>

\* The first of the join order that is still a participant.  Redis orders
\* equal scores by session id; the model lets either of them come first.
LeaveReadKeys(k) ==
  /\ At(k, Leaving, "ReadKeys")
  /\ LET h    == flight[k]
         rest == {r \in Present(h.c) \ {h.s} : h.q[r] # 0}
     IN \E o \in rest : /\ \A r \in rest : h.q[o] <= h.q[r]
                        /\ Wait(k, [h EXCEPT !.pc = "ReadNewOwner", !.q = NoOrder, !.o = o])
  /\ UNCHANGED <<keys, sockets, view>>

LeaveReadNewOwner(k) ==
  /\ At(k, Leaving, "ReadNewOwner")
  /\ LET h == flight[k]
     IN Wait(k, [h EXCEPT !.pc = "CommitLeave", !.np = parts[h.c][h.o]])
  /\ UNCHANGED <<keys, sockets, view>>

CommitLeaveSilently(k) ==
  /\ At(k, Leaving, "CommitLeave")
  /\ LET h == flight[k]
     IN /\ IF h.m.count = 0 THEN DeleteRoom(h.s, h.old, h.c)
           ELSE RemoveParticipant(h.s, h.old, h.c, h.m.count, h.o, h.np)
        /\ IF h.op = "leave" THEN /\ wsRoom' = [wsRoom EXCEPT ![h.s] = Nil]
                                  /\ Deliver(h.s, NoView)
                             ELSE UNCHANGED <<wsRoom, view>>
        /\ Wait(k, [Started(h.op, h.s, "Broadcast") EXCEPT !.c = h.c,
                      !.out = Event("left", h.c, h.s, h.s)])
  /\ UNCHANGED <<open, wsName>>

CommitLeaveKeepingRoom(k) ==
  /\ At(k, Leaving, "CommitLeave")
  /\ LET h == flight[k]
     IN /\ IF h.m.count = 0 THEN DeleteRoom(h.s, h.old, h.c)
           ELSE RemoveParticipant(h.s, h.old, h.c, h.m.count, h.o, h.np)
        /\ IF h.op = "leave" THEN Deliver(h.s, NoView) ELSE UNCHANGED view
        /\ Wait(k, [Started(h.op, h.s, "Broadcast") EXCEPT !.c = h.c,
                      !.out = Event("left", h.c, h.s, h.s),
                      !.then = IF h.o = Nil THEN Nil ELSE Event("owner", h.c, h.o, Nil)])
  /\ UNCHANGED <<open, wsRoom, wsName>>

\* The MULTI block, then handleLeaveRoom or handleDisconnect: only a leave
\* request is answered, and clears ws.data.roomCode.
CommitLeave(k) ==
  /\ At(k, Leaving, "CommitLeave")
  /\ LET h == flight[k]
     IN /\ IF h.m.count = 0 THEN DeleteRoom(h.s, h.old, h.c)
           ELSE RemoveParticipant(h.s, h.old, h.c, h.m.count, h.o, h.np)
        /\ IF h.op = "leave" THEN /\ wsRoom' = [wsRoom EXCEPT ![h.s] = Nil]
                                  /\ Deliver(h.s, NoView)
                             ELSE UNCHANGED <<wsRoom, view>>
        /\ Wait(k, [Started(h.op, h.s, "Broadcast") EXCEPT !.c = h.c,
                      !.out = Event("left", h.c, h.s, h.s),
                      !.then = IF h.o = Nil THEN Nil ELSE Event("owner", h.c, h.o, Nil)])
  /\ UNCHANGED <<open, wsName>>

-----------------------------------------------------------------------------
(* updateDisplayName, takeOwner, updateRoomSettings, handleParamBatch.     *)

RenameReadHolder(k) ==
  /\ At(k, {"rename"}, "ReadHolder")
  /\ Wait(k, [flight[k] EXCEPT !.pc = "ReadParticipant"])
  /\ UNCHANGED <<keys, sockets, view>>

RenameReadParticipant(k) ==
  /\ At(k, {"rename"}, "ReadParticipant")
  /\ LET h == flight[k]
         p == parts[h.c][h.s]
     IN Wait(k, [h EXCEPT !.pc = "CommitRename", !.old = p.name, !.a = p.avatar])
  /\ UNCHANGED <<keys, sockets, view>>

CommitRename(k) ==
  /\ At(k, {"rename"}, "CommitRename")
  /\ LET h == flight[k]
     IN /\ WriteName(h.s, h.old, h.n, h.c, h.a)
        /\ wsName' = [wsName EXCEPT ![h.s] = h.n]
        /\ Wait(k, [Started(h.op, h.s, "Broadcast") EXCEPT !.c = h.c,
                      !.out = [Event("name", h.c, h.s, Nil) EXCEPT !.n = h.n]])
  /\ UNCHANGED <<open, wsRoom, view>>

TakeReadRoom(k) ==
  /\ At(k, {"take"}, "ReadRoom")
  /\ Wait(k, [flight[k] EXCEPT !.pc = "ReadAvatar"])
  /\ UNCHANGED <<keys, sockets, view>>

TakeReadAvatar(k) ==
  /\ At(k, {"take"}, "ReadAvatar")
  /\ LET h == flight[k]
     IN Wait(k, [h EXCEPT !.pc = "CommitOwner", !.a = sess[h.s].avatar])
  /\ UNCHANGED <<keys, sockets, view>>

CommitOwner(k) ==
  /\ At(k, {"take"}, "CommitOwner")
  /\ LET h == flight[k]
     IN /\ WriteOwner(h.s, h.c, h.a)
        /\ Wait(k, [Started(h.op, h.s, "Broadcast") EXCEPT !.c = h.c,
                      !.out = Event("owner", h.c, h.s, Nil)])
  /\ UNCHANGED <<sockets, view>>

SettingsReadRoom(k) ==
  /\ At(k, {"settings"}, "ReadRoom")
  /\ Wait(k, [flight[k] EXCEPT !.pc = "CommitSettings"])
  /\ UNCHANGED <<keys, sockets, view>>

CommitSettingsAnnouncingOld(k) ==
  /\ At(k, {"settings"}, "CommitSettings")
  /\ LET h == flight[k]
     IN /\ WriteTakeover(h.c, h.b)
        /\ Wait(k, [Started(h.op, h.s, "Broadcast") EXCEPT !.c = h.c,
                      !.out = [Event("settings", h.c, h.s, Nil) EXCEPT !.b = meta[h.c].takeover]])
  /\ UNCHANGED <<sockets, view>>

CommitSettings(k) ==
  /\ At(k, {"settings"}, "CommitSettings")
  /\ LET h == flight[k]
     IN /\ WriteTakeover(h.c, h.b)
        /\ Wait(k, [Started(h.op, h.s, "Broadcast") EXCEPT !.c = h.c,
                      !.out = [Event("settings", h.c, h.s, Nil) EXCEPT !.b = h.b]])
  /\ UNCHANGED <<sockets, view>>

ParamsReadRoom(k) ==
  /\ At(k, {"params"}, "ReadRoom")
  /\ Wait(k, [flight[k] EXCEPT !.pc = "CommitState"])
  /\ UNCHANGED <<keys, sockets, view>>

\* A batch of stable avatar parameters; the relay of parameters, with its
\* rate tracker and throttle, is a component of its own.
CommitState(k) ==
  /\ At(k, {"params"}, "CommitState")
  /\ LET h == flight[k]
     IN /\ WriteState(h.s, h.c)
        /\ Wait(k, [Started(h.op, h.s, "Broadcast") EXCEPT !.c = h.c,
                      !.out = Event("params", h.c, h.s, h.s)])
  /\ UNCHANGED <<sockets, view>>

-----------------------------------------------------------------------------
(* updateAvatarId: three separate writes.                                  *)

CommitSessionAvatar(k) ==
  /\ At(k, {"avatar"}, "CommitSessionAvatar")
  /\ LET h == flight[k]
     IN /\ WriteSessionAvatar(h.s, h.a)
        /\ Wait(k, [h EXCEPT !.pc = "ReadParticipant"])
  /\ UNCHANGED <<sockets, view>>

AvatarReadParticipant(k) ==
  /\ At(k, {"avatar"}, "ReadParticipant")
  /\ LET h == flight[k]
         p == parts[h.c][h.s]
     IN IF p = Nil THEN Wait(k, [h EXCEPT !.pc = "ReadRoom"])
        ELSE Wait(k, [h EXCEPT !.pc = "CommitParticipantAvatar", !.old = p.name])
  /\ UNCHANGED <<keys, sockets, view>>

CommitParticipantAvatar(k) ==
  /\ At(k, {"avatar"}, "CommitParticipantAvatar")
  /\ LET h == flight[k]
     IN /\ WriteParticipant(h.s, h.c, h.old, h.a)
        /\ Wait(k, [h EXCEPT !.pc = "ReadRoom", !.old = Nil])
  /\ UNCHANGED <<sockets, view>>

AvatarUpdated(h) ==
  [Started(h.op, h.s, "Broadcast") EXCEPT !.c = h.c,
     !.out = [Event("avatar", h.c, h.s, Nil) EXCEPT !.a = h.a]]

AvatarReadRoom(k) ==
  /\ At(k, {"avatar"}, "ReadRoom")
  /\ LET h == flight[k]
     IN Wait(k, IF meta[h.c].owner = h.s THEN [h EXCEPT !.pc = "CommitOwnerAvatar"]
                                         ELSE AvatarUpdated(h))
  /\ UNCHANGED <<keys, sockets, view>>

CommitOwnerAvatar(k) ==
  /\ At(k, {"avatar"}, "CommitOwnerAvatar")
  /\ LET h == flight[k]
     IN /\ WriteOwnerAvatar(h.c, h.a)
        /\ Wait(k, AvatarUpdated(h))
  /\ UNCHANGED <<sockets, view>>

-----------------------------------------------------------------------------

\* broadcastToRoom: reads who is in the room now, then sends the event to
\* each of them that has an open socket and is not the excluded session.
Broadcast(k) ==
  /\ k \in DOMAIN flight
  /\ Fifo => k = 1
  /\ flight[k].pc = "Broadcast"
  /\ LET h == flight[k]
     IN /\ view' = [s \in Sessions |->
             IF s \in open /\ parts[h.c][s] # Nil /\ s # h.out.x
             THEN Applied(s, view[s], h.out) ELSE view[s]]
        /\ IF h.then = Nil THEN Return(k)
           ELSE Wait(k, [h EXCEPT !.out = h.then, !.then = Nil])
  /\ UNCHANGED <<keys, sockets>>

Resume(k) ==
  \/ Refuse(k)
  \/ EnsureNotInRoom(k) \/ PickCode(k) \/ CommitCreate(k)
  \/ JoinReadRoom(k) \/ JoinReadHolder(k) \/ CommitJoin(k)
  \/ SnapRoom(k) \/ SnapOrder(k) \/ SnapParticipants(k) \/ SnapState(k)
  \/ RequireSession(k)
  \/ LeaveReadParticipant(k) \/ LeaveReadRoom(k) \/ LeaveReadOrder(k)
  \/ LeaveReadKeys(k) \/ LeaveReadNewOwner(k) \/ CommitLeave(k)
  \/ RenameReadHolder(k) \/ RenameReadParticipant(k) \/ CommitRename(k)
  \/ TakeReadRoom(k) \/ TakeReadAvatar(k) \/ CommitOwner(k)
  \/ SettingsReadRoom(k) \/ CommitSettings(k)
  \/ ParamsReadRoom(k) \/ CommitState(k)
  \/ CommitSessionAvatar(k) \/ AvatarReadParticipant(k) \/ CommitParticipantAvatar(k)
  \/ AvatarReadRoom(k) \/ CommitOwnerAvatar(k)
  \/ Broadcast(k)

Next ==
  \/ \E s \in Sessions :
       \/ \E n \in Names : handleHello(s, n)
       \/ RequestCreate(s) \/ RequestJoin(s) \/ RequestRename(s)
       \/ RequestSettings(s) \/ RequestAvatar(s) \/ RequestPlain(s)
       \/ Close(s)
  \/ Stop
  \/ \E k \in 1..MaxInFlight : Resume(k)

Spec == Init /\ [][Next]_vars

\* Redis answers and the event loop runs: a suspended handler is resumed.
FairSpec == Spec /\ WF_vars(\E k \in 1..MaxInFlight : Resume(k))
=============================================================================
