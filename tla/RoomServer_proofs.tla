-------------------------- MODULE RoomServer_proofs --------------------------
(***************************************************************************)
(* What holds of the room service for any sessions, codes, names and       *)
(* number of handlers. First, however the handlers overlap: type           *)
(* correctness, that every entry of a join order is a participant, and     *)
(* that a client shows the room its socket is in. Then, when handlers do   *)
(* not overlap: the keys of every room agree with each other, sockets and  *)
(* avatars agree with the keys, every client's view with the room once the *)
(* events owed to it have come, and every command is a step of the         *)
(* abstract Rooms or changes nothing it sees.                              *)
(***************************************************************************)
EXTENDS RoomService, SequenceTheorems, FiniteSetTheorems, TLAPS

-----------------------------------------------------------------------------
(* The handlers in flight.                                                 *)

\* Starting, resuming or ending a handler disturbs no other one.
LEMMA StartKeeps ==
  ASSUME FlightOK, NEW h, HandlerOK(h), flight' = Append(flight, h)
  PROVE  FlightOK'
<1>1. h \in Handler /\ flight \in Seq(Handler)
  BY DEF HandlerOK, FlightOK
<1>2. /\ flight' \in Seq(Handler)
      /\ Len(flight') = Len(flight) + 1
      /\ \A j \in 1..Len(flight) : flight'[j] = flight[j]
      /\ flight'[Len(flight) + 1] = h
  BY <1>1, AppendProperties
<1> QED
  BY <1>1, <1>2 DEF FlightOK

\* A handler that waits for its next command, in its old place or at the end.
LEMMA WaitKeeps ==
  ASSUME FlightOK, NEW k \in DOMAIN flight, Fifo => k = 1, NEW h, HandlerOK(h), Wait(k, h)
  PROVE  FlightOK'
<1>1. h \in Handler /\ k \in 1..Len(flight) /\ flight \in Seq(Handler)
  BY DEF HandlerOK, FlightOK
<1>2. CASE Fifo
  <2> DEFINE rest == Tail(flight)
  <2>1. flight' = Append(rest, h) /\ flight # <<>>
    BY <1>1, <1>2 DEF Wait
  <2>2. /\ rest \in Seq(Handler)
        /\ Len(rest) = Len(flight) - 1
        /\ \A j \in 1..Len(rest) : rest[j] = flight[j + 1]
    BY <1>1, <2>1, HeadTailProperties
  <2>3. /\ flight' \in Seq(Handler)
        /\ Len(flight') = Len(rest) + 1
        /\ \A j \in 1..Len(rest) : flight'[j] = rest[j]
        /\ flight'[Len(rest) + 1] = h
    BY <1>1, <2>1, <2>2, AppendProperties
  <2>4. ASSUME NEW j \in DOMAIN flight' PROVE HandlerOK(flight'[j])
    <3>1. CASE j = Len(rest) + 1
      BY <2>3, <3>1
    <3>2. CASE j \in 1..Len(rest)
      <4>1. flight'[j] = flight[j + 1] /\ j + 1 \in DOMAIN flight
        BY <1>1, <2>2, <2>3, <3>2
      <4> QED
        BY <4>1 DEF FlightOK
    <3> QED
      BY <1>1, <2>2, <2>3, <3>1, <3>2
  <2> QED
    BY <2>3, <2>4 DEF FlightOK
<1>3. CASE ~ Fifo
  <2>1. flight' = [flight EXCEPT ![k] = h]
    BY <1>3 DEF Wait
  <2> QED
    BY <1>1, <2>1, ExceptSeq DEF FlightOK
<1> QED
  BY <1>2, <1>3

\* A handler that returns leaves the others as they are.
LEMMA ReturnKeeps ==
  ASSUME FlightOK, NEW k \in DOMAIN flight, Return(k)
  PROVE  FlightOK'
<1> DEFINE a == SubSeq(flight, 1, k - 1)
           b == SubSeq(flight, k + 1, Len(flight))
<1>1. k \in 1..Len(flight) /\ flight \in Seq(Handler) /\ flight' = a \o b
  BY DEF FlightOK, Return, RemoveAt
<1>2. a \in Seq(Handler) /\ Len(a) = k - 1 /\ \A j \in 1..(k - 1) : a[j] = flight[j]
  BY <1>1, SubSeqProperties
<1>3. /\ b \in Seq(Handler)
      /\ Len(b) = Len(flight) - k
      /\ \A j \in 1..(Len(flight) - k) : b[j] = flight[k + j]
  BY <1>1, SubSeqProperties
<1> HIDE DEF a, b
<1>4. /\ flight' \in Seq(Handler)
      /\ Len(flight') = Len(flight) - 1
      /\ \A j \in 1..(Len(flight) - 1) : flight'[j] = IF j <= k - 1 THEN a[j] ELSE b[j - (k - 1)]
  BY <1>1, <1>2, <1>3, ConcatProperties, SMTT(30)
<1>5. ASSUME NEW j \in DOMAIN flight' PROVE \E i \in DOMAIN flight : flight'[j] = flight[i]
  <2>1. j \in 1..(Len(flight) - 1)
    BY <1>1, <1>4
  <2>2. CASE j <= k - 1
    BY <1>1, <1>2, <1>4, <2>1, <2>2
  <2>3. CASE j > k - 1
    <3> DEFINE i == j - (k - 1)
    <3>1. i \in 1..(Len(flight) - k) /\ k + i = j + 1 /\ j + 1 \in DOMAIN flight
      BY <1>1, <2>1, <2>3
    <3>2. flight'[j] = b[i] /\ b[i] = flight[k + i]
      BY <1>1, <1>3, <1>4, <2>1, <2>3, <3>1
    <3> QED
      BY <3>1, <3>2
  <2> QED
    BY <1>1, <2>1, <2>2, <2>3
<1> QED
  BY <1>4, <1>5 DEF FlightOK

\* What an action of handler k may assume of it.
LEMMA AtFacts ==
  ASSUME FlightOK, NEW k, NEW ops, NEW pc, At(k, ops, pc)
  PROVE  /\ k \in DOMAIN flight
         /\ Fifo => k = 1
         /\ flight[k].op \in ops
         /\ flight[k].pc = pc
         /\ HandlerOK(flight[k])
         /\ flight[k] \in Handler
         /\ ~ Refused(flight[k])
  BY DEF At, FlightOK, HandlerOK

\* The events the handlers broadcast.
LEMMA EventTyped ==
  ASSUME NEW type \in {"joined", "left", "name", "owner", "settings", "avatar", "params"},
         NEW c \in Codes \cup {Nil}, NEW s \in Sessions, NEW x \in Sessions \cup {Nil}
  PROVE  Event(type, c, s, x) \in Message
  BY TakeoverAssumption DEF Event, Message

\* An event is not the absence of one.
LEMMA MessageReal ==
  ASSUME NEW m \in Message PROVE m # Nil
  BY MessageAssumption

\* A handler without local variables yet.
LEMMA StartedTyped ==
  ASSUME NEW op \in Requests \cup {"disconnect"}, NEW s \in Sessions, NEW pc \in Pcs
  PROVE  Started(op, s, pc) \in Handler
  BY TakeoverAssumption DEF Started, Handler, NoRoom, Room, NoOrder, NoParts

\* A handler that has done its work and is about to broadcast.
LEMMA AnnounceOK ==
  ASSUME NEW op \in Requests \cup {"disconnect"}, NEW s \in Sessions, NEW c \in Codes,
         NEW out \in Message,
         out.type \in {"joined", "name"} => out.n # Nil,
         out.type = "left" => out.x = out.s
  PROVE  HandlerOK([Started(op, s, "Broadcast") EXCEPT !.c = c, !.out = out])
<1> DEFINE g == [Started(op, s, "Broadcast") EXCEPT !.c = c, !.out = out]
<1>1. Started(op, s, "Broadcast") \in Handler /\ out # Nil
  BY StartedTyped, MessageReal DEF Pcs
<1>2. /\ g \in Handler
      /\ g.pc = "Broadcast" /\ g.c = c /\ g.out = out /\ g.then = Nil
  BY <1>1 DEF Handler, Started
<1> HIDE DEF g
<1>3. HandlerOK(g)
  BY <1>1, <1>2, CodesAssumption DEF HandlerOK, Naming
<1> QED
  BY <1>3 DEF g

\* One that has a second event to broadcast: leaveRoom promoting a new owner.
LEMMA AnnounceBothOK ==
  ASSUME NEW op \in Requests \cup {"disconnect"}, NEW s \in Sessions, NEW c \in Codes,
         NEW out \in Message,
         out.type \in {"joined", "name"} => out.n # Nil,
         out.type = "left" => out.x = out.s,
         NEW then \in Message \cup {Nil}, then # Nil => then.type = "owner"
  PROVE  HandlerOK([Started(op, s, "Broadcast") EXCEPT !.c = c, !.out = out, !.then = then])
<1> DEFINE g == [Started(op, s, "Broadcast") EXCEPT !.c = c, !.out = out, !.then = then]
<1>1. Started(op, s, "Broadcast") \in Handler /\ out # Nil
  BY StartedTyped, MessageReal DEF Pcs
<1>2. /\ g \in Handler
      /\ g.pc = "Broadcast" /\ g.c = c /\ g.out = out /\ g.then = then
  BY <1>1 DEF Handler, Started
<1> HIDE DEF g
<1>3. HandlerOK(g)
  BY <1>1, <1>2, CodesAssumption DEF HandlerOK, Naming
<1> QED
  BY <1>3 DEF g

-----------------------------------------------------------------------------
(* The keys: every write of RoomKeys keeps their types and leaves no entry *)
(* in a join order without its participant.                                *)

\* A participant entry is not the absence of one.
LEMMA ParticipantReal ==
  ASSUME NEW p \in Participant PROVE p # Nil
  BY ParticipantAssumption

\* A hash with some of its fields set is still a hash of its kind.
LEMMA RoomFields ==
  ASSUME KeysTypeOK, NEW c \in Codes, NEW r \in Room, meta' = [meta EXCEPT ![c] = r]
  PROVE  meta' \in [Codes -> Room]
  BY DEF KeysTypeOK

\* The same of a session hash.
LEMMA SessionFields ==
  ASSUME KeysTypeOK, NEW s \in Sessions, NEW r \in Session, sess' = [sess EXCEPT ![s] = r]
  PROVE  sess' \in [Sessions -> Session]
  BY DEF KeysTypeOK

\* createRoom and joinRoom add a participant and its place in the join order.
LEMMA SeatWrites ==
  ASSUME KeysTypeOK, NEW s \in Sessions, NEW n \in Names, NEW c \in Codes, Seat(s, n, c),
         meta' \in [Codes -> Room]
  PROVE  KeysTypeOK' /\ (OrderedArePresent => OrderedArePresent')
<1> DEFINE p == [name |-> n, avatar |-> Nil]
<1>1. p \in Participant /\ p # Nil /\ LowerCase[n] \in Names
  BY ParticipantReal, LowerCaseAssumption DEF Participant
<1> HIDE DEF p
<1>2. /\ parts' = [parts EXCEPT ![c][s] = p]
      /\ now' \in 1..MaxNow
      /\ order' = [order EXCEPT ![c][s] = now']
      /\ names' = [names EXCEPT ![c][LowerCase[n]] = s]
      /\ sess' = [sess EXCEPT ![s].room = c]
      /\ state' = state
  BY DEF Seat, p
<1>3. KeysTypeOK'
  <2>1. sess[s] \in Session
    BY DEF KeysTypeOK
  <2>2. [sess[s] EXCEPT !.room = c] \in Session
    BY <2>1 DEF Session
  <2>3. sess' \in [Sessions -> Session]
    BY <1>2, <2>2, SessionFields
  <2>4. /\ parts' \in [Codes -> [Sessions -> Participant \cup {Nil}]]
        /\ order' \in [Codes -> [Sessions -> Nat]]
    BY <1>1, <1>2 DEF KeysTypeOK
  <2>5. names' \in [Codes -> [Names -> Sessions \cup {Nil}]]
    BY <1>1, <1>2 DEF KeysTypeOK
  <2> QED
    BY <1>2, <2>3, <2>4, <2>5 DEF KeysTypeOK
<1>4. ASSUME OrderedArePresent PROVE OrderedArePresent'
  BY <1>1, <1>2, <1>4 DEF KeysTypeOK, OrderedArePresent, Present
<1> QED
  BY <1>3, <1>4

\* participantCount stays a number or NaN.
LEMMA PlusTyped == ASSUME NEW x \in Int, NEW d \in Int PROVE Plus(x, d) \in Int
  BY DEF Plus, NaN

\* The MULTI block of createRoom.
LEMMA AddRoomWrites ==
  ASSUME KeysTypeOK, NEW s \in Sessions, NEW n \in Names, NEW c \in Codes,
         NEW b \in BOOLEAN, AddRoom(s, n, c, b)
  PROVE  KeysTypeOK' /\ (OrderedArePresent => OrderedArePresent')
<1>1. meta' \in [Codes -> Room]
  BY DEF AddRoom, KeysTypeOK, Room
<1> QED
  BY <1>1, SeatWrites DEF AddRoom

\* The MULTI block of joinRoom.
LEMMA AddParticipantWrites ==
  ASSUME KeysTypeOK, NEW s \in Sessions, NEW n \in Names, NEW c \in Codes,
         NEW count \in Int, AddParticipant(s, n, c, count)
  PROVE  KeysTypeOK' /\ (OrderedArePresent => OrderedArePresent')
<1>1. meta[c] \in Room
  BY DEF KeysTypeOK
<1>2. [meta[c] EXCEPT !.count = Plus(count, 1)] \in Room
  BY <1>1, PlusTyped DEF Room
<1>3. meta' \in [Codes -> Room]
  BY <1>2, RoomFields DEF AddParticipant
<1> QED
  BY <1>3, SeatWrites DEF AddParticipant

\* The MULTI block of leaveRoom that ends the room.
LEMMA DeleteRoomWrites ==
  ASSUME KeysTypeOK, NEW s \in Sessions, NEW n \in Names, NEW c \in Codes,
         DeleteRoom(s, n, c)
  PROVE  KeysTypeOK' /\ (OrderedArePresent => OrderedArePresent')
<1>1. KeysTypeOK'
  <2>1. NoRoom \in Room /\ NoSession \in Session
    BY DEF NoRoom, Room, NoSession, Session
  <2>2. meta' \in [Codes -> Room] /\ sess' \in [Sessions -> Session]
    BY <2>1 DEF DeleteRoom, KeysTypeOK
  <2>3. /\ parts' \in [Codes -> [Sessions -> Participant \cup {Nil}]]
        /\ order' \in [Codes -> [Sessions -> Nat]]
    BY DEF DeleteRoom, KeysTypeOK, NoParts, NoOrder
  <2>4. names' \in [Codes -> [Names -> Sessions \cup {Nil}]]
    BY DEF DeleteRoom, KeysTypeOK
  <2>5. state' \in [Codes -> Sessions \cup {Nil}] /\ now' \in 1..MaxNow
    BY DEF DeleteRoom, KeysTypeOK
  <2> QED
    BY <2>2, <2>3, <2>4, <2>5 DEF KeysTypeOK
<1>2. ASSUME OrderedArePresent PROVE OrderedArePresent'
  BY <1>2 DEF DeleteRoom, KeysTypeOK, OrderedArePresent, Present, NoParts, NoOrder
<1> QED
  BY <1>1, <1>2

\* The MULTI block of leaveRoom when the room goes on.
LEMMA RemoveParticipantWrites ==
  ASSUME KeysTypeOK, NEW s \in Sessions, NEW n \in Names, NEW c \in Codes,
         NEW left \in Int, NEW next \in Sessions \cup {Nil},
         NEW p \in Participant \cup {Nil},
         RemoveParticipant(s, n, c, left, next, p)
  PROVE  KeysTypeOK' /\ (OrderedArePresent => OrderedArePresent')
<1>1. KeysTypeOK'
  <2>1. meta[c] \in Room /\ NoSession \in Session
    BY DEF KeysTypeOK, NoSession, Session
  <2>2. Continued(meta[c], left, next, p) \in Room
    BY <2>1 DEF Continued, Room, Participant
  <2>3. meta' \in [Codes -> Room]
    BY <2>2, RoomFields DEF RemoveParticipant
  <2>4. sess' \in [Sessions -> Session]
    BY <2>1 DEF RemoveParticipant, KeysTypeOK
  <2>5. /\ parts' \in [Codes -> [Sessions -> Participant \cup {Nil}]]
        /\ order' \in [Codes -> [Sessions -> Nat]]
    BY DEF RemoveParticipant, KeysTypeOK
  <2>6. names' \in [Codes -> [Names -> Sessions \cup {Nil}]]
    BY DEF RemoveParticipant, KeysTypeOK
  <2>7. state' \in [Codes -> Sessions \cup {Nil}] /\ now' \in 1..MaxNow
    BY DEF RemoveParticipant, KeysTypeOK
  <2> QED
    BY <2>3, <2>4, <2>5, <2>6, <2>7 DEF KeysTypeOK
<1>2. ASSUME OrderedArePresent PROVE OrderedArePresent'
  BY <1>2 DEF RemoveParticipant, KeysTypeOK, OrderedArePresent, Present
<1> QED
  BY <1>1, <1>2

\* The writes that add or change one participant entry.
LEMMA EntryWrites ==
  ASSUME KeysTypeOK, NEW s \in Sessions, NEW n \in Names, NEW c \in Codes,
         NEW avatar \in Avatars \cup {Nil},
         parts' = [parts EXCEPT ![c][s] = [name |-> n, avatar |-> avatar]],
         names' \in [Codes -> [Names -> Sessions \cup {Nil}]],
         UNCHANGED <<meta, order, state, sess, now>>
  PROVE  KeysTypeOK' /\ (OrderedArePresent => OrderedArePresent')
<1> DEFINE p == [name |-> n, avatar |-> avatar]
<1>1. p \in Participant /\ p # Nil
  BY ParticipantReal DEF Participant
<1> HIDE DEF p
<1>2. parts' = [parts EXCEPT ![c][s] = p]
  BY DEF p
<1>3. KeysTypeOK'
  <2>1. parts' \in [Codes -> [Sessions -> Participant \cup {Nil}]]
    BY <1>1, <1>2 DEF KeysTypeOK
  <2> QED
    BY <2>1 DEF KeysTypeOK
<1>4. ASSUME OrderedArePresent PROVE OrderedArePresent'
  BY <1>1, <1>2, <1>4 DEF KeysTypeOK, OrderedArePresent, Present
<1> QED
  BY <1>3, <1>4

\* The MULTI block of updateDisplayName.
LEMMA WriteNameWrites ==
  ASSUME KeysTypeOK, NEW s \in Sessions, NEW old \in Names, NEW new \in Names,
         NEW c \in Codes, NEW avatar \in Avatars \cup {Nil},
         WriteName(s, old, new, c, avatar)
  PROVE  KeysTypeOK' /\ (OrderedArePresent => OrderedArePresent')
<1>1. names' \in [Codes -> [Names -> Sessions \cup {Nil}]]
  BY DEF WriteName, KeysTypeOK
<1> QED
  BY <1>1, EntryWrites DEF WriteName

\* The write of updateAvatarId to the participant.
LEMMA WriteParticipantWrites ==
  ASSUME KeysTypeOK, NEW s \in Sessions, NEW c \in Codes, NEW n \in Names,
         NEW avatar \in Avatars \cup {Nil}, WriteParticipant(s, c, n, avatar)
  PROVE  KeysTypeOK' /\ (OrderedArePresent => OrderedArePresent')
<1>1. names' \in [Codes -> [Names -> Sessions \cup {Nil}]]
  BY DEF WriteParticipant, KeysTypeOK
<1> QED
  BY <1>1, EntryWrites DEF WriteParticipant

\* The single writes to the room and session hashes.
LEMMA HashWrites ==
  ASSUME KeysTypeOK, NEW s \in Sessions, NEW c \in Codes, NEW b \in BOOLEAN,
         NEW avatar \in Avatars \cup {Nil},
         \/ WriteOwner(s, c, avatar)
         \/ WriteTakeover(c, b)
         \/ WriteState(s, c)
         \/ WriteSessionAvatar(s, avatar)
         \/ WriteOwnerAvatar(c, avatar)
  PROVE  /\ KeysTypeOK'
         /\ UNCHANGED <<parts, order>>
<1> meta[c] \in Room /\ sess[s] \in Session
  BY DEF KeysTypeOK
<1>1. CASE WriteOwner(s, c, avatar)
  <2>1. [meta[c] EXCEPT !.owner = s, !.avatar = avatar] \in Room
    BY DEF Room
  <2>2. meta' \in [Codes -> Room]
    BY <1>1, <2>1, RoomFields DEF WriteOwner
  <2> QED
    BY <1>1, <2>2 DEF WriteOwner, KeysTypeOK
<1>2. CASE WriteTakeover(c, b)
  <2>1. [meta[c] EXCEPT !.takeover = b] \in Room
    BY DEF Room
  <2>2. meta' \in [Codes -> Room]
    BY <1>2, <2>1, RoomFields DEF WriteTakeover
  <2> QED
    BY <1>2, <2>2 DEF WriteTakeover, KeysTypeOK
<1>3. CASE WriteState(s, c)
  BY <1>3 DEF WriteState, KeysTypeOK
<1>4. CASE WriteSessionAvatar(s, avatar)
  BY <1>4 DEF WriteSessionAvatar, KeysTypeOK, Session
<1>5. CASE WriteOwnerAvatar(c, avatar)
  <2>1. [meta[c] EXCEPT !.avatar = avatar] \in Room
    BY DEF Room
  <2>2. meta' \in [Codes -> Room]
    BY <1>5, <2>1, RoomFields DEF WriteOwnerAvatar
  <2> QED
    BY <1>5, <2>2 DEF WriteOwnerAvatar, KeysTypeOK
<1> QED
  BY <1>1, <1>2, <1>3, <1>4, <1>5

-----------------------------------------------------------------------------
(* Type correctness.                                                       *)

\* A step that only reads: the handler goes on as g.
LEMMA ReadStep ==
  ASSUME TypeOK, NEW k, NEW ops, NEW pc, At(k, ops, pc), NEW g, HandlerOK(g), Wait(k, g),
         UNCHANGED <<keys, sockets, view>>
  PROVE  TypeOK'
<1>1. FlightOK'
  BY AtFacts, WaitKeeps DEF TypeOK
<1> QED
  BY <1>1 DEF TypeOK, KeysTypeOK, keys, sockets

\* g is h with some local variables set, about to wait at pc.
Moved(h, g, pc, c, old, o) ==
  /\ g.op = h.op /\ g.n = h.n /\ g.out = h.out /\ g.then = h.then
  /\ g.pc = pc /\ g.c = c /\ g.old = old /\ g.o = o

\* The local variables a handler sets as it goes on: none.
LEMMA SetPc ==
  ASSUME NEW h \in Handler, NEW pc \in Pcs
  PROVE  LET g == [h EXCEPT !.pc = pc] IN g \in Handler /\ Moved(h, g, pc, h.c, h.old, h.o)
<1> DEFINE g == [h EXCEPT !.pc = pc]
<1>1. g \in Handler
  BY Zenon DEF Handler
<1>2. Moved(h, g, pc, h.c, h.old, h.o)
  BY DEF Handler, Moved
<1> QED
  BY <1>1, <1>2

\* Its room code.
LEMMA SetRoom ==
  ASSUME NEW h \in Handler, NEW pc \in Pcs, NEW c \in Codes
  PROVE  LET g == [h EXCEPT !.c = c, !.pc = pc] IN g \in Handler /\ Moved(h, g, pc, c, h.old, h.o)
<1> DEFINE g == [h EXCEPT !.c = c, !.pc = pc]
<1>1. g \in Handler
  BY Zenon DEF Handler
<1>2. Moved(h, g, pc, c, h.old, h.o)
  BY DEF Handler, Moved
<1> QED
  BY <1>1, <1>2

\* The name it has read.
LEMMA SetName ==
  ASSUME NEW h \in Handler, NEW pc \in Pcs, NEW old \in Names \cup {Nil}
  PROVE  LET g == [h EXCEPT !.pc = pc, !.old = old] IN g \in Handler /\ Moved(h, g, pc, h.c, old, h.o)
<1> DEFINE g == [h EXCEPT !.pc = pc, !.old = old]
<1>1. g \in Handler
  BY Zenon DEF Handler
<1>2. Moved(h, g, pc, h.c, old, h.o)
  BY DEF Handler, Moved
<1> QED
  BY <1>1, <1>2

\* The join order it has read.
LEMMA SetOrder ==
  ASSUME NEW h \in Handler, NEW pc \in Pcs, NEW q \in [Sessions -> Nat]
  PROVE  LET g == [h EXCEPT !.pc = pc, !.q = q] IN g \in Handler /\ Moved(h, g, pc, h.c, h.old, h.o)
<1> DEFINE g == [h EXCEPT !.pc = pc, !.q = q]
<1>1. g \in Handler
  BY Zenon DEF Handler
<1>2. Moved(h, g, pc, h.c, h.old, h.o)
  BY DEF Handler, Moved
<1> QED
  BY <1>1, <1>2

\* The session it has chosen to own the room.
LEMMA SetNext ==
  ASSUME NEW h \in Handler, NEW pc \in Pcs, NEW q \in [Sessions -> Nat], NEW o \in Sessions
  PROVE  LET g == [h EXCEPT !.pc = pc, !.q = q, !.o = o] IN g \in Handler /\ Moved(h, g, pc, h.c, h.old, o)
<1> DEFINE g == [h EXCEPT !.pc = pc, !.q = q, !.o = o]
<1>1. g \in Handler
  BY Zenon DEF Handler
<1>2. Moved(h, g, pc, h.c, h.old, o)
  BY DEF Handler, Moved
<1> QED
  BY <1>1, <1>2

\* The participant of that session.
LEMMA SetNewOwner ==
  ASSUME NEW h \in Handler, NEW pc \in Pcs, NEW p \in Participant \cup {Nil}
  PROVE  LET g == [h EXCEPT !.pc = pc, !.np = p] IN g \in Handler /\ Moved(h, g, pc, h.c, h.old, h.o)
<1> DEFINE g == [h EXCEPT !.pc = pc, !.np = p]
<1>1. g \in Handler
  BY Zenon DEF Handler
<1>2. Moved(h, g, pc, h.c, h.old, h.o)
  BY DEF Handler, Moved
<1> QED
  BY <1>1, <1>2

\* The room hash it has read.
LEMMA SetMeta ==
  ASSUME NEW h \in Handler, NEW pc \in Pcs, NEW m \in Room
  PROVE  LET g == [h EXCEPT !.pc = pc, !.m = m] IN g \in Handler /\ Moved(h, g, pc, h.c, h.old, h.o)
<1> DEFINE g == [h EXCEPT !.pc = pc, !.m = m]
<1>1. g \in Handler
  BY Zenon DEF Handler
<1>2. Moved(h, g, pc, h.c, h.old, h.o)
  BY DEF Handler, Moved
<1> QED
  BY <1>1, <1>2

\* A handler past requireSession knows its room.
LEMMA LocatedFacts ==
  ASSUME NEW h, HandlerOK(h), h.pc \in Located \/ h.op = "join"
  PROVE  h.c \in Codes
  BY DEF HandlerOK, Handler

\* What TypeOK says of the hashes and sets a handler reads.
LEMMA KeyValues ==
  ASSUME TypeOK, NEW c \in Codes, NEW s \in Sessions
  PROVE  /\ meta[c] \in Room
         /\ meta[c].count \in Int
         /\ order[c] \in [Sessions -> Nat]
         /\ parts[c] \in [Sessions -> Participant \cup {Nil}]
         /\ parts[c][s] \in Participant \cup {Nil}
         /\ parts[c][s] # Nil => /\ parts[c][s].name \in Names
                                 /\ parts[c][s].avatar \in Avatars \cup {Nil}
         /\ sess[s].room \in Codes \cup {Nil}
         /\ sess[s].avatar \in Avatars \cup {Nil}
         /\ view[s] \in View
  BY DEF TypeOK, KeysTypeOK, Room, Session, Participant

\* A handler of updateAvatarId that has done its writes.
LEMMA AvatarUpdatedOK ==
  ASSUME NEW h \in Handler, h.op = "avatar", h.c \in Codes
  PROVE  HandlerOK(AvatarUpdated(h))
<1>1. h.s \in Sessions /\ h.a \in Avatars \cup {Nil}
  BY DEF Handler
<1>2. Event("avatar", h.c, h.s, Nil) \in Message
  BY <1>1, EventTyped
<1> DEFINE out == [Event("avatar", h.c, h.s, Nil) EXCEPT !.a = h.a]
<1>3. out \in Message /\ out.type = "avatar"
  BY <1>1, <1>2 DEF Message, Event
<1> HIDE DEF out
<1>4. HandlerOK([Started("avatar", h.s, "Broadcast") EXCEPT !.c = h.c, !.out = out])
  BY <1>1, <1>3, AnnounceOK DEF Requests
<1> QED
  BY <1>4 DEF AvatarUpdated, out

\* Every step that only reads keeps TypeOK: the handler has given its local
\* variables the values that its next steps need.
LEMMA ReadsTyped ==
  ASSUME TypeOK, NEW k,
         \/ EnsureNotInRoom(k) \/ PickCode(k)
         \/ JoinReadRoom(k) \/ JoinReadHolder(k)
         \/ SnapRoom(k) \/ SnapOrder(k) \/ SnapParticipants(k)
         \/ RequireSession(k)
         \/ LeaveReadParticipant(k) \/ LeaveReadRoom(k) \/ LeaveReadOrder(k)
         \/ LeaveReadKeys(k) \/ LeaveReadNewOwner(k)
         \/ RenameReadHolder(k) \/ RenameReadParticipant(k)
         \/ TakeReadRoom(k) \/ TakeReadAvatar(k)
         \/ SettingsReadRoom(k) \/ ParamsReadRoom(k)
         \/ AvatarReadParticipant(k) \/ AvatarReadRoom(k)
  PROVE  TypeOK'
<1> DEFINE h == flight[k]
<1>1. CASE EnsureNotInRoom(k)
  <2>1. At(k, {"create", "join"}, "EnsureNotInRoom")
    BY <1>1 DEF EnsureNotInRoom
  <2>2. /\ HandlerOK(h) /\ h \in Handler /\ h.s \in Sessions
        /\ h.op \in {"create", "join"} /\ h.pc = "EnsureNotInRoom"
    BY <2>1, AtFacts DEF TypeOK, Handler
  <2>3. CASE h.op = "create"
    <3> DEFINE g == [h EXCEPT !.pc = "PickCode"]
    <3>1. g \in Handler /\ Moved(h, g, "PickCode", h.c, h.old, h.o)
      BY <2>2, <2>3, SetPc DEF Pcs
    <3>2. Wait(k, g) /\ UNCHANGED <<keys, sockets, view>>
      BY <1>1, <2>2, <2>3 DEF EnsureNotInRoom, Leaving
    <3> HIDE DEF g
    <3>3. HandlerOK(g)
      BY <2>2, <2>3, <3>1 DEF HandlerOK, Moved, Located, Naming, Pcs, Leaving
    <3> QED
      BY <2>1, <3>2, <3>3, ReadStep
  <2>4. CASE h.op = "join"
    <3> DEFINE g == [h EXCEPT !.pc = "ReadRoom"]
    <3>1. g \in Handler /\ Moved(h, g, "ReadRoom", h.c, h.old, h.o)
      BY <2>2, <2>4, SetPc DEF Pcs
    <3>2. Wait(k, g) /\ UNCHANGED <<keys, sockets, view>>
      BY <1>1, <2>2, <2>4 DEF EnsureNotInRoom, Leaving
    <3> HIDE DEF g
    <3>3. HandlerOK(g)
      BY <2>2, <2>4, <3>1 DEF HandlerOK, Moved, Located, Naming, Pcs, Leaving
    <3> QED
      BY <2>1, <3>2, <3>3, ReadStep
  <2> QED
    BY <2>2, <2>3, <2>4 DEF Leaving
<1>2. CASE PickCode(k)
  <2>1. At(k, {"create"}, "PickCode") /\ UNCHANGED <<keys, sockets, view>>
    BY <1>2 DEF PickCode
  <2>2. HandlerOK(h) /\ h.op = "create" /\ h.pc = "PickCode"
    BY <2>1, AtFacts DEF TypeOK
  <2>3. PICK c \in Codes : Wait(k, [h EXCEPT !.pc = "CommitCreate", !.c = c])
    BY <1>2 DEF PickCode
  <2> DEFINE g == [h EXCEPT !.pc = "CommitCreate", !.c = c]
  <2>4. g \in Handler /\ Moved(h, g, "CommitCreate", c, h.old, h.o) /\ Wait(k, g)
    <3>1. g \in Handler
      BY <2>2, <2>3, Zenon DEF HandlerOK, Handler, Pcs
    <3>2. Moved(h, g, "CommitCreate", c, h.old, h.o) /\ Wait(k, g)
      BY <2>2, <2>3 DEF HandlerOK, Handler, Pcs, Moved
    <3> QED
      BY <3>1, <3>2
  <2> HIDE DEF g
  <2>5. HandlerOK(g)
    BY <2>2, <2>4, CodesAssumption DEF HandlerOK, Moved, Located, Naming, Pcs
  <2> QED
    BY <2>1, <2>4, <2>5, ReadStep
<1>3. CASE JoinReadRoom(k)
  <2>1. At(k, {"join"}, "ReadRoom")
    BY <1>3 DEF JoinReadRoom
  <2>2. /\ HandlerOK(h) /\ h \in Handler /\ h.s \in Sessions
        /\ h.op \in {"join"} /\ h.pc = "ReadRoom"
    BY <2>1, AtFacts DEF TypeOK, Handler
  <2>3. h.c \in Codes
    BY <2>2, LocatedFacts DEF Located, Pcs
  <2>4. meta[h.c].count \in Int /\ [h.m EXCEPT !.count = meta[h.c].count] \in Room
    BY <2>2, <2>3, KeyValues DEF Handler, Room
  <2> DEFINE g == [h EXCEPT !.pc = "ReadHolder", !.m.count = meta[h.c].count]
  <2>5. g \in Handler /\ Moved(h, g, "ReadHolder", h.c, h.old, h.o)
    <3>1. g \in Handler
      BY <2>2, <2>3, <2>4, Zenon DEF Handler, Pcs
    <3>2. Moved(h, g, "ReadHolder", h.c, h.old, h.o)
      BY <2>2, <2>3, <2>4 DEF Handler, Pcs, Moved
    <3> QED
      BY <3>1, <3>2
  <2>6. Wait(k, g) /\ UNCHANGED <<keys, sockets, view>>
    BY <1>3 DEF JoinReadRoom
  <2> HIDE DEF g
  <2>7. HandlerOK(g)
    BY <2>2, <2>3, <2>4, <2>5 DEF HandlerOK, Moved, Located, Naming, Pcs, Leaving
  <2> QED
    BY <2>1, <2>6, <2>7, ReadStep
<1>4. CASE JoinReadHolder(k)
  <2>1. At(k, {"join"}, "ReadHolder")
    BY <1>4 DEF JoinReadHolder
  <2>2. /\ HandlerOK(h) /\ h \in Handler /\ h.s \in Sessions
        /\ h.op \in {"join"} /\ h.pc = "ReadHolder"
    BY <2>1, AtFacts DEF TypeOK, Handler
  <2>3. h.c \in Codes
    BY <2>2, LocatedFacts DEF Located, Pcs
  <2> DEFINE g == [h EXCEPT !.pc = "CommitJoin"]
  <2>4. g \in Handler /\ Moved(h, g, "CommitJoin", h.c, h.old, h.o)
    BY <2>2, <2>3, SetPc DEF Pcs
  <2>5. Wait(k, g) /\ UNCHANGED <<keys, sockets, view>>
    BY <1>4 DEF JoinReadHolder
  <2> HIDE DEF g
  <2>6. HandlerOK(g)
    BY <2>2, <2>3, <2>4 DEF HandlerOK, Moved, Located, Naming, Pcs, Leaving
  <2> QED
    BY <2>1, <2>5, <2>6, ReadStep
<1>5. CASE SnapRoom(k)
  <2>1. At(k, {"join"}, "SnapRoom")
    BY <1>5 DEF SnapRoom
  <2>2. /\ HandlerOK(h) /\ h \in Handler /\ h.s \in Sessions
        /\ h.op \in {"join"} /\ h.pc = "SnapRoom"
    BY <2>1, AtFacts DEF TypeOK, Handler
  <2>3. h.c \in Codes
    BY <2>2, LocatedFacts DEF Located, Pcs
  <2>4. meta[h.c] \in Room
    BY <2>2, <2>3, KeyValues
  <2> DEFINE g == [h EXCEPT !.pc = "SnapOrder", !.m = meta[h.c]]
  <2>5. g \in Handler /\ Moved(h, g, "SnapOrder", h.c, h.old, h.o)
    <3>1. g \in Handler
      BY <2>2, <2>3, <2>4, Zenon DEF Handler, Pcs
    <3>2. Moved(h, g, "SnapOrder", h.c, h.old, h.o)
      BY <2>2, <2>3, <2>4 DEF Handler, Pcs, Moved
    <3> QED
      BY <3>1, <3>2
  <2>6. Wait(k, g) /\ UNCHANGED <<keys, sockets, view>>
    BY <1>5 DEF SnapRoom
  <2> HIDE DEF g
  <2>7. HandlerOK(g)
    BY <2>2, <2>3, <2>4, <2>5 DEF HandlerOK, Moved, Located, Naming, Pcs, Leaving
  <2> QED
    BY <2>1, <2>6, <2>7, ReadStep
<1>6. CASE SnapOrder(k)
  <2>1. At(k, {"join"}, "SnapOrder")
    BY <1>6 DEF SnapOrder
  <2>2. /\ HandlerOK(h) /\ h \in Handler /\ h.s \in Sessions
        /\ h.op \in {"join"} /\ h.pc = "SnapOrder"
    BY <2>1, AtFacts DEF TypeOK, Handler
  <2>3. h.c \in Codes
    BY <2>2, LocatedFacts DEF Located, Pcs
  <2>4. order[h.c] \in [Sessions -> Nat]
    BY <2>2, <2>3, KeyValues
  <2> DEFINE g == [h EXCEPT !.pc = "SnapParticipants", !.q = order[h.c]]
  <2>5. g \in Handler /\ Moved(h, g, "SnapParticipants", h.c, h.old, h.o)
    BY <2>2, <2>3, <2>4, SetOrder DEF Pcs
  <2>6. Wait(k, g) /\ UNCHANGED <<keys, sockets, view>>
    BY <1>6 DEF SnapOrder
  <2> HIDE DEF g
  <2>7. HandlerOK(g)
    BY <2>2, <2>3, <2>4, <2>5 DEF HandlerOK, Moved, Located, Naming, Pcs, Leaving
  <2> QED
    BY <2>1, <2>6, <2>7, ReadStep
<1>7. CASE SnapParticipants(k)
  <2>1. At(k, {"join"}, "SnapParticipants")
    BY <1>7 DEF SnapParticipants
  <2>2. /\ HandlerOK(h) /\ h \in Handler /\ h.s \in Sessions
        /\ h.op \in {"join"} /\ h.pc = "SnapParticipants"
    BY <2>1, AtFacts DEF TypeOK, Handler
  <2>3. h.c \in Codes
    BY <2>2, LocatedFacts DEF Located, Pcs
  <2>4. NoOrder \in [Sessions -> Nat]
       /\ [s \in Sessions |-> IF h.q[s] = 0 THEN Nil ELSE parts[h.c][s]] \in [Sessions -> Participant \cup {Nil}]
    BY <2>2, <2>3, KeyValues DEF NoOrder
  <2> DEFINE g == [h EXCEPT !.pc = "SnapState", !.q = NoOrder,
                    !.p = [s \in Sessions |-> IF h.q[s] = 0 THEN Nil ELSE parts[h.c][s]]]
  <2>5. g \in Handler /\ Moved(h, g, "SnapState", h.c, h.old, h.o)
    <3>1. g \in Handler
      BY <2>2, <2>3, <2>4, Zenon DEF Handler, Pcs
    <3>2. Moved(h, g, "SnapState", h.c, h.old, h.o)
      BY <2>2, <2>3, <2>4 DEF Handler, Pcs, Moved
    <3> QED
      BY <3>1, <3>2
  <2>6. Wait(k, g) /\ UNCHANGED <<keys, sockets, view>>
    BY <1>7 DEF SnapParticipants
  <2> HIDE DEF g
  <2>7. HandlerOK(g)
    BY <2>2, <2>3, <2>4, <2>5 DEF HandlerOK, Moved, Located, Naming, Pcs, Leaving
  <2> QED
    BY <2>1, <2>6, <2>7, ReadStep
<1>8. CASE RequireSession(k)
  <2>1. At(k, {"leave", "disconnect", "rename", "take", "settings", "params", "avatar"}, "RequireSession")
    BY <1>8 DEF RequireSession
  <2>2. /\ HandlerOK(h) /\ h \in Handler /\ h.s \in Sessions
        /\ h.op \in {"leave", "disconnect", "rename", "take", "settings", "params", "avatar"}
        /\ h.pc = "RequireSession"
    BY <2>1, AtFacts DEF TypeOK, Handler
  <2>3. sess[h.s].room \in Codes
    BY <2>1, <2>2, AtFacts, KeyValues DEF TypeOK, KeysTypeOK, Session, Refused
  <2>4. CASE h.op \in Leaving
    <3> DEFINE g == [h EXCEPT !.c = sess[h.s].room, !.pc = "ReadParticipant"]
    <3>1. g \in Handler /\ Moved(h, g, "ReadParticipant", sess[h.s].room, h.old, h.o)
      BY <2>2, <2>3, <2>4, SetRoom DEF Pcs
    <3>2. Wait(k, g) /\ UNCHANGED <<keys, sockets, view>>
      BY <1>8, <2>2, <2>4 DEF RequireSession, Leaving
    <3> HIDE DEF g
    <3>3. HandlerOK(g)
      BY <2>2, <2>3, <2>4, <3>1, CodesAssumption DEF HandlerOK, Moved, Located, Naming, Pcs, Leaving
    <3> QED
      BY <2>1, <3>2, <3>3, ReadStep
  <2>5. CASE h.op = "rename"
    <3> DEFINE g == [h EXCEPT !.c = sess[h.s].room, !.pc = "ReadHolder"]
    <3>1. g \in Handler /\ Moved(h, g, "ReadHolder", sess[h.s].room, h.old, h.o)
      BY <2>2, <2>3, <2>5, SetRoom DEF Pcs
    <3>2. Wait(k, g) /\ UNCHANGED <<keys, sockets, view>>
      BY <1>8, <2>2, <2>5 DEF RequireSession, Leaving
    <3> HIDE DEF g
    <3>3. HandlerOK(g)
      BY <2>2, <2>3, <2>5, <3>1, CodesAssumption DEF HandlerOK, Moved, Located, Naming, Pcs, Leaving
    <3> QED
      BY <2>1, <3>2, <3>3, ReadStep
  <2>6. CASE h.op = "avatar"
    <3> DEFINE g == [h EXCEPT !.c = sess[h.s].room, !.pc = "CommitSessionAvatar"]
    <3>1. g \in Handler /\ Moved(h, g, "CommitSessionAvatar", sess[h.s].room, h.old, h.o)
      BY <2>2, <2>3, <2>6, SetRoom DEF Pcs
    <3>2. Wait(k, g) /\ UNCHANGED <<keys, sockets, view>>
      BY <1>8, <2>2, <2>6 DEF RequireSession, Leaving
    <3> HIDE DEF g
    <3>3. HandlerOK(g)
      BY <2>2, <2>3, <2>6, <3>1, CodesAssumption DEF HandlerOK, Moved, Located, Naming, Pcs, Leaving
    <3> QED
      BY <2>1, <3>2, <3>3, ReadStep
  <2>7. CASE h.op \in {"take", "settings", "params"}
    <3> DEFINE g == [h EXCEPT !.c = sess[h.s].room, !.pc = "ReadRoom"]
    <3>1. g \in Handler /\ Moved(h, g, "ReadRoom", sess[h.s].room, h.old, h.o)
      BY <2>2, <2>3, <2>7, SetRoom DEF Pcs
    <3>2. Wait(k, g) /\ UNCHANGED <<keys, sockets, view>>
      BY <1>8, <2>2, <2>7 DEF RequireSession, Leaving
    <3> HIDE DEF g
    <3>3. HandlerOK(g)
      BY <2>2, <2>3, <2>7, <3>1, CodesAssumption DEF HandlerOK, Moved, Located, Naming, Pcs, Leaving
    <3> QED
      BY <2>1, <3>2, <3>3, ReadStep
  <2> QED
    BY <2>2, <2>4, <2>5, <2>6, <2>7 DEF Leaving
<1>9. CASE LeaveReadParticipant(k)
  <2>1. At(k, Leaving, "ReadParticipant")
    BY <1>9 DEF LeaveReadParticipant
  <2>2. /\ HandlerOK(h) /\ h \in Handler /\ h.s \in Sessions
        /\ h.op \in Leaving /\ h.pc = "ReadParticipant"
    BY <2>1, AtFacts DEF TypeOK, Handler
  <2>3. h.c \in Codes
    BY <2>2, LocatedFacts DEF Located, Pcs
  <2>4. parts[h.c][h.s].name \in Names
    BY <2>1, <2>2, <2>3, AtFacts, KeyValues DEF TypeOK, Refused, Leaving
  <2> DEFINE g == [h EXCEPT !.pc = "ReadRoom", !.old = parts[h.c][h.s].name]
  <2>5. g \in Handler /\ Moved(h, g, "ReadRoom", h.c, parts[h.c][h.s].name, h.o)
    BY <2>2, <2>3, <2>4, SetName DEF Pcs
  <2>6. Wait(k, g) /\ UNCHANGED <<keys, sockets, view>>
    BY <1>9 DEF LeaveReadParticipant
  <2> HIDE DEF g
  <2>7. HandlerOK(g)
    BY <2>2, <2>3, <2>4, <2>5, NamesAssumption DEF HandlerOK, Moved, Located, Naming, Pcs, Leaving
  <2> QED
    BY <2>1, <2>6, <2>7, ReadStep
<1>10. CASE LeaveReadRoom(k)
  <2>1. At(k, Leaving, "ReadRoom")
    BY <1>10 DEF LeaveReadRoom
  <2>2. /\ HandlerOK(h) /\ h \in Handler /\ h.s \in Sessions
        /\ h.op \in Leaving /\ h.pc = "ReadRoom"
    BY <2>1, AtFacts DEF TypeOK, Handler
  <2>3. h.c \in Codes
    BY <2>2, LocatedFacts DEF Located, Pcs
  <2>4. Plus(meta[h.c].count, -1) \in Int /\ [h.m EXCEPT !.count = Plus(meta[h.c].count, -1)] \in Room
    BY <2>2, <2>3, KeyValues, PlusTyped DEF Handler, Room
  <2>5. CASE Plus(meta[h.c].count, -1) # 0 /\ meta[h.c].owner = h.s
    <3> DEFINE g == [h EXCEPT !.pc = "ReadOrder", !.m.count = Plus(meta[h.c].count, -1)]
    <3>1. g \in Handler /\ Moved(h, g, "ReadOrder", h.c, h.old, h.o)
      BY <2>2, <2>3, <2>4, <2>5 DEF Handler, Pcs, Moved
    <3>2. Wait(k, g) /\ UNCHANGED <<keys, sockets, view>>
      BY <1>10, <2>2, <2>5 DEF LeaveReadRoom, Leaving
    <3> HIDE DEF g
    <3>3. HandlerOK(g)
      BY <2>2, <2>3, <2>4, <2>5, <3>1 DEF HandlerOK, Moved, Located, Naming, Pcs, Leaving
    <3> QED
      BY <2>1, <3>2, <3>3, ReadStep
  <2>6. CASE ~ (Plus(meta[h.c].count, -1) # 0 /\ meta[h.c].owner = h.s)
    <3> DEFINE g == [h EXCEPT !.pc = "CommitLeave", !.m.count = Plus(meta[h.c].count, -1)]
    <3>1. g \in Handler /\ Moved(h, g, "CommitLeave", h.c, h.old, h.o)
      BY <2>2, <2>3, <2>4, <2>6 DEF Handler, Pcs, Moved
    <3>2. Wait(k, g) /\ UNCHANGED <<keys, sockets, view>>
      BY <1>10, <2>2, <2>6 DEF LeaveReadRoom, Leaving
    <3> HIDE DEF g
    <3>3. HandlerOK(g)
      BY <2>2, <2>3, <2>4, <2>6, <3>1 DEF HandlerOK, Moved, Located, Naming, Pcs, Leaving
    <3> QED
      BY <2>1, <3>2, <3>3, ReadStep
  <2> QED
    BY <2>2, <2>5, <2>6 DEF Leaving
<1>11. CASE LeaveReadOrder(k)
  <2>1. At(k, Leaving, "ReadOrder")
    BY <1>11 DEF LeaveReadOrder
  <2>2. /\ HandlerOK(h) /\ h \in Handler /\ h.s \in Sessions
        /\ h.op \in Leaving /\ h.pc = "ReadOrder"
    BY <2>1, AtFacts DEF TypeOK, Handler
  <2>3. h.c \in Codes
    BY <2>2, LocatedFacts DEF Located, Pcs
  <2>4. order[h.c] \in [Sessions -> Nat]
    BY <2>2, <2>3, KeyValues
  <2> DEFINE g == [h EXCEPT !.pc = "ReadKeys", !.q = order[h.c]]
  <2>5. g \in Handler /\ Moved(h, g, "ReadKeys", h.c, h.old, h.o)
    BY <2>2, <2>3, <2>4, SetOrder DEF Pcs
  <2>6. Wait(k, g) /\ UNCHANGED <<keys, sockets, view>>
    BY <1>11 DEF LeaveReadOrder
  <2> HIDE DEF g
  <2>7. HandlerOK(g)
    BY <2>2, <2>3, <2>4, <2>5 DEF HandlerOK, Moved, Located, Naming, Pcs, Leaving
  <2> QED
    BY <2>1, <2>6, <2>7, ReadStep
<1>12. CASE LeaveReadKeys(k)
  <2>1. At(k, Leaving, "ReadKeys") /\ UNCHANGED <<keys, sockets, view>>
    BY <1>12 DEF LeaveReadKeys
  <2>2. HandlerOK(h) /\ h.op \in Leaving /\ h.pc = "ReadKeys"
    BY <2>1, AtFacts DEF TypeOK
  <2>3. PICK o \in Sessions : Wait(k, [h EXCEPT !.pc = "ReadNewOwner", !.q = NoOrder, !.o = o])
    BY <1>12 DEF LeaveReadKeys, Present
  <2>4. NoOrder \in [Sessions -> Nat]
    BY DEF NoOrder
  <2> DEFINE g == [h EXCEPT !.pc = "ReadNewOwner", !.q = NoOrder, !.o = o]
  <2>5. g \in Handler /\ Moved(h, g, "ReadNewOwner", h.c, h.old, o) /\ Wait(k, g)
    BY <2>2, <2>3, <2>4, SetNext DEF HandlerOK, Pcs
  <2> HIDE DEF g
  <2>6. HandlerOK(g)
    BY <2>2, <2>5, SessionsAssumption DEF HandlerOK, Moved, Located, Naming, Pcs, Leaving
  <2> QED
    BY <2>1, <2>5, <2>6, ReadStep
<1>13. CASE LeaveReadNewOwner(k)
  <2>1. At(k, Leaving, "ReadNewOwner")
    BY <1>13 DEF LeaveReadNewOwner
  <2>2. /\ HandlerOK(h) /\ h \in Handler /\ h.s \in Sessions
        /\ h.op \in Leaving /\ h.pc = "ReadNewOwner"
    BY <2>1, AtFacts DEF TypeOK, Handler
  <2>3. h.c \in Codes
    BY <2>2, LocatedFacts DEF Located, Pcs
  <2>4. parts[h.c][h.o] \in Participant \cup {Nil}
    BY <2>2, <2>3, KeyValues DEF HandlerOK, Handler
  <2> DEFINE g == [h EXCEPT !.pc = "CommitLeave", !.np = parts[h.c][h.o]]
  <2>5. g \in Handler /\ Moved(h, g, "CommitLeave", h.c, h.old, h.o)
    BY <2>2, <2>4, SetNewOwner DEF Pcs
  <2>6. Wait(k, g) /\ UNCHANGED <<keys, sockets, view>>
    BY <1>13 DEF LeaveReadNewOwner
  <2> HIDE DEF g
  <2>7. HandlerOK(g)
    BY <2>2, <2>3, <2>5 DEF HandlerOK, Moved, Located, Naming, Pcs, Leaving
  <2> QED
    BY <2>1, <2>6, <2>7, ReadStep
<1>14. CASE RenameReadHolder(k)
  <2>1. At(k, {"rename"}, "ReadHolder")
    BY <1>14 DEF RenameReadHolder
  <2>2. /\ HandlerOK(h) /\ h \in Handler /\ h.s \in Sessions
        /\ h.op \in {"rename"} /\ h.pc = "ReadHolder"
    BY <2>1, AtFacts DEF TypeOK, Handler
  <2>3. h.c \in Codes
    BY <2>2, LocatedFacts DEF Located, Pcs
  <2> DEFINE g == [h EXCEPT !.pc = "ReadParticipant"]
  <2>4. g \in Handler /\ Moved(h, g, "ReadParticipant", h.c, h.old, h.o)
    BY <2>2, <2>3, SetPc DEF Pcs
  <2>5. Wait(k, g) /\ UNCHANGED <<keys, sockets, view>>
    BY <1>14 DEF RenameReadHolder
  <2> HIDE DEF g
  <2>6. HandlerOK(g)
    BY <2>2, <2>3, <2>4 DEF HandlerOK, Moved, Located, Naming, Pcs, Leaving
  <2> QED
    BY <2>1, <2>5, <2>6, ReadStep
<1>15. CASE RenameReadParticipant(k)
  <2>1. At(k, {"rename"}, "ReadParticipant")
    BY <1>15 DEF RenameReadParticipant
  <2>2. /\ HandlerOK(h) /\ h \in Handler /\ h.s \in Sessions
        /\ h.op \in {"rename"} /\ h.pc = "ReadParticipant"
    BY <2>1, AtFacts DEF TypeOK, Handler
  <2>3. h.c \in Codes
    BY <2>2, LocatedFacts DEF Located, Pcs
  <2>4. parts[h.c][h.s].name \in Names /\ parts[h.c][h.s].avatar \in Avatars \cup {Nil}
    BY <2>1, <2>2, <2>3, AtFacts, KeyValues DEF TypeOK, Refused
  <2> DEFINE g == [h EXCEPT !.pc = "CommitRename", !.old = parts[h.c][h.s].name,
                                 !.a = parts[h.c][h.s].avatar]
  <2>5. g \in Handler /\ Moved(h, g, "CommitRename", h.c, parts[h.c][h.s].name, h.o)
    <3>1. g \in Handler
      BY <2>2, <2>3, <2>4, Zenon DEF Handler, Pcs
    <3>2. Moved(h, g, "CommitRename", h.c, parts[h.c][h.s].name, h.o)
      BY <2>2, <2>3, <2>4 DEF Handler, Pcs, Moved
    <3> QED
      BY <3>1, <3>2
  <2>6. Wait(k, g) /\ UNCHANGED <<keys, sockets, view>>
    BY <1>15 DEF RenameReadParticipant
  <2> HIDE DEF g
  <2>7. HandlerOK(g)
    BY <2>2, <2>3, <2>4, <2>5, NamesAssumption DEF HandlerOK, Moved, Located, Naming, Pcs, Leaving
  <2> QED
    BY <2>1, <2>6, <2>7, ReadStep
<1>16. CASE TakeReadRoom(k)
  <2>1. At(k, {"take"}, "ReadRoom")
    BY <1>16 DEF TakeReadRoom
  <2>2. /\ HandlerOK(h) /\ h \in Handler /\ h.s \in Sessions
        /\ h.op \in {"take"} /\ h.pc = "ReadRoom"
    BY <2>1, AtFacts DEF TypeOK, Handler
  <2>3. h.c \in Codes
    BY <2>2, LocatedFacts DEF Located, Pcs
  <2> DEFINE g == [h EXCEPT !.pc = "ReadAvatar"]
  <2>4. g \in Handler /\ Moved(h, g, "ReadAvatar", h.c, h.old, h.o)
    BY <2>2, <2>3, SetPc DEF Pcs
  <2>5. Wait(k, g) /\ UNCHANGED <<keys, sockets, view>>
    BY <1>16 DEF TakeReadRoom
  <2> HIDE DEF g
  <2>6. HandlerOK(g)
    BY <2>2, <2>3, <2>4 DEF HandlerOK, Moved, Located, Naming, Pcs, Leaving
  <2> QED
    BY <2>1, <2>5, <2>6, ReadStep
<1>17. CASE TakeReadAvatar(k)
  <2>1. At(k, {"take"}, "ReadAvatar")
    BY <1>17 DEF TakeReadAvatar
  <2>2. /\ HandlerOK(h) /\ h \in Handler /\ h.s \in Sessions
        /\ h.op \in {"take"} /\ h.pc = "ReadAvatar"
    BY <2>1, AtFacts DEF TypeOK, Handler
  <2>3. h.c \in Codes
    BY <2>2, LocatedFacts DEF Located, Pcs
  <2>4. sess[h.s].avatar \in Avatars \cup {Nil}
    BY <2>2, <2>3, KeyValues
  <2> DEFINE g == [h EXCEPT !.pc = "CommitOwner", !.a = sess[h.s].avatar]
  <2>5. g \in Handler /\ Moved(h, g, "CommitOwner", h.c, h.old, h.o)
    <3>1. g \in Handler
      BY <2>2, <2>3, <2>4, Zenon DEF Handler, Pcs
    <3>2. Moved(h, g, "CommitOwner", h.c, h.old, h.o)
      BY <2>2, <2>3, <2>4 DEF Handler, Pcs, Moved
    <3> QED
      BY <3>1, <3>2
  <2>6. Wait(k, g) /\ UNCHANGED <<keys, sockets, view>>
    BY <1>17 DEF TakeReadAvatar
  <2> HIDE DEF g
  <2>7. HandlerOK(g)
    BY <2>2, <2>3, <2>4, <2>5 DEF HandlerOK, Moved, Located, Naming, Pcs, Leaving
  <2> QED
    BY <2>1, <2>6, <2>7, ReadStep
<1>18. CASE SettingsReadRoom(k)
  <2>1. At(k, {"settings"}, "ReadRoom")
    BY <1>18 DEF SettingsReadRoom
  <2>2. /\ HandlerOK(h) /\ h \in Handler /\ h.s \in Sessions
        /\ h.op \in {"settings"} /\ h.pc = "ReadRoom"
    BY <2>1, AtFacts DEF TypeOK, Handler
  <2>3. h.c \in Codes
    BY <2>2, LocatedFacts DEF Located, Pcs
  <2> DEFINE g == [h EXCEPT !.pc = "CommitSettings"]
  <2>4. g \in Handler /\ Moved(h, g, "CommitSettings", h.c, h.old, h.o)
    BY <2>2, <2>3, SetPc DEF Pcs
  <2>5. Wait(k, g) /\ UNCHANGED <<keys, sockets, view>>
    BY <1>18 DEF SettingsReadRoom
  <2> HIDE DEF g
  <2>6. HandlerOK(g)
    BY <2>2, <2>3, <2>4 DEF HandlerOK, Moved, Located, Naming, Pcs, Leaving
  <2> QED
    BY <2>1, <2>5, <2>6, ReadStep
<1>19. CASE ParamsReadRoom(k)
  <2>1. At(k, {"params"}, "ReadRoom")
    BY <1>19 DEF ParamsReadRoom
  <2>2. /\ HandlerOK(h) /\ h \in Handler /\ h.s \in Sessions
        /\ h.op \in {"params"} /\ h.pc = "ReadRoom"
    BY <2>1, AtFacts DEF TypeOK, Handler
  <2>3. h.c \in Codes
    BY <2>2, LocatedFacts DEF Located, Pcs
  <2> DEFINE g == [h EXCEPT !.pc = "CommitState"]
  <2>4. g \in Handler /\ Moved(h, g, "CommitState", h.c, h.old, h.o)
    BY <2>2, <2>3, SetPc DEF Pcs
  <2>5. Wait(k, g) /\ UNCHANGED <<keys, sockets, view>>
    BY <1>19 DEF ParamsReadRoom
  <2> HIDE DEF g
  <2>6. HandlerOK(g)
    BY <2>2, <2>3, <2>4 DEF HandlerOK, Moved, Located, Naming, Pcs, Leaving
  <2> QED
    BY <2>1, <2>5, <2>6, ReadStep
<1>20. CASE AvatarReadParticipant(k)
  <2>1. At(k, {"avatar"}, "ReadParticipant")
    BY <1>20 DEF AvatarReadParticipant
  <2>2. /\ HandlerOK(h) /\ h \in Handler /\ h.s \in Sessions
        /\ h.op \in {"avatar"} /\ h.pc = "ReadParticipant"
    BY <2>1, AtFacts DEF TypeOK, Handler
  <2>3. h.c \in Codes
    BY <2>2, LocatedFacts DEF Located, Pcs
  <2>4. parts[h.c][h.s] # Nil => parts[h.c][h.s].name \in Names
    BY <2>2, <2>3, KeyValues
  <2>5. CASE parts[h.c][h.s] = Nil
    <3> DEFINE g == [h EXCEPT !.pc = "ReadRoom"]
    <3>1. g \in Handler /\ Moved(h, g, "ReadRoom", h.c, h.old, h.o)
      BY <2>2, <2>3, <2>4, <2>5, SetPc DEF Pcs
    <3>2. Wait(k, g) /\ UNCHANGED <<keys, sockets, view>>
      BY <1>20, <2>2, <2>5 DEF AvatarReadParticipant, Leaving
    <3> HIDE DEF g
    <3>3. HandlerOK(g)
      BY <2>2, <2>3, <2>4, <2>5, <3>1 DEF HandlerOK, Moved, Located, Naming, Pcs, Leaving
    <3> QED
      BY <2>1, <3>2, <3>3, ReadStep
  <2>6. CASE parts[h.c][h.s] # Nil
    <3> DEFINE g == [h EXCEPT !.pc = "CommitParticipantAvatar", !.old = parts[h.c][h.s].name]
    <3>1. g \in Handler /\ Moved(h, g, "CommitParticipantAvatar", h.c, parts[h.c][h.s].name, h.o)
      BY <2>2, <2>3, <2>4, <2>6, SetName DEF Pcs
    <3>2. Wait(k, g) /\ UNCHANGED <<keys, sockets, view>>
      BY <1>20, <2>2, <2>6 DEF AvatarReadParticipant, Leaving
    <3> HIDE DEF g
    <3>3. HandlerOK(g)
      BY <2>2, <2>3, <2>4, <2>6, <3>1, NamesAssumption DEF HandlerOK, Moved, Located, Naming, Pcs, Leaving
    <3> QED
      BY <2>1, <3>2, <3>3, ReadStep
  <2> QED
    BY <2>2, <2>5, <2>6 DEF Leaving
<1>21. CASE AvatarReadRoom(k)
  <2>1. At(k, {"avatar"}, "ReadRoom")
    BY <1>21 DEF AvatarReadRoom
  <2>2. /\ HandlerOK(h) /\ h \in Handler /\ h.s \in Sessions
        /\ h.op \in {"avatar"} /\ h.pc = "ReadRoom"
    BY <2>1, AtFacts DEF TypeOK, Handler
  <2>3. h.c \in Codes
    BY <2>2, LocatedFacts DEF Located, Pcs
  <2>4. CASE meta[h.c].owner = h.s
    <3> DEFINE g == [h EXCEPT !.pc = "CommitOwnerAvatar"]
    <3>1. g \in Handler /\ Moved(h, g, "CommitOwnerAvatar", h.c, h.old, h.o)
      BY <2>2, <2>3, <2>4, SetPc DEF Pcs
    <3>2. Wait(k, g) /\ UNCHANGED <<keys, sockets, view>>
      BY <1>21, <2>2, <2>4 DEF AvatarReadRoom, Leaving
    <3> HIDE DEF g
    <3>3. HandlerOK(g)
      BY <2>2, <2>3, <2>4, <3>1 DEF HandlerOK, Moved, Located, Naming, Pcs, Leaving
    <3> QED
      BY <2>1, <3>2, <3>3, ReadStep
  <2>5. CASE meta[h.c].owner # h.s
    <3>1. HandlerOK(AvatarUpdated(h))
      BY <2>2, <2>3, AvatarUpdatedOK
    <3>2. Wait(k, AvatarUpdated(h)) /\ UNCHANGED <<keys, sockets, view>>
      BY <1>21, <2>5 DEF AvatarReadRoom
    <3> QED
      BY <2>1, <3>1, <3>2, ReadStep
  <2> QED
    BY <2>2, <2>4, <2>5 DEF Leaving
<1> QED
  BY <1>1, <1>2, <1>3, <1>4, <1>5, <1>6, <1>7, <1>8, <1>9, <1>10,
     <1>11, <1>12, <1>13, <1>14, <1>15, <1>16, <1>17, <1>18, <1>19, <1>20, <1>21

-----------------------------------------------------------------------------
(* Views and events.                                                       *)

\* The view a room_joined answer gives.
LEMMA JoinedTyped ==
  ASSUME NEW c \in Codes, NEW owner \in Sessions \cup {Nil},
         NEW list \in [Sessions -> Participant \cup {Nil}],
         NEW instant \in BOOLEAN, NEW avatar \in Avatars \cup {Nil}
  PROVE  /\ applyRoomJoined(c, owner, list, instant, avatar) \in View
         /\ applyRoomJoined(c, owner, list, instant, avatar).room = c
  BY DEF applyRoomJoined, View, Participant

\* The view outside rooms.
LEMMA NoViewTyped == NoView \in View /\ NoView.room = Nil
  BY TakeoverAssumption DEF NoView, View

\* An event keeps a view a view, and moves the client to another room only
\* when it tells of the client's own departure.
LEMMA AppliedTyped ==
  ASSUME NEW self \in Sessions, NEW v \in View, NEW m \in Message,
         m.type \in {"joined", "name"} => m.n # Nil
  PROVE  /\ Applied(self, v, m) \in View
         /\ (m.type = "left" => m.s # self)
              => Applied(self, v, m).room = v.room
<1> DEFINE P == [name : Names, avatar : Avatars \cup {Nil}]
<1>1. /\ m.s \in Sessions /\ m.a \in Avatars \cup {Nil} /\ m.b \in BOOLEAN
      /\ v.list \in [Sessions -> P \cup {Nil}]
      /\ v.list[m.s] # Nil => v.list[m.s] \in P
  BY DEF Message, View
<1>2. CASE m.type = "joined"
  <2>1. [name |-> m.n, avatar |-> m.a] \in P
    BY <1>1, <1>2 DEF Message
  <2>2. applyParticipantJoined(v, m) \in View /\ applyParticipantJoined(v, m).room = v.room
    BY <1>1, <2>1 DEF applyParticipantJoined, View
  <2> QED
    BY <1>2, <2>2 DEF Applied
<1>3. CASE m.type = "left"
  <2>1. applyParticipantLeft(self, v, m) \in View
    BY <1>1, NoViewTyped DEF applyParticipantLeft, View
  <2>2. m.s # self => applyParticipantLeft(self, v, m).room = v.room
    BY DEF applyParticipantLeft, View
  <2> QED
    BY <1>3, <2>1, <2>2 DEF Applied
<1>4. CASE m.type = "name"
  <2>1. v.list[m.s] # Nil => [v.list[m.s] EXCEPT !.name = m.n] \in P
    BY <1>1, <1>4 DEF Message
  <2>2. applyDisplayNameUpdated(v, m) \in View /\ applyDisplayNameUpdated(v, m).room = v.room
    BY <1>1, <2>1 DEF applyDisplayNameUpdated, View
  <2> QED
    BY <1>4, <2>2 DEF Applied
<1>5. CASE m.type = "owner"
  <2>1. applyOwnerChanged(v, m) \in View /\ applyOwnerChanged(v, m).room = v.room
    BY <1>1 DEF applyOwnerChanged, View
  <2> QED
    BY <1>5, <2>1 DEF Applied
<1>6. CASE m.type = "settings"
  <2>1. applyRoomSettingsUpdated(v, m) \in View /\ applyRoomSettingsUpdated(v, m).room = v.room
    BY <1>1 DEF applyRoomSettingsUpdated, View
  <2> QED
    BY <1>6, <2>1 DEF Applied
<1>7. CASE m.type = "avatar"
  <2>1. v.list[m.s] # Nil => [v.list[m.s] EXCEPT !.avatar = m.a] \in P
    BY <1>1
  <2>2. applyAvatarIdUpdated(v, m) \in View /\ applyAvatarIdUpdated(v, m).room = v.room
    BY <1>1, <2>1 DEF applyAvatarIdUpdated, View
  <2> QED
    BY <1>7, <2>2 DEF Applied
<1>8. CASE m.type = "params"
  BY <1>8 DEF Applied
<1> QED
  BY <1>2, <1>3, <1>4, <1>5, <1>6, <1>7, <1>8 DEF Message

-----------------------------------------------------------------------------
(* The steps that write.                                                   *)

\* The parts a writing step has to show.
LEMMA WriteStep ==
  ASSUME TypeOK, KeysTypeOK', FlightOK', open' = open,
         wsRoom' \in [Sessions -> Codes \cup {Nil}], wsName' = wsName,
         view' \in [Sessions -> View]
  PROVE  TypeOK'
  BY DEF TypeOK

\* An answer gives the client a view.
LEMMA DeliverTyped ==
  ASSUME TypeOK, NEW s \in Sessions, NEW v \in View, Deliver(s, v)
  PROVE  view' \in [Sessions -> View]
  BY DEF TypeOK, Deliver

\* Every step that writes keeps TypeOK and the join orders.
LEMMA CommitsTyped ==
  ASSUME TypeOK, NEW k,
         \/ CommitCreate(k) \/ CommitJoin(k) \/ SnapState(k) \/ CommitLeave(k)
         \/ CommitRename(k) \/ CommitOwner(k) \/ CommitSettings(k) \/ CommitState(k)
         \/ CommitSessionAvatar(k) \/ CommitParticipantAvatar(k) \/ CommitOwnerAvatar(k)
  PROVE  TypeOK' /\ (OrderedArePresent => OrderedArePresent')
<1> DEFINE h == flight[k]
<1>0. KeysTypeOK /\ FlightOK
  BY DEF TypeOK
<1>1. CASE CommitCreate(k)
  <2>1. At(k, {"create"}, "CommitCreate")
    BY <1>1 DEF CommitCreate
  <2>2. /\ k \in DOMAIN flight /\ HandlerOK(h) /\ h \in Handler /\ h.s \in Sessions
        /\ h.pc = "CommitCreate" /\ h.op = "create" /\ h.b \in BOOLEAN
    BY <1>0, <2>1, AtFacts DEF Handler
  <2>3. h.c \in Codes /\ h.n \in Names
    BY <2>2, LocatedFacts DEF Located, Pcs, HandlerOK, Handler
  <2>4. KeysTypeOK' /\ (OrderedArePresent => OrderedArePresent')
    BY <1>0, <1>1, <2>2, <2>3, AddRoomWrites DEF CommitCreate
  <2>5. FlightOK'
    BY <1>0, <1>1, <2>2, ReturnKeeps DEF CommitCreate
  <2>6. wsRoom' \in [Sessions -> Codes \cup {Nil}]
    BY <1>1, <2>2, <2>3 DEF CommitCreate, TypeOK
  <2> DEFINE list == [NoParts EXCEPT ![h.s] = [name |-> h.n, avatar |-> Nil]]
             v == applyRoomJoined(h.c, h.s, list, h.b, Nil)
  <2>7. list \in [Sessions -> Participant \cup {Nil}]
    BY <2>2, <2>3 DEF NoParts, Participant
  <2>8. v \in View
    BY <2>2, <2>3, <2>7, JoinedTyped
  <2>9. view' \in [Sessions -> View]
    BY <1>1, <2>2, <2>8, DeliverTyped DEF CommitCreate
  <2> QED
    BY <1>1, <2>4, <2>5, <2>6, <2>9, WriteStep DEF CommitCreate
<1>2. CASE CommitJoin(k)
  <2>1. At(k, {"join"}, "CommitJoin")
    BY <1>2 DEF CommitJoin
  <2>2. /\ k \in DOMAIN flight /\ (Fifo => k = 1) /\ HandlerOK(h) /\ h \in Handler
        /\ h.s \in Sessions /\ h.pc = "CommitJoin" /\ h.op = "join" /\ h.m.count \in Int
    BY <1>0, <2>1, AtFacts DEF Handler, Room
  <2>3. h.c \in Codes /\ h.n \in Names
    BY <2>2, LocatedFacts DEF Located, Pcs, HandlerOK, Handler
  <2>4. KeysTypeOK' /\ (OrderedArePresent => OrderedArePresent')
    BY <1>0, <1>2, <2>2, <2>3, AddParticipantWrites DEF CommitJoin
  <2> DEFINE g == [h EXCEPT !.pc = "SnapRoom", !.m = NoRoom]
  <2>5. g \in Handler /\ Moved(h, g, "SnapRoom", h.c, h.old, h.o)
    <3>1. NoRoom \in Room /\ "SnapRoom" \in Pcs
      BY DEF NoRoom, Room, Pcs
    <3> QED
      BY <2>2, <3>1, SetMeta
  <2>6. Wait(k, g) /\ UNCHANGED <<sockets, view>>
    BY <1>2 DEF CommitJoin
  <2> HIDE DEF g
  <2>7. HandlerOK(g)
    BY <2>2, <2>3, <2>5, CodesAssumption DEF HandlerOK, Moved, Located, Naming, Pcs
  <2>8. FlightOK'
    BY <1>0, <2>2, <2>6, <2>7, WaitKeeps
  <2> QED
    BY <2>4, <2>6, <2>8, WriteStep DEF TypeOK, sockets
<1>3. CASE SnapState(k)
  <2>1. At(k, {"join"}, "SnapState")
    BY <1>3 DEF SnapState
  <2>2. /\ k \in DOMAIN flight /\ (Fifo => k = 1) /\ HandlerOK(h) /\ h \in Handler
        /\ h.op = "join" /\ h.pc = "SnapState" /\ h.s \in Sessions
        /\ h.p \in [Sessions -> Participant \cup {Nil}] /\ h.m \in Room
    BY <1>0, <2>1, AtFacts DEF Handler
  <2>3. h.c \in Codes
    BY <2>2, LocatedFacts DEF Located, Pcs
  <2>4. KeysTypeOK' /\ (OrderedArePresent => OrderedArePresent')
    BY <1>0, <1>3 DEF SnapState, keys, KeysTypeOK, OrderedArePresent, Present
  <2>5. FlightOK'
    <3>1. CASE h.p[h.s] = Nil
      BY <1>0, <1>3, <2>2, <3>1, ReturnKeeps DEF SnapState
    <3>2. CASE h.p[h.s] # Nil
      <4> DEFINE out == [Event("joined", h.c, h.s, h.s)
                           EXCEPT !.n = h.p[h.s].name, !.a = h.p[h.s].avatar]
      <4>1. Event("joined", h.c, h.s, h.s) \in Message
        BY <2>2, <2>3, EventTyped
      <4>2. h.p[h.s].name \in Names /\ h.p[h.s].avatar \in Avatars \cup {Nil}
        BY <2>2, <3>2 DEF Participant
      <4>3. out \in Message /\ out.type = "joined" /\ out.n # Nil
        BY <4>1, <4>2, NamesAssumption DEF Message, Event
      <4>4. Wait(k, [Started(h.op, h.s, "Broadcast") EXCEPT !.c = h.c, !.out = out])
        BY <1>3, <3>2 DEF SnapState
      <4> HIDE DEF out
      <4>5. HandlerOK([Started(h.op, h.s, "Broadcast") EXCEPT !.c = h.c, !.out = out])
        BY <2>2, <2>3, <4>3, AnnounceOK DEF Requests
      <4> QED
        BY <1>0, <2>2, <4>4, <4>5, WaitKeeps
    <3> QED
      BY <3>1, <3>2
  <2>6. wsRoom' \in [Sessions -> Codes \cup {Nil}]
    BY <1>3, <2>2, <2>3 DEF SnapState, TypeOK
  <2>7. applyRoomJoined(h.c, h.m.owner, h.p, h.m.takeover, h.m.avatar) \in View
    BY <2>2, <2>3, JoinedTyped DEF Room
  <2>8. view' \in [Sessions -> View]
    BY <1>3, <2>2, <2>7, DeliverTyped DEF SnapState
  <2> QED
    BY <1>3, <2>4, <2>5, <2>6, <2>8, WriteStep DEF SnapState
<1>4. CASE CommitLeave(k)
  <2>1. At(k, Leaving, "CommitLeave")
    BY <1>4 DEF CommitLeave
  <2>2. /\ k \in DOMAIN flight /\ (Fifo => k = 1) /\ HandlerOK(h) /\ h \in Handler
        /\ h.op \in Leaving /\ h.pc = "CommitLeave" /\ h.s \in Sessions
        /\ h.o \in Sessions \cup {Nil} /\ h.np \in Participant \cup {Nil}
        /\ h.m.count \in Int
    BY <1>0, <2>1, AtFacts DEF Handler, Room
  <2>3. h.c \in Codes /\ h.old \in Names
    BY <2>2, LocatedFacts DEF Located, Naming, Pcs, HandlerOK, Handler
  <2>4. KeysTypeOK' /\ (OrderedArePresent => OrderedArePresent')
    <3>1. CASE h.m.count = 0
      BY <1>0, <1>4, <2>2, <2>3, <3>1, DeleteRoomWrites DEF CommitLeave
    <3>2. CASE h.m.count # 0
      BY <1>0, <1>4, <2>2, <2>3, <3>2, RemoveParticipantWrites DEF CommitLeave
    <3> QED
      BY <3>1, <3>2
  <2>5. FlightOK'
    <3> DEFINE out  == Event("left", h.c, h.s, h.s)
               then == IF h.o = Nil THEN Nil ELSE Event("owner", h.c, h.o, Nil)
               g == [Started(h.op, h.s, "Broadcast") EXCEPT !.c = h.c, !.out = out, !.then = then]
    <3>1. out \in Message /\ out.type = "left" /\ out.x = out.s
      BY <2>2, <2>3, EventTyped DEF Event
    <3>2. then \in Message \cup {Nil} /\ (then # Nil => then.type = "owner")
      <4>1. CASE h.o = Nil
        BY <4>1
      <4>2. CASE h.o # Nil
        <5>1. Event("owner", h.c, h.o, Nil) \in Message
          BY <2>2, <2>3, <4>2, EventTyped
        <5> QED
          BY <4>2, <5>1 DEF Event
      <4> QED
        BY <4>1, <4>2
    <3>3. Wait(k, g)
      BY <1>4 DEF CommitLeave
    <3> HIDE DEF out, then
    <3>4. HandlerOK(g)
      BY <2>2, <2>3, <3>1, <3>2, AnnounceBothOK DEF Requests, Leaving
    <3> QED
      BY <1>0, <2>2, <3>3, <3>4, WaitKeeps
  <2>6. wsRoom' \in [Sessions -> Codes \cup {Nil}] /\ view' \in [Sessions -> View]
    <3>1. CASE h.op = "leave"
      BY <1>4, <2>2, <3>1, DeliverTyped, NoViewTyped DEF CommitLeave, TypeOK
    <3>2. CASE h.op # "leave"
      BY <1>4, <3>2 DEF CommitLeave, TypeOK
    <3> QED
      BY <3>1, <3>2
  <2> QED
    BY <1>4, <2>4, <2>5, <2>6, WriteStep DEF CommitLeave
<1>5. CASE CommitRename(k)
  <2>1. At(k, {"rename"}, "CommitRename")
    BY <1>5 DEF CommitRename
  <2>2. /\ k \in DOMAIN flight /\ (Fifo => k = 1) /\ HandlerOK(h) /\ h \in Handler
        /\ h.op = "rename" /\ h.pc = "CommitRename" /\ h.s \in Sessions
        /\ h.a \in Avatars \cup {Nil}
    BY <1>0, <2>1, AtFacts DEF Handler
  <2>3. h.c \in Codes /\ h.old \in Names /\ h.n \in Names
    BY <2>2, LocatedFacts DEF Located, Naming, Pcs, HandlerOK, Handler
  <2>4. KeysTypeOK' /\ (OrderedArePresent => OrderedArePresent')
    BY <1>0, <1>5, <2>2, <2>3, WriteNameWrites DEF CommitRename
  <2>5. FlightOK'
    <3> DEFINE out == [Event("name", h.c, h.s, Nil) EXCEPT !.n = h.n]
    <3>1. Event("name", h.c, h.s, Nil) \in Message
      BY <2>2, <2>3, EventTyped
    <3>2. out \in Message /\ out.type = "name" /\ out.n # Nil
      BY <2>3, <3>1, NamesAssumption DEF Message, Event
    <3>3. Wait(k, [Started(h.op, h.s, "Broadcast") EXCEPT !.c = h.c, !.out = out])
      BY <1>5 DEF CommitRename
    <3> HIDE DEF out
    <3>4. HandlerOK([Started(h.op, h.s, "Broadcast") EXCEPT !.c = h.c, !.out = out])
      BY <2>2, <2>3, <3>2, AnnounceOK DEF Requests
    <3> QED
      BY <1>0, <2>2, <3>3, <3>4, WaitKeeps
  <2>6. /\ wsName' \in [Sessions -> Names \cup {Nil}]
        /\ \A s \in open : wsName'[s] # Nil
    BY <1>5, <2>3, NamesAssumption DEF CommitRename, TypeOK
  <2> QED
    BY <1>5, <2>4, <2>5, <2>6 DEF CommitRename, TypeOK
<1>6. CASE CommitOwner(k)
  <2>1. At(k, {"take"}, "CommitOwner")
    BY <1>6 DEF CommitOwner
  <2>2. /\ k \in DOMAIN flight /\ (Fifo => k = 1) /\ HandlerOK(h) /\ h \in Handler
        /\ h.op = "take" /\ h.pc = "CommitOwner" /\ h.s \in Sessions
        /\ h.a \in Avatars \cup {Nil} /\ h.b \in BOOLEAN
    BY <1>0, <2>1, AtFacts DEF Handler
  <2>3. h.c \in Codes
    BY <2>2, LocatedFacts DEF Located, Pcs
  <2>4. KeysTypeOK' /\ UNCHANGED <<parts, order>>
    BY <1>0, <1>6, <2>2, <2>3, HashWrites DEF CommitOwner
  <2>5. FlightOK'
    <3> DEFINE out == Event("owner", h.c, h.s, Nil)
    <3>1. Event("owner", h.c, h.s, Nil) \in Message
      BY <2>2, <2>3, EventTyped
    <3>2. out \in Message /\ out.type = "owner"
      BY <2>2, <3>1 DEF Message, Event
    <3>3. Wait(k, [Started(h.op, h.s, "Broadcast") EXCEPT !.c = h.c, !.out = out])
      BY <1>6 DEF CommitOwner
    <3> HIDE DEF out
    <3>4. HandlerOK([Started(h.op, h.s, "Broadcast") EXCEPT !.c = h.c, !.out = out])
      BY <2>2, <2>3, <3>2, AnnounceOK DEF Requests
    <3> QED
      BY <1>0, <2>2, <3>3, <3>4, WaitKeeps
  <2>7. OrderedArePresent => OrderedArePresent'
    BY <2>4 DEF OrderedArePresent, Present
  <2> QED
    BY <1>6, <2>4, <2>5, <2>7, WriteStep DEF CommitOwner, sockets, TypeOK
<1>7. CASE CommitSettings(k)
  <2>1. At(k, {"settings"}, "CommitSettings")
    BY <1>7 DEF CommitSettings
  <2>2. /\ k \in DOMAIN flight /\ (Fifo => k = 1) /\ HandlerOK(h) /\ h \in Handler
        /\ h.op = "settings" /\ h.pc = "CommitSettings" /\ h.s \in Sessions
        /\ h.a \in Avatars \cup {Nil} /\ h.b \in BOOLEAN
    BY <1>0, <2>1, AtFacts DEF Handler
  <2>3. h.c \in Codes
    BY <2>2, LocatedFacts DEF Located, Pcs
  <2>4. KeysTypeOK' /\ UNCHANGED <<parts, order>>
    BY <1>0, <1>7, <2>2, <2>3, HashWrites DEF CommitSettings
  <2>5. FlightOK'
    <3> DEFINE out == [Event("settings", h.c, h.s, Nil) EXCEPT !.b = h.b]
    <3>1. Event("settings", h.c, h.s, Nil) \in Message
      BY <2>2, <2>3, EventTyped
    <3>2. out \in Message /\ out.type = "settings"
      BY <2>2, <3>1 DEF Message, Event
    <3>3. Wait(k, [Started(h.op, h.s, "Broadcast") EXCEPT !.c = h.c, !.out = out])
      BY <1>7 DEF CommitSettings
    <3> HIDE DEF out
    <3>4. HandlerOK([Started(h.op, h.s, "Broadcast") EXCEPT !.c = h.c, !.out = out])
      BY <2>2, <2>3, <3>2, AnnounceOK DEF Requests
    <3> QED
      BY <1>0, <2>2, <3>3, <3>4, WaitKeeps
  <2>7. OrderedArePresent => OrderedArePresent'
    BY <2>4 DEF OrderedArePresent, Present
  <2> QED
    BY <1>7, <2>4, <2>5, <2>7, WriteStep DEF CommitSettings, sockets, TypeOK
<1>8. CASE CommitState(k)
  <2>1. At(k, {"params"}, "CommitState")
    BY <1>8 DEF CommitState
  <2>2. /\ k \in DOMAIN flight /\ (Fifo => k = 1) /\ HandlerOK(h) /\ h \in Handler
        /\ h.op = "params" /\ h.pc = "CommitState" /\ h.s \in Sessions
        /\ h.a \in Avatars \cup {Nil} /\ h.b \in BOOLEAN
    BY <1>0, <2>1, AtFacts DEF Handler
  <2>3. h.c \in Codes
    BY <2>2, LocatedFacts DEF Located, Pcs
  <2>4. KeysTypeOK' /\ UNCHANGED <<parts, order>>
    BY <1>0, <1>8, <2>2, <2>3, HashWrites DEF CommitState
  <2>5. FlightOK'
    <3> DEFINE out == Event("params", h.c, h.s, h.s)
    <3>1. Event("params", h.c, h.s, h.s) \in Message
      BY <2>2, <2>3, EventTyped
    <3>2. out \in Message /\ out.type = "params"
      BY <2>2, <3>1 DEF Message, Event
    <3>3. Wait(k, [Started(h.op, h.s, "Broadcast") EXCEPT !.c = h.c, !.out = out])
      BY <1>8 DEF CommitState
    <3> HIDE DEF out
    <3>4. HandlerOK([Started(h.op, h.s, "Broadcast") EXCEPT !.c = h.c, !.out = out])
      BY <2>2, <2>3, <3>2, AnnounceOK DEF Requests
    <3> QED
      BY <1>0, <2>2, <3>3, <3>4, WaitKeeps
  <2>7. OrderedArePresent => OrderedArePresent'
    BY <2>4 DEF OrderedArePresent, Present
  <2> QED
    BY <1>8, <2>4, <2>5, <2>7, WriteStep DEF CommitState, sockets, TypeOK
<1>9. CASE CommitSessionAvatar(k)
  <2>1. At(k, {"avatar"}, "CommitSessionAvatar")
    BY <1>9 DEF CommitSessionAvatar
  <2>2. /\ k \in DOMAIN flight /\ (Fifo => k = 1) /\ HandlerOK(h) /\ h \in Handler
        /\ h.op = "avatar" /\ h.pc = "CommitSessionAvatar" /\ h.s \in Sessions
        /\ h.a \in Avatars \cup {Nil} /\ h.b \in BOOLEAN
    BY <1>0, <2>1, AtFacts DEF Handler
  <2>3. h.c \in Codes
    BY <2>2, LocatedFacts DEF Located, Pcs
  <2>4. KeysTypeOK' /\ UNCHANGED <<parts, order>>
    BY <1>0, <1>9, <2>2, <2>3, HashWrites DEF CommitSessionAvatar
  <2>5. FlightOK'
    <3> DEFINE g == [h EXCEPT !.pc = "ReadParticipant"]
    <3>1. g \in Handler /\ Moved(h, g, "ReadParticipant", h.c, h.old, h.o)
      BY <2>2, SetPc DEF Pcs
    <3>2. Wait(k, g)
      BY <1>9 DEF CommitSessionAvatar
    <3> HIDE DEF g
    <3>3. HandlerOK(g)
      BY <2>2, <2>3, <3>1 DEF HandlerOK, Moved, Located, Naming, Pcs
    <3> QED
      BY <1>0, <2>2, <3>2, <3>3, WaitKeeps
  <2>7. OrderedArePresent => OrderedArePresent'
    BY <2>4 DEF OrderedArePresent, Present
  <2> QED
    BY <1>9, <2>4, <2>5, <2>7, WriteStep DEF CommitSessionAvatar, sockets, TypeOK
<1>10. CASE CommitParticipantAvatar(k)
  <2>1. At(k, {"avatar"}, "CommitParticipantAvatar")
    BY <1>10 DEF CommitParticipantAvatar
  <2>2. /\ k \in DOMAIN flight /\ (Fifo => k = 1) /\ HandlerOK(h) /\ h \in Handler
        /\ h.op = "avatar" /\ h.pc = "CommitParticipantAvatar" /\ h.s \in Sessions
        /\ h.a \in Avatars \cup {Nil}
    BY <1>0, <2>1, AtFacts DEF Handler
  <2>3. h.c \in Codes /\ h.old \in Names
    BY <2>2, LocatedFacts DEF Located, Naming, Pcs, HandlerOK, Handler
  <2>4. KeysTypeOK' /\ (OrderedArePresent => OrderedArePresent')
    BY <1>0, <1>10, <2>2, <2>3, WriteParticipantWrites DEF CommitParticipantAvatar
  <2>5. FlightOK'
    <3> DEFINE g == [h EXCEPT !.pc = "ReadRoom", !.old = Nil]
    <3>1. g \in Handler /\ Moved(h, g, "ReadRoom", h.c, Nil, h.o)
      BY <2>2, SetName DEF Pcs
    <3>2. Wait(k, g)
      BY <1>10 DEF CommitParticipantAvatar
    <3> HIDE DEF g
    <3>3. HandlerOK(g)
      BY <2>2, <2>3, <3>1 DEF HandlerOK, Moved, Located, Naming, Pcs
    <3> QED
      BY <1>0, <2>2, <3>2, <3>3, WaitKeeps
  <2> QED
    BY <1>10, <2>4, <2>5, WriteStep DEF CommitParticipantAvatar, sockets, TypeOK
<1>11. CASE CommitOwnerAvatar(k)
  <2>1. At(k, {"avatar"}, "CommitOwnerAvatar")
    BY <1>11 DEF CommitOwnerAvatar
  <2>2. /\ k \in DOMAIN flight /\ (Fifo => k = 1) /\ HandlerOK(h) /\ h \in Handler
        /\ h.op = "avatar" /\ h.pc = "CommitOwnerAvatar" /\ h.s \in Sessions
        /\ h.a \in Avatars \cup {Nil} /\ h.b \in BOOLEAN
    BY <1>0, <2>1, AtFacts DEF Handler
  <2>3. h.c \in Codes
    BY <2>2, LocatedFacts DEF Located, Pcs
  <2>4. KeysTypeOK' /\ UNCHANGED <<parts, order>>
    BY <1>0, <1>11, <2>2, <2>3, HashWrites DEF CommitOwnerAvatar
  <2>5. FlightOK'
    <3>1. HandlerOK(AvatarUpdated(h)) /\ Wait(k, AvatarUpdated(h))
      BY <1>11, <2>2, <2>3, AvatarUpdatedOK DEF CommitOwnerAvatar
    <3> QED
      BY <1>0, <2>2, <3>1, WaitKeeps
  <2>7. OrderedArePresent => OrderedArePresent'
    BY <2>4 DEF OrderedArePresent, Present
  <2> QED
    BY <1>11, <2>4, <2>5, <2>7, WriteStep DEF CommitOwnerAvatar, sockets, TypeOK
<1> QED
  BY <1>1, <1>2, <1>3, <1>4, <1>5, <1>6, <1>7, <1>8, <1>9, <1>10, <1>11

-----------------------------------------------------------------------------
(* Sockets, requests, refusals and broadcasts.                             *)

\* A request's handler is well formed when its fields are.
LEMMA StartedOK ==
  ASSUME NEW op \in Requests \cup {"disconnect"}, NEW s \in Sessions,
         NEW pc \in {"EnsureNotInRoom", "RequireSession"}, NEW g \in Handler,
         g.op = op, g.pc = pc, g.out = Nil, g.then = Nil,
         op = "join" => g.c # Nil,
         op \in {"create", "join", "rename"} => g.n # Nil
  PROVE  HandlerOK(g)
  BY DEF HandlerOK, Located, Naming

\* A request that starts a well-formed handler keeps TypeOK.
LEMMA RequestTyped ==
  ASSUME TypeOK, NEW s \in Sessions, NEW op, NEW g, HandlerOK(g), Request(s, op, g)
  PROVE  TypeOK'
<1>1. FlightOK'
  BY StartKeeps DEF Request, Start, TypeOK
<1> QED
  BY <1>1 DEF Request, TypeOK, KeysTypeOK, keys, sockets

\* Every request starts a well-formed handler.
LEMMA RequestsTyped ==
  ASSUME TypeOK, NEW s \in Sessions,
         \/ RequestCreate(s) \/ RequestJoin(s) \/ RequestRename(s)
         \/ RequestSettings(s) \/ RequestAvatar(s) \/ RequestPlain(s)
  PROVE  TypeOK'
<1> DEFINE S(op, pc) == Started(op, s, pc)
<1>1. CASE RequestCreate(s)
  <2>1. PICK b \in BOOLEAN :
          Request(s, "create", [S("create", "EnsureNotInRoom") EXCEPT !.n = wsName[s], !.b = b])
    BY <1>1, TakeoverAssumption DEF RequestCreate
  <2> DEFINE g == [S("create", "EnsureNotInRoom") EXCEPT !.n = wsName[s], !.b = b]
  <2>2. wsName[s] \in Names \cup {Nil} /\ wsName[s] # Nil
    BY <2>1 DEF Request, TypeOK
  <2>3. /\ g \in Handler /\ g.op = "create" /\ g.pc = "EnsureNotInRoom"
        /\ g.out = Nil /\ g.then = Nil /\ g.n # Nil
    <3>1. S("create", "EnsureNotInRoom") \in Handler
      BY StartedTyped DEF Requests, Pcs
    <3> QED
      BY <2>2, <3>1 DEF Handler, Started
  <2> HIDE DEF g
  <2>4. HandlerOK(g)
    BY <2>3, StartedOK DEF Requests
  <2> QED
    BY <2>1, <2>4, RequestTyped DEF g
<1>2. CASE RequestJoin(s)
  <2>1. PICK c \in Codes :
          Request(s, "join", [S("join", "EnsureNotInRoom") EXCEPT !.n = wsName[s], !.c = c])
    BY <1>2 DEF RequestJoin
  <2> DEFINE g == [S("join", "EnsureNotInRoom") EXCEPT !.n = wsName[s], !.c = c]
  <2>2. wsName[s] \in Names \cup {Nil} /\ wsName[s] # Nil /\ c # Nil
    BY <2>1, CodesAssumption DEF Request, TypeOK
  <2>3. /\ g \in Handler /\ g.op = "join" /\ g.pc = "EnsureNotInRoom"
        /\ g.out = Nil /\ g.then = Nil /\ g.n # Nil /\ g.c # Nil
    <3>1. S("join", "EnsureNotInRoom") \in Handler
      BY StartedTyped DEF Requests, Pcs
    <3> QED
      BY <2>2, <3>1 DEF Handler, Started
  <2> HIDE DEF g
  <2>4. HandlerOK(g)
    BY <2>3, StartedOK DEF Requests
  <2> QED
    BY <2>1, <2>4, RequestTyped DEF g
<1>3. CASE RequestRename(s)
  <2>1. PICK n \in Names :
          Request(s, "rename", [S("rename", "RequireSession") EXCEPT !.n = n])
    BY <1>3 DEF RequestRename
  <2> DEFINE g == [S("rename", "RequireSession") EXCEPT !.n = n]
  <2>3. /\ g \in Handler /\ g.op = "rename" /\ g.pc = "RequireSession"
        /\ g.out = Nil /\ g.then = Nil /\ g.n # Nil
    <3>1. S("rename", "RequireSession") \in Handler
      BY StartedTyped DEF Requests, Pcs
    <3> QED
      BY <3>1, NamesAssumption DEF Handler, Started
  <2> HIDE DEF g
  <2>4. HandlerOK(g)
    BY <2>3, StartedOK DEF Requests
  <2> QED
    BY <2>1, <2>4, RequestTyped DEF g
<1>4. CASE RequestSettings(s)
  <2>1. PICK b \in BOOLEAN :
          Request(s, "settings", [S("settings", "RequireSession") EXCEPT !.b = b])
    BY <1>4 DEF RequestSettings
  <2> DEFINE g == [S("settings", "RequireSession") EXCEPT !.b = b]
  <2>3. /\ g \in Handler /\ g.op = "settings" /\ g.pc = "RequireSession"
        /\ g.out = Nil /\ g.then = Nil
    <3>1. S("settings", "RequireSession") \in Handler
      BY StartedTyped DEF Requests, Pcs
    <3> QED
      BY <3>1 DEF Handler, Started
  <2> HIDE DEF g
  <2>4. HandlerOK(g)
    BY <2>3, StartedOK DEF Requests
  <2> QED
    BY <2>1, <2>4, RequestTyped DEF g
<1>5. CASE RequestAvatar(s)
  <2>1. PICK a \in Avatars :
          Request(s, "avatar", [S("avatar", "RequireSession") EXCEPT !.a = a])
    BY <1>5 DEF RequestAvatar
  <2> DEFINE g == [S("avatar", "RequireSession") EXCEPT !.a = a]
  <2>3. /\ g \in Handler /\ g.op = "avatar" /\ g.pc = "RequireSession"
        /\ g.out = Nil /\ g.then = Nil
    <3>1. S("avatar", "RequireSession") \in Handler
      BY StartedTyped DEF Requests, Pcs
    <3> QED
      BY <3>1 DEF Handler, Started
  <2> HIDE DEF g
  <2>4. HandlerOK(g)
    BY <2>3, StartedOK DEF Requests
  <2> QED
    BY <2>1, <2>4, RequestTyped DEF g
<1>6. CASE RequestPlain(s)
  <2>1. PICK op \in {"leave", "take", "params"} : Request(s, op, S(op, "RequireSession"))
    BY <1>6 DEF RequestPlain
  <2> DEFINE g == S(op, "RequireSession")
  <2>3. /\ g \in Handler /\ g.op = op /\ g.pc = "RequireSession"
        /\ g.out = Nil /\ g.then = Nil
    <3>1. g \in Handler
      BY StartedTyped DEF Requests, Pcs
    <3> QED
      BY <3>1 DEF Started
  <2> HIDE DEF g
  <2>4. HandlerOK(g)
    BY <2>3, StartedOK DEF Requests
  <2> QED
    BY <2>1, <2>4, RequestTyped DEF g
<1> QED
  BY <1>1, <1>2, <1>3, <1>4, <1>5, <1>6

\* A hello and a closed socket.
LEMMA SocketsTyped ==
  ASSUME TypeOK, NEW s \in Sessions,
         (\E n \in Names : handleHello(s, n)) \/ Close(s)
  PROVE  TypeOK'
<1>1. ASSUME NEW n \in Names, handleHello(s, n) PROVE TypeOK'
  <2>1. /\ wsName' \in [Sessions -> Names \cup {Nil}]
        /\ \A t \in open' : wsName'[t] # Nil
        /\ wsRoom' \in [Sessions -> Codes \cup {Nil}]
        /\ open' \subseteq Sessions
    BY <1>1, NamesAssumption DEF handleHello, TypeOK
  <2>2. FlightOK' /\ KeysTypeOK' /\ view' = view
    BY <1>1 DEF handleHello, TypeOK, FlightOK, KeysTypeOK, keys
  <2> QED
    BY <2>1, <2>2 DEF TypeOK
<1>2. CASE Close(s)
  <2>1. FlightOK'
    <3>1. CASE wsRoom[s] = Nil
      BY <1>2, <3>1 DEF Close, TypeOK, FlightOK
    <3>2. CASE wsRoom[s] # Nil
      <4> DEFINE g == Started("disconnect", s, "RequireSession")
      <4>1. /\ g \in Handler /\ g.op = "disconnect" /\ g.pc = "RequireSession"
            /\ g.out = Nil /\ g.then = Nil
        <5>1. g \in Handler
          BY StartedTyped DEF Pcs
        <5> QED
          BY <5>1 DEF Started
      <4>2. Start(g)
        BY <1>2, <3>2 DEF Close
      <4> HIDE DEF g
      <4>3. HandlerOK(g)
        BY <4>1, StartedOK
      <4> QED
        BY <4>2, <4>3, StartKeeps DEF Start, TypeOK
    <3> QED
      BY <3>1, <3>2
  <2>2. view' \in [Sessions -> View]
    BY <1>2, NoViewTyped DEF Close, TypeOK
  <2>3. KeysTypeOK' /\ open' \subseteq open /\ UNCHANGED <<wsRoom, wsName>>
    BY <1>2 DEF Close, TypeOK, KeysTypeOK, keys
  <2> QED
    BY <2>1, <2>2, <2>3 DEF TypeOK
<1> QED
  BY <1>1, <1>2

\* A refused request only ends its handler.
LEMMA RefuseTyped == ASSUME TypeOK, NEW k, Refuse(k) PROVE TypeOK'
<1>1. FlightOK'
  BY ReturnKeeps DEF Refuse, TypeOK
<1> QED
  BY <1>1 DEF Refuse, TypeOK, KeysTypeOK, keys, sockets

\* What broadcastToRoom is called with.
LEMMA BroadcastFacts ==
  ASSUME TypeOK, NEW k, Broadcast(k)
  PROVE  LET h == flight[k]
         IN  /\ k \in DOMAIN flight /\ (Fifo => k = 1)
             /\ HandlerOK(h) /\ h \in Handler /\ h.pc = "Broadcast"
             /\ h.out \in Message
             /\ h.out.type \in {"joined", "name"} => h.out.n # Nil
             /\ h.out.type = "left" => h.out.x = h.out.s
  BY DEF Broadcast, TypeOK, FlightOK, HandlerOK, Handler

\* broadcastToRoom gives every receiver a view, and the handler its next event.
LEMMA BroadcastTyped == ASSUME TypeOK, NEW k, Broadcast(k) PROVE TypeOK'
<1> DEFINE h == flight[k]
<1>1. /\ k \in DOMAIN flight /\ (Fifo => k = 1)
      /\ HandlerOK(h) /\ h \in Handler /\ h.pc = "Broadcast"
      /\ h.out \in Message
      /\ h.out.type \in {"joined", "name"} => h.out.n # Nil
  BY BroadcastFacts
<1>2. FlightOK'
  <2>1. CASE h.then = Nil
    BY <1>1, <2>1, ReturnKeeps DEF Broadcast, TypeOK
  <2>2. CASE h.then # Nil
    <3> DEFINE g == [h EXCEPT !.out = h.then, !.then = Nil]
    <3>1. h.then \in Message /\ h.then.type = "owner"
      BY <1>1, <2>2 DEF Handler, HandlerOK
    <3>2. /\ g \in Handler /\ Moved(h, [g EXCEPT !.out = h.out, !.then = h.then], h.pc, h.c, h.old, h.o)
          /\ g.out = h.then /\ g.then = Nil /\ g.op = h.op /\ g.pc = h.pc
          /\ g.c = h.c /\ g.n = h.n /\ g.old = h.old /\ g.o = h.o
      BY <1>1, <3>1 DEF Handler, Moved
    <3>3. Wait(k, g)
      BY <2>2 DEF Broadcast
    <3> HIDE DEF g
    <3>4. HandlerOK(g)
      BY <1>1, <2>2, <3>1, <3>2 DEF HandlerOK, Located, Naming
    <3> QED
      BY <1>1, <3>3, <3>4, WaitKeeps DEF TypeOK
  <2> QED
    BY <2>1, <2>2
<1>3. view' \in [Sessions -> View]
  <2>1. \A s \in Sessions : view[s] \in View
    BY DEF TypeOK
  <2>2. \A s \in Sessions : Applied(s, view[s], h.out) \in View
    BY <1>1, <2>1, AppliedTyped
  <2> QED
    BY <2>1, <2>2 DEF Broadcast
<1> QED
  BY <1>2, <1>3 DEF Broadcast, TypeOK, KeysTypeOK, keys, sockets

-----------------------------------------------------------------------------
(* The theorems.                                                           *)

\* The server starts with no key, socket or handler.
LEMMA InitTyped == Init => TypeOK /\ OrderedArePresent
<1> SUFFICES ASSUME Init PROVE TypeOK /\ OrderedArePresent
  OBVIOUS
<1>1. KeysTypeOK /\ OrderedArePresent
  BY SessionsAssumption, MaxNowAssumption DEF Init, NoKeys, KeysTypeOK, NoRoom, Room, NoParts,
     NoOrder, NoSession, Session, OrderedArePresent
<1>2. FlightOK
  BY EmptySeq DEF Init, FlightOK
<1> QED
  BY <1>1, <1>2, NoViewTyped DEF Init, TypeOK

\* A step that leaves the keys alone leaves the join orders consistent.
LEMMA OrderKept ==
  ASSUME OrderedArePresent, UNCHANGED keys PROVE OrderedArePresent'
  BY DEF OrderedArePresent, Present, keys

\* Every step of the server keeps TypeOK and the join orders.
LEMMA StepTyped ==
  ASSUME TypeOK, [Next]_vars
  PROVE  TypeOK' /\ (OrderedArePresent => OrderedArePresent')
<1>1. ASSUME NEW s \in Sessions, NEW n \in Names, handleHello(s, n)
      PROVE  TypeOK' /\ UNCHANGED keys
  BY <1>1, SocketsTyped DEF handleHello
<1>2. ASSUME NEW s \in Sessions, Close(s) PROVE TypeOK' /\ UNCHANGED keys
  BY <1>2, SocketsTyped DEF Close
<1>3. ASSUME NEW s \in Sessions,
             \/ RequestCreate(s) \/ RequestJoin(s) \/ RequestRename(s)
             \/ RequestSettings(s) \/ RequestAvatar(s) \/ RequestPlain(s)
      PROVE  TypeOK' /\ UNCHANGED keys
  <2>1. UNCHANGED keys
    BY <1>3 DEF RequestCreate, RequestJoin, RequestRename, RequestSettings, RequestAvatar,
       RequestPlain, Request
  <2> QED
    BY <1>3, <2>1, RequestsTyped
<1>4. ASSUME NEW k \in 1..MaxInFlight, Resume(k)
      PROVE  TypeOK' /\ (OrderedArePresent => OrderedArePresent')
  <2>1. CASE Refuse(k)
    BY <2>1, RefuseTyped, OrderKept DEF Refuse
  <2>2. CASE Broadcast(k)
    BY <2>2, BroadcastTyped, OrderKept DEF Broadcast
  <2>3. CASE \/ EnsureNotInRoom(k) \/ PickCode(k)
             \/ JoinReadRoom(k) \/ JoinReadHolder(k)
             \/ SnapRoom(k) \/ SnapOrder(k) \/ SnapParticipants(k)
             \/ RequireSession(k)
             \/ LeaveReadParticipant(k) \/ LeaveReadRoom(k) \/ LeaveReadOrder(k)
             \/ LeaveReadKeys(k) \/ LeaveReadNewOwner(k)
             \/ RenameReadHolder(k) \/ RenameReadParticipant(k)
             \/ TakeReadRoom(k) \/ TakeReadAvatar(k)
             \/ SettingsReadRoom(k) \/ ParamsReadRoom(k)
             \/ AvatarReadParticipant(k) \/ AvatarReadRoom(k)
    <3>1. UNCHANGED keys
      BY <2>3 DEF EnsureNotInRoom, PickCode, JoinReadRoom, JoinReadHolder, SnapRoom, SnapOrder,
         SnapParticipants, RequireSession, LeaveReadParticipant, LeaveReadRoom, LeaveReadOrder,
         LeaveReadKeys, LeaveReadNewOwner, RenameReadHolder, RenameReadParticipant,
         TakeReadRoom, TakeReadAvatar, SettingsReadRoom, ParamsReadRoom,
         AvatarReadParticipant, AvatarReadRoom
    <3> QED
      BY <2>3, <3>1, ReadsTyped, OrderKept
  <2>4. CASE \/ CommitCreate(k) \/ CommitJoin(k) \/ SnapState(k) \/ CommitLeave(k)
             \/ CommitRename(k) \/ CommitOwner(k) \/ CommitSettings(k) \/ CommitState(k)
             \/ CommitSessionAvatar(k) \/ CommitParticipantAvatar(k) \/ CommitOwnerAvatar(k)
    BY <2>4, CommitsTyped
  <2> QED
    BY <1>4, <2>1, <2>2, <2>3, <2>4 DEF Resume
<1>5. CASE UNCHANGED vars
  <2>1. TypeOK' /\ UNCHANGED keys
    BY <1>5 DEF vars, keys, sockets, TypeOK, KeysTypeOK, FlightOK
  <2> QED
    BY <2>1, OrderKept
<1>6. CASE Stop
  <2>1. FlightOK'
    BY <1>6, EmptySeq DEF Stop, FlightOK
  <2>2. TypeOK' /\ UNCHANGED keys
    BY <1>6, <2>1, NoViewTyped DEF Stop, TypeOK, KeysTypeOK, keys
  <2> QED
    BY <2>2, OrderKept
<1> QED
  BY <1>1, <1>2, <1>3, <1>4, <1>5, <1>6, OrderKept DEF Next

\* Type correctness, however handlers overlap: no step of a handler uses a
\* local variable that an earlier step left undefined, and no key is given a
\* value of another kind.
THEOREM ServerTyped == Spec => []TypeOK
<1>1. Init => TypeOK
  BY InitTyped
<1>2. TypeOK /\ [Next]_vars => TypeOK'
  BY StepTyped
<1> QED
  BY <1>1, <1>2, PTL DEF Spec

\* Every entry of a join order is a participant, however handlers overlap:
\* leaveRoom and joinRoom write the two keys in one MULTI block each.
THEOREM OrderConsistent == Spec => []OrderedArePresent
<1>1. Init => TypeOK /\ OrderedArePresent
  BY InitTyped
<1>2. TypeOK /\ OrderedArePresent /\ [Next]_vars => (TypeOK /\ OrderedArePresent)'
  BY StepTyped
<1> QED
  BY <1>1, <1>2, PTL DEF Spec

-----------------------------------------------------------------------------
(* The room a client shows.                                                *)

\* ClientKnowsItsRoom made inductive: a client without a connection shows no
\* room, so that its next connection starts in none.
RoomsShown == \A s \in Sessions : view[s].room = IF s \in open THEN wsRoom[s] ELSE Nil

\* An answer puts the socket and the client into the same room.
LEMMA AnswerShown ==
  ASSUME TypeOK, RoomsShown, NEW s \in Sessions, NEW c, NEW v, v.room = c,
         open' = open, wsRoom' = [wsRoom EXCEPT ![s] = c], Deliver(s, v)
  PROVE  RoomsShown'
  BY DEF TypeOK, RoomsShown, Deliver

\* A step that touches neither sockets nor views.
LEMMA ShownKept ==
  ASSUME RoomsShown, UNCHANGED <<open, wsRoom, view>> PROVE RoomsShown'
  BY DEF RoomsShown

\* An event does not move a client to another room: the one that could, of the
\* client's own departure, is not sent to the client it is about.
LEMMA BroadcastShown == ASSUME TypeOK, RoomsShown, NEW k, Broadcast(k) PROVE RoomsShown'
<1> DEFINE h == flight[k]
<1>1. /\ h.out \in Message
      /\ h.out.type \in {"joined", "name"} => h.out.n # Nil
      /\ h.out.type = "left" => h.out.x = h.out.s
  BY BroadcastFacts
<1>2. ASSUME NEW s \in Sessions PROVE view'[s].room = view[s].room
  <2>1. CASE s \in open /\ parts[h.c][s] # Nil /\ s # h.out.x
    <3>1. view[s] \in View
      BY DEF TypeOK
    <3>2. Applied(s, view[s], h.out).room = view[s].room
      <4>1. h.out.type = "left" => h.out.s # s
        BY <1>1, <2>1
      <4> HIDE DEF h
      <4> QED
        BY <1>1, <3>1, <4>1, AppliedTyped
    <3> QED
      BY <2>1, <3>2 DEF Broadcast
  <2>2. CASE ~ (s \in open /\ parts[h.c][s] # Nil /\ s # h.out.x)
    BY <2>2 DEF Broadcast
  <2> QED
    BY <2>1, <2>2
<1> QED
  BY <1>2 DEF Broadcast, RoomsShown, sockets

\* Every step of the server keeps RoomsShown.
LEMMA StepShown == ASSUME TypeOK, RoomsShown, [Next]_vars PROVE RoomsShown'
<1>1. ASSUME NEW s \in Sessions, NEW n \in Names, handleHello(s, n) PROVE RoomsShown'
  BY <1>1 DEF handleHello, Unused, RoomsShown, TypeOK
<1>2. ASSUME NEW s \in Sessions, Close(s) PROVE RoomsShown'
  BY <1>2, NoViewTyped DEF Close, RoomsShown, TypeOK
<1>3. ASSUME NEW s \in Sessions,
             \/ RequestCreate(s) \/ RequestJoin(s) \/ RequestRename(s)
             \/ RequestSettings(s) \/ RequestAvatar(s) \/ RequestPlain(s)
      PROVE  RoomsShown'
  <2>1. UNCHANGED <<sockets, view>>
    BY <1>3 DEF RequestCreate, RequestJoin, RequestRename, RequestSettings, RequestAvatar,
       RequestPlain, Request
  <2> QED
    BY <2>1, ShownKept DEF sockets
<1>4. ASSUME NEW k \in 1..MaxInFlight, Resume(k) PROVE RoomsShown'
  <2> DEFINE h == flight[k]
  <2>1. CASE CommitCreate(k)
    <3>1. h.s \in Sessions /\ h.c \in Codes /\ h.n \in Names /\ h.b \in BOOLEAN
      <4>1. HandlerOK(h) /\ h \in Handler /\ h.op = "create" /\ h.pc = "CommitCreate"
        BY <2>1, AtFacts DEF CommitCreate, TypeOK
      <4> QED
        BY <4>1, LocatedFacts DEF HandlerOK, Handler, Located, Pcs
    <3> DEFINE v == applyRoomJoined(h.c, h.s,
                      [NoParts EXCEPT ![h.s] = [name |-> h.n, avatar |-> Nil]], h.b, Nil)
    <3>2. v.room = h.c
      BY DEF applyRoomJoined
    <3>3. Deliver(h.s, v) /\ open' = open /\ wsRoom' = [wsRoom EXCEPT ![h.s] = h.c]
      BY <2>1 DEF CommitCreate
    <3> HIDE DEF v
    <3> QED
      BY <3>1, <3>2, <3>3, AnswerShown
  <2>2. CASE SnapState(k)
    <3>1. h.s \in Sessions
      BY <2>2, AtFacts DEF SnapState, TypeOK, Handler
    <3> DEFINE v == applyRoomJoined(h.c, h.m.owner, h.p, h.m.takeover, h.m.avatar)
    <3>2. v.room = h.c
      BY DEF applyRoomJoined
    <3>3. Deliver(h.s, v) /\ open' = open /\ wsRoom' = [wsRoom EXCEPT ![h.s] = h.c]
      BY <2>2 DEF SnapState
    <3> HIDE DEF v
    <3> QED
      BY <3>1, <3>2, <3>3, AnswerShown
  <2>3. CASE CommitLeave(k)
    <3>1. h.s \in Sessions
      BY <2>3, AtFacts DEF CommitLeave, TypeOK, Handler
    <3>2. CASE h.op = "leave"
      <4>1. Deliver(h.s, NoView) /\ open' = open /\ wsRoom' = [wsRoom EXCEPT ![h.s] = Nil]
        BY <2>3, <3>2 DEF CommitLeave
      <4> QED
        BY <3>1, <4>1, AnswerShown, NoViewTyped
    <3>3. CASE h.op # "leave"
      BY <2>3, <3>3, ShownKept DEF CommitLeave
    <3> QED
      BY <3>2, <3>3
  <2>4. CASE Broadcast(k)
    BY <2>4, BroadcastShown
  <2>5. CASE \/ Refuse(k) \/ CommitJoin(k) \/ CommitRename(k) \/ CommitOwner(k)
             \/ CommitSettings(k) \/ CommitState(k) \/ CommitSessionAvatar(k)
             \/ CommitParticipantAvatar(k) \/ CommitOwnerAvatar(k)
    <3>1. UNCHANGED <<open, wsRoom, view>>
      BY <2>5 DEF sockets, Refuse, CommitJoin, CommitRename, CommitOwner, CommitSettings,
         CommitState, CommitSessionAvatar, CommitParticipantAvatar, CommitOwnerAvatar
    <3> QED
      BY <3>1, ShownKept
  <2>6. CASE \/ EnsureNotInRoom(k) \/ PickCode(k)
             \/ JoinReadRoom(k) \/ JoinReadHolder(k)
             \/ SnapRoom(k) \/ SnapOrder(k) \/ SnapParticipants(k)
             \/ RequireSession(k)
             \/ LeaveReadParticipant(k) \/ LeaveReadRoom(k) \/ LeaveReadOrder(k)
             \/ LeaveReadKeys(k) \/ LeaveReadNewOwner(k)
             \/ RenameReadHolder(k) \/ RenameReadParticipant(k)
             \/ TakeReadRoom(k) \/ TakeReadAvatar(k)
             \/ SettingsReadRoom(k) \/ ParamsReadRoom(k)
             \/ AvatarReadParticipant(k) \/ AvatarReadRoom(k)
    <3>1. UNCHANGED <<sockets, view>>
      BY <2>6 DEF EnsureNotInRoom, PickCode, JoinReadRoom, JoinReadHolder, SnapRoom, SnapOrder,
         SnapParticipants, RequireSession, LeaveReadParticipant, LeaveReadRoom, LeaveReadOrder,
         LeaveReadKeys, LeaveReadNewOwner, RenameReadHolder, RenameReadParticipant,
         TakeReadRoom, TakeReadAvatar, SettingsReadRoom, ParamsReadRoom,
         AvatarReadParticipant, AvatarReadRoom
    <3> QED
      BY <3>1, ShownKept DEF sockets
  <2> QED
    BY <1>4, <2>1, <2>2, <2>3, <2>4, <2>5, <2>6 DEF Resume
<1>5. CASE UNCHANGED vars
  BY <1>5, ShownKept DEF vars, sockets
<1>6. CASE Stop
  BY <1>6, NoViewTyped DEF Stop, RoomsShown
<1> QED
  BY <1>1, <1>2, <1>3, <1>4, <1>5, <1>6 DEF Next

\* The client of an open socket shows the room the socket is in, however
\* handlers overlap: it moves only by the answer that sets ws.data.roomCode.
THEOREM ClientInItsRoom == Spec => []ClientKnowsItsRoom
<1>1. Init => TypeOK /\ RoomsShown
  <2>1. Init => RoomsShown
    BY NoViewTyped DEF Init, RoomsShown
  <2> QED
    BY <2>1, InitTyped
<1>2. TypeOK /\ RoomsShown /\ [Next]_vars => (TypeOK /\ RoomsShown)'
  BY StepTyped, StepShown
<1>3. TypeOK /\ RoomsShown => ClientKnowsItsRoom
  BY DEF TypeOK, RoomsShown, ClientKnowsItsRoom
<1> QED
  BY <1>1, <1>2, <1>3, PTL DEF Spec

-----------------------------------------------------------------------------
(* Without overlap: what the keys say.                                     *)

\* The sessions with an entry in a hash of participants: Present(c) is In(parts[c]).
In(f) == {s \in Sessions : f[s] # Nil}

\* The keys describe the rooms exactly; besides, a session outside every room
\* has no hash and nobody joined in the future.
Exact ==
  /\ RoomsAccountedFor /\ NothingLeftBehind /\ NameKeysExact /\ SessionsMatchSeats
  /\ \A s \in Sessions : sess[s].room = Nil => sess[s] = NoSession
  /\ \A c \in Codes, s \in Sessions : order[c][s] <= now

\* While handler h runs alone, what it has read stays true until it writes.
Entering(h) ==
  /\ h.pc \in {"PickCode", "CommitCreate", "ReadRoom", "ReadHolder", "CommitJoin"}
       => sess[h.s].room = Nil
  /\ h.pc = "CommitCreate" => ~ meta[h.c].code
  /\ h.pc \in {"ReadHolder", "CommitJoin"} =>
       meta[h.c].code /\ h.m.count = meta[h.c].count /\ h.m.count < RoomMax
  /\ h.pc = "CommitJoin" => names[h.c][LowerCase[h.n]] = Nil
  /\ h.pc \in {"SnapRoom", "SnapOrder", "SnapParticipants", "SnapState"} => sess[h.s].room = h.c
  /\ h.pc \in {"SnapOrder", "SnapParticipants", "SnapState"} => h.m = meta[h.c]
  /\ h.pc = "SnapParticipants" => h.q = order[h.c]
  /\ h.pc = "SnapState" => h.p = parts[h.c]

\* o has been in room c longest, s aside.
Heir(c, s, o) ==
  /\ o \in Present(c) \ {s}
  /\ \A r \in Present(c) \ {s} : order[c][o] <= order[c][r]

Departing(h) ==
  /\ h.pc \in {"ReadRoom", "ReadOrder", "ReadKeys", "ReadNewOwner", "CommitLeave"}
       => h.old = parts[h.c][h.s].name
  /\ h.pc \in {"ReadOrder", "ReadKeys", "ReadNewOwner", "CommitLeave"}
       => h.m.count = meta[h.c].count - 1
  /\ h.pc \in {"ReadOrder", "ReadKeys", "ReadNewOwner"}
       => h.m.count # 0 /\ meta[h.c].owner = h.s
  /\ h.pc \in {"RequireSession", "ReadParticipant", "ReadRoom", "ReadOrder", "ReadKeys"}
       => h.o = Nil /\ h.np = Nil
  /\ h.pc = "ReadKeys" => h.q = order[h.c]
  /\ h.pc = "ReadNewOwner" => Heir(h.c, h.s, h.o)
  /\ h.pc = "CommitLeave" =>
       \/ h.o = Nil /\ h.np = Nil /\ (h.m.count = 0 \/ meta[h.c].owner # h.s)
       \/ /\ h.m.count # 0 /\ meta[h.c].owner = h.s
          /\ Heir(h.c, h.s, h.o) /\ h.np = parts[h.c][h.o]

Renaming(h) ==
  /\ h.pc \in {"ReadParticipant", "CommitRename"}
       => names[h.c][LowerCase[h.n]] \in {Nil, h.s}
  /\ h.pc = "CommitRename"
       => h.old = parts[h.c][h.s].name /\ h.a = parts[h.c][h.s].avatar

Taking(h) ==
  /\ h.pc \in {"ReadAvatar", "CommitOwner"} => meta[h.c].takeover
  /\ h.pc = "CommitOwner" => h.a = sess[h.s].avatar

Updating(h) ==
  /\ h.pc = "CommitParticipantAvatar" => h.old = parts[h.c][h.s].name
  /\ h.pc \in {"ReadParticipant", "CommitParticipantAvatar", "ReadRoom", "CommitOwnerAvatar"}
       => h.a = sess[h.s].avatar
  /\ h.pc \in {"ReadRoom", "CommitOwnerAvatar"} => h.a = parts[h.c][h.s].avatar
  /\ h.pc = "CommitOwnerAvatar" => meta[h.c].owner = h.s

HandlerTrue(h) ==
  /\ h.op \in {"create", "join"} => Entering(h)
  /\ h.op \notin {"create", "join"} /\ h.pc \notin {"RequireSession", "Broadcast"}
       => sess[h.s].room = h.c
  /\ h.op \in Leaving => Departing(h)
  /\ h.op = "rename" => Renaming(h)
  /\ h.op = "take" => Taking(h)
  /\ h.op = "avatar" => Updating(h)
  /\ h.op = "settings" /\ h.pc = "CommitSettings" => meta[h.c].owner = h.s

FlightTrue == \A k \in DOMAIN flight : HandlerTrue(flight[k])

\* The invariant of a server whose handlers do not overlap.
SerialInv == Exact /\ Len(flight) <= 1 /\ FlightTrue

-----------------------------------------------------------------------------
(* Without overlap: sockets, avatar ids and what the clients show.         *)

Running == flight # <<>>

Snapping == {"SnapRoom", "SnapOrder", "SnapParticipants", "SnapState"}

\* The handler of a closed socket is the only one whose session has none, and
\* it finds the session in a room.  Each operation has commands of its own.
ServedTrue ==
  Running =>
    /\ flight[1].op = "disconnect" <=> flight[1].s \notin open
    /\ flight[1].op = "disconnect" /\ flight[1].pc # "Broadcast" => sess[flight[1].s].room # Nil
    /\ flight[1].pc = "EnsureNotInRoom" => flight[1].op \in {"create", "join"}
    /\ flight[1].pc = "ReadKeys" => flight[1].op \in Leaving

\* A session whose room and socket a handler is about to make agree.
Unsettled(s) ==
  /\ Running /\ s = flight[1].s
  /\ \/ flight[1].op = "join" /\ flight[1].pc \in Snapping
     \/ flight[1].op = "disconnect" /\ flight[1].pc # "Broadcast"

SocketsTrue ==
  \A s \in Sessions :
    ~ Unsettled(s) /\ (s \in open \/ "stop" \notin Workload)
      => sess[s].room = IF s \in open THEN wsRoom[s] ELSE Nil

\* A session whose avatar id updateAvatarId has written to its session hash, but
\* not yet to its participant, or to its room.
Changing(s, pcs) == Running /\ s = flight[1].s /\ flight[1].op = "avatar" /\ flight[1].pc \in pcs

AvatarsTrue ==
  \A c \in Codes, s \in open : parts[c][s] # Nil =>
    /\ ~ Changing(s, {"ReadParticipant", "CommitParticipantAvatar"})
         => parts[c][s].avatar = sess[s].avatar
    /\ meta[c].owner = s /\ ~ Changing(s, {"ReadParticipant", "CommitParticipantAvatar",
                                           "ReadRoom", "CommitOwnerAvatar"})
         => meta[c].avatar = sess[s].avatar

\* The event that the handler which runs owes the members of its room.
Owed ==
  LET h == flight[1] IN
  IF ~ Running THEN Nil
  ELSE IF h.pc = "Broadcast" THEN h.out
  ELSE IF h.op = "join" /\ h.pc \in Snapping
    THEN [Event("joined", h.c, h.s, h.s) EXCEPT !.n = parts[h.c][h.s].name,
                                                !.a = parts[h.c][h.s].avatar]
  ELSE IF h.op = "avatar" /\ h.pc \in {"ReadRoom", "CommitOwnerAvatar"}
    THEN [Event("avatar", h.c, h.s, Nil) EXCEPT !.a = h.a]
  ELSE Nil

\* The event it owes them after that one.
OwedNext == IF Running /\ flight[1].pc = "Broadcast" THEN flight[1].then ELSE Nil

\* What the client of session s shows once it has been told m.
Told(s, v, m) ==
  IF m = Nil \/ parts[flight[1].c][s] = Nil \/ s = m.x THEN v ELSE Applied(s, v, m)

\* What it is to show then.
Expected(s) ==
  IF Running /\ flight[1].op = "avatar" /\ flight[1].pc \in {"ReadRoom", "CommitOwnerAvatar"}
     /\ parts[flight[1].c][s] # Nil /\ meta[flight[1].c].owner = flight[1].s
  THEN [ActualView(s) EXCEPT !.avatar = flight[1].a] ELSE ActualView(s)

ViewsTrue ==
  \A s \in Sessions :
    /\ s \notin open => view[s] = NoView
    /\ s \in open =>
         \/ Running /\ s = flight[1].s /\ flight[1].op = "join" /\ flight[1].pc \in Snapping
         \/ Told(s, Told(s, view[s], Owed), OwedNext) = Expected(s)

Consistent == ServedTrue /\ SocketsTrue /\ AvatarsTrue /\ ViewsTrue

\* A handler that has read goes on: what is owed and what is unsettled stays.
ReadMove ==
  /\ Running /\ Running'
  /\ flight'[1].op = flight[1].op /\ flight'[1].s = flight[1].s
  /\ flight[1].pc # "Broadcast" /\ flight'[1].pc # "EnsureNotInRoom"
  /\ flight'[1].pc = "ReadKeys" => flight[1].op \in Leaving
  /\ flight[1].op # "avatar" => flight'[1].pc # "Broadcast"
  /\ flight[1].op = "join" =>
       /\ flight'[1].pc \in Snapping <=> flight[1].pc \in Snapping
       /\ flight'[1].pc \in Snapping => flight'[1].c = flight[1].c
  /\ flight[1].op = "avatar" =>
       \/ flight[1].pc = "RequireSession" /\ flight'[1].pc = "CommitSessionAvatar"
       \/ flight[1].pc = "ReadParticipant" /\ flight'[1].pc = "CommitParticipantAvatar"
       \/ /\ flight[1].pc = "ReadRoom" /\ flight'[1].pc = "CommitOwnerAvatar"
          /\ flight'[1].c = flight[1].c /\ flight'[1].a = flight[1].a
       \/ /\ flight[1].pc = "ReadRoom" /\ flight'[1] = AvatarUpdated(flight[1])
          /\ meta[flight[1].c].owner # flight[1].s

\* What createRoom and joinRoom both write, key by key.
LEMMA SeatFacts ==
  ASSUME KeysTypeOK, NEW s \in Sessions, NEW n \in Names, NEW c \in Codes, Seat(s, n, c)
  PROVE  /\ LowerCase[n] \in Names
         /\ parts'[c][s] # Nil /\ parts'[c][s].name = n /\ parts'[c][s].avatar = Nil
         /\ \A t \in Sessions : t # s => /\ parts'[c][t] = parts[c][t]
                                         /\ order'[c][t] = order[c][t]
                                         /\ sess'[t] = sess[t]
         /\ now \in Nat /\ now' \in Nat /\ now' > 0 /\ now' >= now
         /\ order'[c][s] = now'
         /\ names'[c][LowerCase[n]] = s
         /\ \A k \in Names : k # LowerCase[n] => names'[c][k] = names[c][k]
         /\ sess'[s].room = c /\ sess'[s].avatar = sess[s].avatar
         /\ state' = state
         /\ \A d \in Codes : d # c => /\ parts'[d] = parts[d] /\ order'[d] = order[d]
                                      /\ names'[d] = names[d]
<1> DEFINE p == [name |-> n, avatar |-> Nil]
<1>1. /\ p \in Participant /\ p # Nil /\ p.name = n /\ p.avatar = Nil
      /\ LowerCase[n] \in Names
  BY ParticipantReal, LowerCaseAssumption DEF Participant
<1>2. parts' = [parts EXCEPT ![c][s] = p]
  BY DEF Seat
<1> HIDE DEF p
<1>3. /\ parts'[c][s] = p /\ \A t \in Sessions : t # s => parts'[c][t] = parts[c][t]
      /\ \A d \in Codes : d # c => parts'[d] = parts[d]
  BY <1>2 DEF KeysTypeOK
<1>5. now \in Nat /\ now' \in Nat /\ now' > 0 /\ now' >= now
  BY MaxNowAssumption DEF Seat, KeysTypeOK
<1>6. /\ order'[c][s] = now' /\ \A t \in Sessions : t # s => order'[c][t] = order[c][t]
      /\ \A d \in Codes : d # c => order'[d] = order[d]
  BY DEF Seat, KeysTypeOK
<1>7. /\ names'[c][LowerCase[n]] = s
      /\ \A k \in Names : k # LowerCase[n] => names'[c][k] = names[c][k]
      /\ \A d \in Codes : d # c => names'[d] = names[d]
  BY <1>1 DEF Seat, KeysTypeOK
<1>8. \A t \in Sessions : t # s => sess'[t] = sess[t]
  BY DEF Seat, KeysTypeOK
<1>9. sess'[s].room = c /\ sess'[s].avatar = sess[s].avatar
  BY DEF Seat, KeysTypeOK, Session
<1>10. state' = state
  BY DEF Seat
<1> QED
  BY <1>1, <1>3, <1>5, <1>6, <1>7, <1>8, <1>9, <1>10

\* The sessions with an entry, when one gets an entry.
LEMMA InGains ==
  ASSUME NEW f, NEW g, NEW s \in Sessions, g[s] # Nil,
         \A t \in Sessions : t # s => g[t] = f[t]
  PROVE  In(g) = In(f) \cup {s}
  BY DEF In

\* The number of participants is a number.
LEMMA Counted ==
  ASSUME NEW S \in SUBSET Sessions
  PROVE  /\ IsFiniteSet(S) /\ Cardinality(S) \in Nat
         /\ Cardinality(S) = 0 <=> S = {}
         /\ \A s \in Sessions \ S : Cardinality(S \cup {s}) = Cardinality(S) + 1
         /\ \A s \in S : Cardinality(S \ {s}) = Cardinality(S) - 1
<1>1. IsFiniteSet(S)
  BY SessionsAssumption, FS_Subset
<1> QED
  BY <1>1, FS_CardinalityType, FS_EmptySet, FS_AddElement, FS_RemoveElement

\* A session that enters no other room under a free name keeps the names, the
\* sessions and the stamps exact.
LEMMA SeatExact ==
  ASSUME KeysTypeOK, Exact, NEW s \in Sessions, NEW n \in Names, NEW c \in Codes, Seat(s, n, c),
         sess[s].room = Nil, names[c][LowerCase[n]] = Nil
  PROVE  /\ NameKeysExact' /\ SessionsMatchSeats'
         /\ \A t \in Sessions : sess'[t].room = Nil => sess'[t] = NoSession
         /\ \A d \in Codes, t \in Sessions : order'[d][t] <= now'
         /\ \A d \in Codes : s \notin In(parts[d])
<1>1. \A d \in Codes : s \notin In(parts[d])
  BY CodesAssumption DEF Exact, SessionsMatchSeats, Present, In
<1>2. ASSUME NEW d \in Codes, NEW k \in Names, NEW t \in Sessions
      PROVE  names'[d][k] = t <=> t \in In(parts'[d]) /\ LowerCase[parts'[d][t].name] = k
  <2>1. names[d][k] = t <=> t \in In(parts[d]) /\ LowerCase[parts[d][t].name] = k
    BY DEF Exact, NameKeysExact, Present, In
  <2>2. t # Nil
    BY SessionsAssumption
  <2>3. CASE d = c /\ t = s
    BY <1>1, <2>1, <2>2, <2>3, SeatFacts DEF In
  <2>4. CASE d = c /\ t # s
    BY <1>1, <2>1, <2>2, <2>4, SeatFacts DEF In
  <2>5. CASE d # c
    BY <2>1, <2>5, SeatFacts DEF In
  <2> QED
    BY <2>3, <2>4, <2>5
<1>3. ASSUME NEW d \in Codes, NEW t \in Sessions
      PROVE  sess'[t].room = d <=> t \in In(parts'[d])
  <2>1. sess[t].room = d <=> parts[d][t] # Nil
    BY DEF Exact, SessionsMatchSeats, Present
  <2>2. parts[d][s] = Nil
    BY <1>1 DEF In
  <2>3. CASE t = s
    BY <2>2, <2>3, SeatFacts DEF In
  <2>4. CASE t # s
    BY <2>1, <2>4, SeatFacts DEF In
  <2> QED
    BY <2>3, <2>4
<1>4. ASSUME NEW t \in Sessions, sess'[t].room = Nil PROVE sess'[t] = NoSession
  BY <1>4, SeatFacts, CodesAssumption DEF Exact
<1>5. ASSUME NEW d \in Codes, NEW t \in Sessions PROVE order'[d][t] <= now'
  <2>1. order[d][t] <= now /\ order[d][t] \in Nat
    BY DEF Exact, KeysTypeOK
  <2> QED
    BY <2>1, SeatFacts
<1> QED
  BY <1>1, <1>2, <1>3, <1>4, <1>5 DEF NameKeysExact, SessionsMatchSeats, Present, In

\* createRoom, with a code that no key mentions.
LEMMA AddRoomExact ==
  ASSUME KeysTypeOK, Exact, NEW s \in Sessions, NEW n \in Names, NEW c \in Codes,
         NEW b \in BOOLEAN, AddRoom(s, n, c, b), ~ meta[c].code, sess[s].room = Nil
  PROVE  Exact'
<1>1. Seat(s, n, c) /\ LowerCase[n] \in Names
  BY LowerCaseAssumption DEF AddRoom
<1>2. /\ In(parts[c]) = {} /\ state[c] = Nil /\ names[c][LowerCase[n]] = Nil
      /\ \A t \in Sessions : order[c][t] = 0
  BY <1>1 DEF Exact, NothingLeftBehind, Present, In
<1>3. \A d \in Codes : meta'[d] = IF d = c THEN [code |-> TRUE, owner |-> s, count |-> 1,
                                      takeover |-> b, avatar |-> Nil] ELSE meta[d]
  BY DEF AddRoom, KeysTypeOK
<1>4. /\ In(parts'[c]) = {s} /\ Cardinality(In(parts'[c])) = 1
      /\ \A t \in Sessions : order'[c][t] # 0 <=> t = s
  <2>1. /\ parts'[c][s] # Nil /\ \A t \in Sessions : t # s => parts'[c][t] = parts[c][t]
        /\ order'[c][s] # 0 /\ \A t \in Sessions : t # s => order'[c][t] = order[c][t]
    BY <1>1, SeatFacts
  <2>2. In(parts'[c]) = {s}
    BY <1>2, <2>1, InGains
  <2> QED
    BY <1>2, <2>1, <2>2, FS_Singleton
<1>5. RoomsAccountedFor'
  <2> SUFFICES ASSUME NEW d \in Codes, meta'[d].code
               PROVE  /\ meta'[d].count = Cardinality(In(parts'[d]))
                      /\ meta'[d].owner \in In(parts'[d])
                      /\ \A t \in Sessions : order'[d][t] # 0 <=> t \in In(parts'[d])
    BY DEF RoomsAccountedFor, Present, In
  <2>1. CASE d = c
    BY <1>2, <1>3, <1>4, <2>1
  <2>2. CASE d # c
    <3>1. /\ meta'[d] = meta[d] /\ parts'[d] = parts[d] /\ order'[d] = order[d]
      BY <1>1, <1>3, <2>2, SeatFacts
    <3> QED
      BY <3>1 DEF Exact, RoomsAccountedFor, Present, In
  <2> QED
    BY <2>1, <2>2
<1>6. NothingLeftBehind'
  <2> SUFFICES ASSUME NEW d \in Codes, ~ meta'[d].code
               PROVE  /\ meta'[d] = NoRoom /\ In(parts'[d]) = {} /\ state'[d] = Nil
                      /\ \A t \in Sessions : order'[d][t] = 0
                      /\ \A k \in Names : names'[d][k] = Nil
    BY DEF NothingLeftBehind, Present, In
  <2>1. d # c
    BY <1>3
  <2>2. /\ meta'[d] = meta[d] /\ parts'[d] = parts[d] /\ order'[d] = order[d]
        /\ state' = state /\ names'[d] = names[d]
    BY <1>1, <1>3, <2>1, SeatFacts
  <2> QED
    BY <2>2 DEF Exact, NothingLeftBehind, Present, In
<1> QED
  BY <1>1, <1>2, <1>5, <1>6, SeatExact DEF Exact

\* joinRoom, with the count of the room as it is.
LEMMA AddParticipantExact ==
  ASSUME KeysTypeOK, Exact, NEW s \in Sessions, NEW n \in Names, NEW c \in Codes,
         AddParticipant(s, n, c, meta[c].count), meta[c].code, sess[s].room = Nil,
         names[c][LowerCase[n]] = Nil
  PROVE  Exact'
<1>1. Seat(s, n, c) /\ meta[c] \in Room
  BY DEF AddParticipant, KeysTypeOK
<1>2. /\ meta[c].count = Cardinality(In(parts[c])) /\ meta[c].owner \in In(parts[c])
      /\ \A t \in Sessions : order[c][t] # 0 <=> t \in In(parts[c])
  BY DEF Exact, RoomsAccountedFor, Present, In
<1>3. s \notin In(parts[c]) /\ In(parts[c]) \in SUBSET Sessions
  BY <1>1, SeatExact DEF In
<1>4. meta[c].count \in Nat /\ meta[c].count # 0 /\ Cardinality(In(parts[c]) \cup {s}) = meta[c].count + 1
  BY <1>2, <1>3, Counted
<1>5. \A d \in Codes : d # c => meta'[d] = meta[d]
  BY DEF AddParticipant, KeysTypeOK
<1>6. meta'[c].code /\ meta'[c].count = meta[c].count + 1 /\ meta'[c].owner = meta[c].owner
  <2>1. meta'[c] = [meta[c] EXCEPT !.count = meta[c].count + 1]
    BY <1>4 DEF AddParticipant, KeysTypeOK, Plus
  <2> QED
    BY <1>1, <2>1 DEF Room
<1>9. /\ parts'[c][s] # Nil /\ \A t \in Sessions : t # s => parts'[c][t] = parts[c][t]
      /\ order'[c][s] # 0 /\ \A t \in Sessions : t # s => order'[c][t] = order[c][t]
  BY <1>1, SeatFacts
<1>10. In(parts'[c]) = In(parts[c]) \cup {s}
  BY <1>9 DEF In
<1>7. RoomsAccountedFor'
  <2> SUFFICES ASSUME NEW d \in Codes, meta'[d].code
               PROVE  /\ meta'[d].count = Cardinality(In(parts'[d]))
                      /\ meta'[d].owner \in In(parts'[d])
                      /\ \A t \in Sessions : order'[d][t] # 0 <=> t \in In(parts'[d])
    BY DEF RoomsAccountedFor, Present, In
  <2>1. CASE d = c
    BY <1>2, <1>4, <1>6, <1>9, <1>10, <2>1
  <2>2. CASE d # c
    <3>1. /\ meta'[d] = meta[d] /\ parts'[d] = parts[d] /\ order'[d] = order[d]
      BY <1>1, <1>5, <2>2, SeatFacts
    <3>2. /\ meta[d].count = Cardinality(In(parts[d])) /\ meta[d].owner \in In(parts[d])
          /\ \A t \in Sessions : order[d][t] # 0 <=> t \in In(parts[d])
      BY <3>1 DEF Exact, RoomsAccountedFor, Present, In
    <3> QED
      BY <3>1, <3>2
  <2> QED
    BY <2>1, <2>2
<1>8. NothingLeftBehind'
  <2> SUFFICES ASSUME NEW d \in Codes, ~ meta'[d].code
               PROVE  /\ meta'[d] = NoRoom /\ In(parts'[d]) = {} /\ state'[d] = Nil
                      /\ \A t \in Sessions : order'[d][t] = 0
                      /\ \A k \in Names : names'[d][k] = Nil
    BY DEF NothingLeftBehind, Present, In
  <2>1. d # c
    BY <1>6
  <2>2. /\ meta'[d] = meta[d] /\ parts'[d] = parts[d] /\ order'[d] = order[d]
        /\ state' = state /\ names'[d] = names[d]
    BY <1>1, <1>5, <2>1, SeatFacts
  <2> QED
    BY <2>2 DEF Exact, NothingLeftBehind, Present, In
<1> QED
  BY <1>1, <1>7, <1>8, SeatExact DEF Exact

\* What a participant's entry says of its room.
LEMMA MemberFacts ==
  ASSUME KeysTypeOK, Exact, NEW s \in Sessions, NEW c \in Codes, parts[c][s] # Nil
  PROVE  /\ meta[c].code /\ meta[c] \in Room /\ sess[s].room = c
         /\ meta[c].count = Cardinality(In(parts[c])) /\ meta[c].count \in Nat \ {0}
         /\ meta[c].owner \in Sessions /\ parts[c][meta[c].owner] # Nil
         /\ \A t \in Sessions : order[c][t] # 0 <=> parts[c][t] # Nil
         /\ parts[c][s] \in Participant /\ parts[c][s].name \in Names
         /\ parts[c][s].avatar \in Avatars \cup {Nil}
         /\ LowerCase[parts[c][s].name] \in Names
         /\ \A d \in Codes : d # c => parts[d][s] = Nil
         /\ meta[c].count = 1 => In(parts[c]) = {s}
<1>1. meta[c].code
  BY DEF Exact, NothingLeftBehind, Present
<1>2. /\ meta[c].count = Cardinality(In(parts[c])) /\ meta[c].owner \in In(parts[c])
      /\ \A t \in Sessions : order[c][t] # 0 <=> t \in In(parts[c])
  BY <1>1 DEF Exact, RoomsAccountedFor, Present, In
<1>3. In(parts[c]) \in SUBSET Sessions /\ s \in In(parts[c])
  BY DEF In
<1>4. meta[c].count \in Nat \ {0}
  BY <1>2, <1>3, Counted
<1>5. \A d \in Codes : sess[s].room = d <=> parts[d][s] # Nil
  BY DEF Exact, SessionsMatchSeats, Present
<1>6. parts[c][s] \in Participant /\ meta[c] \in Room
  BY DEF KeysTypeOK
<1>7. /\ parts[c][s].name \in Names /\ parts[c][s].avatar \in Avatars \cup {Nil}
      /\ LowerCase[parts[c][s].name] \in Names
  BY <1>6, LowerCaseAssumption DEF Participant
<1>8. ASSUME meta[c].count = 1 PROVE In(parts[c]) = {s}
  <2> DEFINE S == In(parts[c])
  <2>1. S \in SUBSET Sessions /\ s \in S /\ Cardinality(S) = 1
    BY <1>2, <1>3, <1>8
  <2> HIDE DEF S
  <2>2. Cardinality(S \ {s}) = 0 /\ S \ {s} \in SUBSET Sessions
    BY <2>1, Counted
  <2>3. S \ {s} = {}
    BY <2>2, Counted
  <2>4. S = {s}
    BY <2>1, <2>3
  <2> QED
    BY <2>4 DEF S
<1> QED
  BY <1>1, <1>2, <1>3, <1>4, <1>5, <1>6, <1>7, <1>8 DEF In

\* leaveRoom of the last participant.
LEMMA DeleteRoomExact ==
  ASSUME KeysTypeOK, Exact, NEW s \in Sessions, NEW c \in Codes, parts[c][s] # Nil,
         meta[c].count = 1, DeleteRoom(s, parts[c][s].name, c)
  PROVE  Exact'
<1> DEFINE n == parts[c][s].name
<1>1. In(parts[c]) = {s} /\ LowerCase[n] \in Names
  BY MemberFacts
<1>2. /\ meta'[c] = NoRoom /\ parts'[c] = NoParts /\ order'[c] = NoOrder /\ state'[c] = Nil
      /\ names'[c][LowerCase[n]] = Nil
      /\ \A k \in Names : k # LowerCase[n] => names'[c][k] = names[c][k]
      /\ sess'[s] = NoSession /\ now' = now
  BY <1>1 DEF DeleteRoom, KeysTypeOK
<1>3. \A d \in Codes : d # c => /\ meta'[d] = meta[d] /\ parts'[d] = parts[d]
                                /\ order'[d] = order[d] /\ names'[d] = names[d]
                                /\ state'[d] = state[d]
  BY DEF DeleteRoom, KeysTypeOK
<1>4. \A t \in Sessions : t # s => sess'[t] = sess[t]
  BY DEF DeleteRoom, KeysTypeOK
<1>5. \A k \in Names : names'[c][k] = Nil
  <2> SUFFICES ASSUME NEW k \in Names, k # LowerCase[n] PROVE names[c][k] = Nil
    BY <1>2
  <2>1. \A t \in Sessions : names[c][k] # t
    <3> SUFFICES ASSUME NEW t \in Sessions, names[c][k] = t PROVE FALSE
      OBVIOUS
    <3>1. parts[c][t] # Nil /\ LowerCase[parts[c][t].name] = k
      BY DEF Exact, NameKeysExact, Present
    <3>2. t = s
      BY <1>1, <3>1 DEF In
    <3> QED
      BY <3>1, <3>2
  <2> QED
    BY <2>1 DEF KeysTypeOK
<1>6. \A t \in Sessions : NoParts[t] = Nil /\ NoOrder[t] = 0
  BY DEF NoParts, NoOrder
<1>7. ~ NoRoom.code /\ NoSession.room = Nil
  BY DEF NoRoom, NoSession
<1>8. RoomsAccountedFor'
  <2> SUFFICES ASSUME NEW d \in Codes, meta'[d].code
               PROVE  /\ meta'[d].count = Cardinality(In(parts'[d]))
                      /\ meta'[d].owner \in In(parts'[d])
                      /\ \A t \in Sessions : order'[d][t] # 0 <=> t \in In(parts'[d])
    BY DEF RoomsAccountedFor, Present, In
  <2>1. /\ meta'[d] = meta[d] /\ parts'[d] = parts[d] /\ order'[d] = order[d]
    BY <1>2, <1>3, <1>7
  <2>2. /\ meta[d].count = Cardinality(In(parts[d])) /\ meta[d].owner \in In(parts[d])
        /\ \A t \in Sessions : order[d][t] # 0 <=> t \in In(parts[d])
    BY <2>1 DEF Exact, RoomsAccountedFor, Present, In
  <2> QED
    BY <2>1, <2>2
<1>9. NothingLeftBehind'
  BY <1>2, <1>3, <1>5, <1>6 DEF Exact, NothingLeftBehind, Present
<1>10. NameKeysExact'
  <2> SUFFICES ASSUME NEW d \in Codes, NEW k \in Names, NEW t \in Sessions
               PROVE  names'[d][k] = t <=> parts'[d][t] # Nil /\ LowerCase[parts'[d][t].name] = k
    BY DEF NameKeysExact, Present
  <2>1. CASE d = c
    BY <1>2, <1>5, <1>6, <2>1, SessionsAssumption
  <2>2. CASE d # c
    BY <1>3, <2>2 DEF Exact, NameKeysExact, Present
  <2> QED
    BY <2>1, <2>2
<1>11. SessionsMatchSeats'
  <2> SUFFICES ASSUME NEW d \in Codes, NEW t \in Sessions
               PROVE  sess'[t].room = d <=> parts'[d][t] # Nil
    BY DEF SessionsMatchSeats, Present
  <2>1. sess[t].room = d <=> parts[d][t] # Nil
    BY DEF Exact, SessionsMatchSeats, Present
  <2>2. CASE t = s
    BY <1>2, <1>3, <1>6, <1>7, <2>2, CodesAssumption, MemberFacts
  <2>3. CASE t # s
    <3>1. d = c => parts[d][t] = Nil
      BY <1>1, <2>3 DEF In
    <3> QED
      BY <1>2, <1>3, <1>4, <1>6, <2>1, <2>3, <3>1
  <2> QED
    BY <2>2, <2>3
<1>12. \A t \in Sessions : sess'[t].room = Nil => sess'[t] = NoSession
  BY <1>2, <1>4 DEF Exact
<1>13. \A d \in Codes, t \in Sessions : order'[d][t] <= now'
  BY <1>2, <1>3, <1>6 DEF Exact, KeysTypeOK
<1> QED
  BY <1>8, <1>9, <1>10, <1>11, <1>12, <1>13 DEF Exact

\* leaveRoom of another participant; an owner hands the room to another one.
LEMMA RemoveParticipantExact ==
  ASSUME KeysTypeOK, Exact, NEW s \in Sessions, NEW c \in Codes, parts[c][s] # Nil,
         NEW o \in Sessions \cup {Nil}, NEW p \in Participant \cup {Nil},
         RemoveParticipant(s, parts[c][s].name, c, meta[c].count - 1, o, p),
         IF o = Nil THEN meta[c].owner # s ELSE o # s /\ parts[c][o] # Nil
  PROVE  /\ Exact'
         /\ \A d \in Codes : meta'[d].owner = IF d = c /\ o # Nil THEN o ELSE meta[d].owner
         /\ \A d \in Codes : meta'[d].code = meta[d].code /\ meta'[d].takeover = meta[d].takeover
<1> DEFINE n == parts[c][s].name
<1>1. /\ LowerCase[n] \in Names /\ meta[c] \in Room /\ meta[c].code
      /\ meta[c].count = Cardinality(In(parts[c])) /\ meta[c].count \in Nat
      /\ meta[c].owner \in Sessions /\ parts[c][meta[c].owner] # Nil
      /\ \A t \in Sessions : order[c][t] # 0 <=> parts[c][t] # Nil
  BY MemberFacts
<1>2. /\ parts'[c][s] = Nil /\ order'[c][s] = 0
      /\ \A t \in Sessions : t # s => /\ parts'[c][t] = parts[c][t]
                                      /\ order'[c][t] = order[c][t]
                                      /\ sess'[t] = sess[t]
      /\ names'[c][LowerCase[n]] = Nil
      /\ \A k \in Names : k # LowerCase[n] => names'[c][k] = names[c][k]
      /\ sess'[s] = NoSession /\ now' = now /\ state' = state
  BY <1>1 DEF RemoveParticipant, KeysTypeOK
<1>3. \A d \in Codes : d # c => /\ meta'[d] = meta[d] /\ parts'[d] = parts[d]
                                /\ order'[d] = order[d] /\ names'[d] = names[d]
  BY DEF RemoveParticipant, KeysTypeOK
<1>4. /\ meta'[c].code = meta[c].code /\ meta'[c].count = meta[c].count - 1
      /\ meta'[c].owner = (IF o = Nil THEN meta[c].owner ELSE o)
      /\ meta'[c].takeover = meta[c].takeover
  <2>1. meta'[c] = Continued(meta[c], meta[c].count - 1, o, p)
    BY DEF RemoveParticipant, KeysTypeOK
  <2> QED
    BY <1>1, <2>1 DEF Continued, Room
<1>5. In(parts'[c]) = In(parts[c]) \ {s} /\ s \in In(parts[c]) /\ In(parts[c]) \in SUBSET Sessions
  BY <1>2 DEF In
<1>6. Cardinality(In(parts'[c])) = meta[c].count - 1
  BY <1>1, <1>5, Counted
<1>7. NoSession.room = Nil
  BY DEF NoSession
<1>8. RoomsAccountedFor'
  <2> SUFFICES ASSUME NEW d \in Codes, meta'[d].code
               PROVE  /\ meta'[d].count = Cardinality(In(parts'[d]))
                      /\ meta'[d].owner \in In(parts'[d])
                      /\ \A t \in Sessions : order'[d][t] # 0 <=> t \in In(parts'[d])
    BY DEF RoomsAccountedFor, Present, In
  <2>1. CASE d = c
    <3>1. meta'[c].owner \in Sessions /\ parts'[c][meta'[c].owner] # Nil
      BY <1>1, <1>2, <1>4
    <3>2. \A t \in Sessions : order'[c][t] # 0 <=> parts'[c][t] # Nil
      BY <1>1, <1>2
    <3> QED
      BY <1>4, <1>6, <2>1, <3>1, <3>2 DEF In
  <2>2. CASE d # c
    <3>1. /\ meta[d].count = Cardinality(In(parts[d])) /\ meta[d].owner \in In(parts[d])
          /\ \A t \in Sessions : order[d][t] # 0 <=> t \in In(parts[d])
      BY <1>3, <2>2 DEF Exact, RoomsAccountedFor, Present, In
    <3> QED
      BY <1>3, <2>2, <3>1
  <2> QED
    BY <2>1, <2>2
<1>9. NothingLeftBehind'
  <2> SUFFICES ASSUME NEW d \in Codes, ~ meta'[d].code
               PROVE  /\ meta'[d] = NoRoom /\ In(parts'[d]) = {} /\ state'[d] = Nil
                      /\ \A t \in Sessions : order'[d][t] = 0
                      /\ \A k \in Names : names'[d][k] = Nil
    BY DEF NothingLeftBehind, Present, In
  <2>1. d # c
    BY <1>1, <1>4
  <2> QED
    BY <1>2, <1>3, <2>1 DEF Exact, NothingLeftBehind, Present, In
<1>10. NameKeysExact'
  <2> SUFFICES ASSUME NEW d \in Codes, NEW k \in Names, NEW t \in Sessions
               PROVE  names'[d][k] = t <=> parts'[d][t] # Nil /\ LowerCase[parts'[d][t].name] = k
    BY DEF NameKeysExact, Present
  <2>1. names[d][k] = t <=> parts[d][t] # Nil /\ LowerCase[parts[d][t].name] = k
    BY DEF Exact, NameKeysExact, Present
  <2>2. names[c][LowerCase[n]] = s
    BY <1>1 DEF Exact, NameKeysExact, Present
  <2>3. CASE d # c
    BY <1>3, <2>1, <2>3
  <2>4. CASE d = c /\ t = s
    BY <1>2, <2>1, <2>4, SessionsAssumption
  <2>5. CASE d = c /\ t # s
    BY <1>2, <2>1, <2>2, <2>5, SessionsAssumption
  <2> QED
    BY <2>3, <2>4, <2>5
<1>11. SessionsMatchSeats'
  <2> SUFFICES ASSUME NEW d \in Codes, NEW t \in Sessions
               PROVE  sess'[t].room = d <=> parts'[d][t] # Nil
    BY DEF SessionsMatchSeats, Present
  <2>1. sess[t].room = d <=> parts[d][t] # Nil
    BY DEF Exact, SessionsMatchSeats, Present
  <2>2. CASE t = s
    BY <1>2, <1>3, <1>7, <2>2, CodesAssumption, MemberFacts
  <2>3. CASE t # s
    BY <1>2, <1>3, <2>1, <2>3
  <2> QED
    BY <2>2, <2>3
<1>12. \A t \in Sessions : sess'[t].room = Nil => sess'[t] = NoSession
  BY <1>2 DEF Exact
<1>13. \A d \in Codes, t \in Sessions : order'[d][t] <= now'
  BY <1>2, <1>3 DEF Exact, KeysTypeOK
<1>14. /\ \A d \in Codes : meta'[d].owner = IF d = c /\ o # Nil THEN o ELSE meta[d].owner
       /\ \A d \in Codes : meta'[d].code = meta[d].code /\ meta'[d].takeover = meta[d].takeover
  BY <1>3, <1>4
<1> QED
  BY <1>8, <1>9, <1>10, <1>11, <1>12, <1>13, <1>14 DEF Exact

\* A participant's entry written anew, and its display key with it.
LEMMA EntryExact ==
  ASSUME KeysTypeOK, Exact, NEW s \in Sessions, NEW c \in Codes, parts[c][s] # Nil,
         NEW p \in Participant, parts'[c][s] = p,
         \A d \in Codes, t \in Sessions : d # c \/ t # s => parts'[d][t] = parts[d][t],
         names[c][LowerCase[p.name]] \in {Nil, s},
         \A d \in Codes : d # c => names'[d] = names[d],
         names'[c][LowerCase[p.name]] = s,
         \A k \in Names : k # LowerCase[p.name] =>
            names'[c][k] = IF k = LowerCase[parts[c][s].name] THEN Nil ELSE names[c][k],
         UNCHANGED <<meta, order, state, sess, now>>
  PROVE  /\ Exact' /\ parts'[c][s] # Nil
         /\ \A d \in Codes, t \in Sessions : parts'[d][t] = Nil <=> parts[d][t] = Nil
<1> DEFINE n == p.name
<1>1. p # Nil /\ n \in Names
  BY ParticipantReal DEF Participant
<1>3. /\ parts'[c][s] = p
      /\ \A d \in Codes, t \in Sessions : d # c \/ t # s => parts'[d][t] = parts[d][t]
  OBVIOUS
<1>4. \A d \in Codes, t \in Sessions : parts'[d][t] = Nil <=> parts[d][t] = Nil
  BY <1>1, <1>3
<1>5. \A d \in Codes : In(parts'[d]) = In(parts[d])
  BY <1>4 DEF In
<1>6. RoomsAccountedFor'
  <2> SUFFICES ASSUME NEW d \in Codes, meta[d].code
               PROVE  /\ meta[d].count = Cardinality(In(parts'[d]))
                      /\ meta[d].owner \in In(parts'[d])
                      /\ \A t \in Sessions : order[d][t] # 0 <=> t \in In(parts'[d])
    BY DEF RoomsAccountedFor, Present, In
  <2>1. /\ meta[d].count = Cardinality(In(parts[d])) /\ meta[d].owner \in In(parts[d])
        /\ \A t \in Sessions : order[d][t] # 0 <=> t \in In(parts[d])
    BY DEF Exact, RoomsAccountedFor, Present, In
  <2>2. In(parts'[d]) = In(parts[d])
    BY <1>5
  <2> QED
    BY <2>1, <2>2
<1>7. NothingLeftBehind'
  <2> SUFFICES ASSUME NEW d \in Codes, ~ meta[d].code
               PROVE  /\ meta[d] = NoRoom /\ In(parts'[d]) = {} /\ state[d] = Nil
                      /\ \A t \in Sessions : order[d][t] = 0
                      /\ \A k \in Names : names'[d][k] = Nil
    BY DEF NothingLeftBehind, Present, In
  <2>1. d # c
    BY MemberFacts
  <2> QED
    BY <1>5, <2>1 DEF Exact, NothingLeftBehind, Present, In
<1>8. NameKeysExact'
  <2> SUFFICES ASSUME NEW d \in Codes, NEW k \in Names, NEW t \in Sessions
               PROVE  names'[d][k] = t <=> parts'[d][t] # Nil /\ LowerCase[parts'[d][t].name] = k
    BY DEF NameKeysExact, Present
  <2>1. names[d][k] = t <=> parts[d][t] # Nil /\ LowerCase[parts[d][t].name] = k
    BY DEF Exact, NameKeysExact, Present
  <2>2. names[c][LowerCase[parts[c][s].name]] = s
    BY MemberFacts DEF Exact, NameKeysExact, Present
  <2>3. CASE d # c
    BY <1>3, <2>1, <2>3
  <2>4. CASE d = c /\ t = s
    BY <1>1, <1>3, <2>1, <2>2, <2>4, SessionsAssumption
  <2>5. CASE d = c /\ t # s
    <3>1. parts'[d][t] = parts[d][t]
      BY <1>3, <2>5
    <3>2. CASE k = LowerCase[n]
      BY <2>1, <2>5, <3>1, <3>2, SessionsAssumption
    <3>3. CASE k # LowerCase[n]
      BY <2>1, <2>2, <2>5, <3>1, <3>3, SessionsAssumption
    <3> QED
      BY <3>2, <3>3
  <2> QED
    BY <2>3, <2>4, <2>5
<1>9. SessionsMatchSeats'
  BY <1>4 DEF Exact, SessionsMatchSeats, Present
<1> QED
  BY <1>1, <1>3, <1>4, <1>6, <1>7, <1>8, <1>9 DEF Exact

\* updateDisplayName: the old display key goes, the new one comes.
LEMMA WriteNameExact ==
  ASSUME KeysTypeOK, Exact, NEW s \in Sessions, NEW c \in Codes, parts[c][s] # Nil,
         NEW n \in Names, NEW a \in Avatars \cup {Nil}, names[c][LowerCase[n]] \in {Nil, s},
         WriteName(s, parts[c][s].name, n, c, a)
  PROVE  /\ Exact'
         /\ parts'[c][s] # Nil /\ parts'[c][s].name = n /\ parts'[c][s].avatar = a
         /\ \A d \in Codes, t \in Sessions : d # c \/ t # s => parts'[d][t] = parts[d][t]
         /\ \A d \in Codes, t \in Sessions : parts'[d][t] = Nil <=> parts[d][t] = Nil
         /\ UNCHANGED <<meta, order, state, sess, now>>
<1> DEFINE old == parts[c][s].name
<1>1. LowerCase[n] \in Names /\ LowerCase[old] \in Names
  BY MemberFacts, LowerCaseAssumption
<1>2. /\ \A d \in Codes : d # c => names'[d] = names[d]
      /\ names'[c][LowerCase[n]] = s
      /\ \A k \in Names : k # LowerCase[n] =>
            names'[c][k] = IF k = LowerCase[old] THEN Nil ELSE names[c][k]
  BY <1>1 DEF WriteName, KeysTypeOK
<1>3. /\ parts' = [parts EXCEPT ![c][s] = [name |-> n, avatar |-> a]]
      /\ UNCHANGED <<meta, order, state, sess, now>>
  BY DEF WriteName
<1> DEFINE p == [name |-> n, avatar |-> a]
<1>4. p \in Participant /\ p.name = n /\ p.avatar = a
  BY DEF Participant
<1> HIDE DEF p
<1>5. parts' = [parts EXCEPT ![c][s] = p]
  BY <1>3 DEF p
<1>6. /\ parts'[c][s] = p
      /\ \A d \in Codes, t \in Sessions : d # c \/ t # s => parts'[d][t] = parts[d][t]
  BY <1>5 DEF KeysTypeOK
<1> HIDE DEF old
<1>7. /\ Exact' /\ parts'[c][s] # Nil
      /\ \A d \in Codes, t \in Sessions : parts'[d][t] = Nil <=> parts[d][t] = Nil
  BY <1>2, <1>3, <1>4, <1>6, EntryExact DEF old
<1> QED
  BY <1>3, <1>4, <1>6, <1>7

\* updateAvatarId writes the participant with the name it has.
LEMMA WriteParticipantExact ==
  ASSUME KeysTypeOK, Exact, NEW s \in Sessions, NEW c \in Codes, parts[c][s] # Nil,
         NEW a \in Avatars \cup {Nil}, WriteParticipant(s, c, parts[c][s].name, a)
  PROVE  /\ Exact'
         /\ parts'[c][s] # Nil /\ parts'[c][s].name = parts[c][s].name /\ parts'[c][s].avatar = a
         /\ \A d \in Codes, t \in Sessions : d # c \/ t # s => parts'[d][t] = parts[d][t]
         /\ \A d \in Codes, t \in Sessions : parts'[d][t] = Nil <=> parts[d][t] = Nil
         /\ UNCHANGED <<meta, order, state, sess, now>>
<1> DEFINE n == parts[c][s].name
<1>1. n \in Names /\ LowerCase[n] \in Names
  BY MemberFacts
<1>2. names[c][LowerCase[n]] = s
  BY <1>1 DEF Exact, NameKeysExact, Present
<1>3. /\ parts' = [parts EXCEPT ![c][s] = [name |-> n, avatar |-> a]] /\ names' = names
      /\ UNCHANGED <<meta, order, state, sess, now>>
  BY DEF WriteParticipant
<1> DEFINE p == [name |-> n, avatar |-> a]
<1>5. p \in Participant /\ p.name = n /\ p.avatar = a
  BY <1>1 DEF Participant
<1> HIDE DEF p
<1>6. parts' = [parts EXCEPT ![c][s] = p]
  BY <1>3 DEF p
<1>7. /\ parts'[c][s] = p
      /\ \A d \in Codes, t \in Sessions : d # c \/ t # s => parts'[d][t] = parts[d][t]
  BY <1>6 DEF KeysTypeOK
<1> HIDE DEF n
<1>4. \A k \in Names : k # LowerCase[n] => names'[c][k] = IF k = LowerCase[n] THEN Nil ELSE names[c][k]
  BY <1>3
<1>8. /\ Exact' /\ parts'[c][s] # Nil
      /\ \A d \in Codes, t \in Sessions : parts'[d][t] = Nil <=> parts[d][t] = Nil
  BY <1>1, <1>2, <1>3, <1>4, <1>5, <1>7, EntryExact DEF n
<1> QED
  BY <1>3, <1>5, <1>7, <1>8 DEF n

\* A write to the room hash, the session hash or the state leaves exact keys exact.
LEMMA HashExact ==
  ASSUME KeysTypeOK, Exact, parts' = parts, order' = order, names' = names, now' = now,
         \A d \in Codes : /\ meta'[d].code = meta[d].code
                          /\ meta'[d].count = meta[d].count
                          /\ meta'[d].owner \in {meta[d].owner} \cup In(parts[d]),
         \A d \in Codes : meta[d].code \/ (meta'[d] = meta[d] /\ state'[d] = state[d]),
         \A t \in Sessions : sess'[t].room = sess[t].room,
         \A t \in Sessions : sess[t].room # Nil \/ sess'[t] = sess[t]
  PROVE  Exact'
<1>1. RoomsAccountedFor'
  BY DEF Exact, RoomsAccountedFor, Present, In
<1>2. NothingLeftBehind'
  BY DEF Exact, NothingLeftBehind, Present
<1>3. NameKeysExact' /\ SessionsMatchSeats'
  BY DEF Exact, NameKeysExact, SessionsMatchSeats, Present
<1> QED
  BY <1>1, <1>2, <1>3 DEF Exact

\* A step that writes no key.
LEMMA SameExact ==
  ASSUME Exact, UNCHANGED <<meta, parts, order, names, state, sess, now>> PROVE Exact'
  BY DEF Exact, RoomsAccountedFor, NothingLeftBehind, NameKeysExact, SessionsMatchSeats, Present

-----------------------------------------------------------------------------
(* Without overlap: the handler that runs.                                 *)

\* Handlers that run alone.
LEMMA AloneWaits ==
  ASSUME TypeOK, Len(flight) <= 1, NEW k \in DOMAIN flight, NEW g, Wait(k, g)
  PROVE  k = 1 /\ Len(flight) = 1 /\ Len(flight') = 1 /\ DOMAIN flight' = {1} /\ flight'[1] = g
<1>0. flight \in Seq(Handler)
  BY DEF TypeOK, FlightOK
<1>1. k = 1 /\ Len(flight) = 1 /\ DOMAIN flight = {1}
  <2>1. Len(flight) \in Nat /\ DOMAIN flight = 1..Len(flight)
    BY <1>0
  <2>2. k \in 1..Len(flight)
    BY <2>1
  <2> QED
    BY <2>1, <2>2
<1>2. CASE Fifo
  <2>1. flight' = Append(Tail(flight), g) /\ Len(Tail(flight)) = 0 /\ Tail(flight) \in Seq(Handler)
    BY <1>0, <1>1, <1>2, HeadTailProperties DEF Wait
  <2>2. Tail(flight) = <<>>
    BY <2>1, EmptySeq
  <2> QED
    BY <1>1, <2>1, <2>2
<1>3. CASE ~ Fifo
  <2>1. flight' = [flight EXCEPT ![1] = g]
    BY <1>1, <1>3 DEF Wait
  <2>2. Len(flight') = Len(flight)
    BY <1>0, <2>1
  <2> QED
    BY <1>1, <2>1, <2>2
<1> QED
  BY <1>2, <1>3

\* The handler that waits is the handler that runs.
LEMMA AloneMoves ==
  ASSUME TypeOK, SerialInv, NEW k \in DOMAIN flight, NEW g, Wait(k, g)
  PROVE  k = 1 /\ Running /\ Running' /\ flight'[1] = g
<1>1. k = 1 /\ Len(flight) = 1 /\ Len(flight') = 1 /\ flight'[1] = g
  BY AloneWaits DEF SerialInv
<1>2. flight # <<>> /\ flight' # <<>>
  BY <1>1
<1> QED
  BY <1>1, <1>2 DEF Running

\* A handler that ran alone leaves none.
LEMMA AloneReturns ==
  ASSUME TypeOK, Len(flight) <= 1, NEW k \in DOMAIN flight, Return(k)
  PROVE  flight' = <<>> /\ k = 1 /\ Len(flight) = 1
<1>0. flight \in Seq(Handler)
  BY DEF TypeOK, FlightOK
<1>1. k = 1 /\ Len(flight) = 1 /\ DOMAIN flight = {1}
  <2>1. Len(flight) \in Nat /\ DOMAIN flight = 1..Len(flight)
    BY <1>0
  <2>2. k \in 1..Len(flight)
    BY <2>1
  <2> QED
    BY <2>1, <2>2
<1>2. SubSeq(flight, 1, 0) = <<>> /\ SubSeq(flight, 2, 1) = <<>>
  BY <1>0, <1>1
<1> QED
  BY <1>0, <1>1, <1>2 DEF Return, RemoveAt

\* A handler starts alone.
LEMMA AloneStarts ==
  ASSUME TypeOK, MaxInFlight = 1, NEW g, Start(g)
  PROVE  flight = <<>> /\ Len(flight') = 1 /\ DOMAIN flight' = {1} /\ flight'[1] = g
<1>0. flight \in Seq(Handler)
  BY DEF TypeOK, FlightOK
<1>1. Len(flight) = 0
  BY <1>0, LenProperties DEF Start
<1>2. flight = <<>>
  BY <1>0, <1>1, EmptySeq
<1> QED
  BY <1>2 DEF Start

\* A handler that has only read goes on with what it has read.
LEMMA ReadTrue ==
  ASSUME TypeOK, SerialInv, NEW k \in DOMAIN flight, NEW g, Wait(k, g), HandlerTrue(g),
         UNCHANGED keys
  PROVE  SerialInv'
<1>1. Len(flight') = 1 /\ DOMAIN flight' = {1} /\ flight'[1] = g
  BY AloneWaits DEF SerialInv
<1>2. UNCHANGED <<meta, parts, order, names, state, sess, now>>
  BY DEF keys
<1>3. Exact'
  BY <1>2 DEF SerialInv, Exact, RoomsAccountedFor, NothingLeftBehind, NameKeysExact,
     SessionsMatchSeats, Present
<1>4. HandlerTrue(flight[1])'
  BY <1>1, <1>2 DEF HandlerTrue, Entering, Departing, Renaming, Taking, Updating, Heir, Present
<1> QED
  BY <1>1, <1>3, <1>4 DEF SerialInv, FlightTrue

\* What a step of the handler that runs may assume.
LEMMA RunFacts ==
  ASSUME TypeOK, SerialInv, NEW k, NEW ops, NEW pc, At(k, ops, pc)
  PROVE  /\ k \in DOMAIN flight /\ KeysTypeOK /\ Exact
         /\ flight[k] \in Handler /\ flight[k].s \in Sessions
         /\ flight[k].op \in ops /\ flight[k].pc = pc
         /\ HandlerOK(flight[k]) /\ HandlerTrue(flight[k]) /\ ~ Refused(flight[k])
<1>1. FlightOK /\ KeysTypeOK
  BY DEF TypeOK
<1>2. k \in DOMAIN flight /\ flight[k].op \in ops /\ flight[k].pc = pc /\ ~ Refused(flight[k])
  BY DEF At
<1>3. HandlerOK(flight[k]) /\ flight[k] \in Handler
  BY <1>1, <1>2 DEF FlightOK, HandlerOK
<1>4. flight[k].s \in Sessions
  BY <1>3 DEF Handler
<1> QED
  BY <1>1, <1>2, <1>3, <1>4 DEF SerialInv, FlightTrue

\* A request about the current room is about the room its session is in.
LEMMA InRoomFacts ==
  ASSUME KeysTypeOK, Exact, NEW h \in Handler, HandlerOK(h), HandlerTrue(h),
         h.op \notin {"create", "join"}, h.pc \in Located \ {"Broadcast"}
  PROVE  h.c \in Codes /\ sess[h.s].room = h.c /\ parts[h.c][h.s] # Nil
<1>1. h.c \in Codes /\ h.s \in Sessions
  BY LocatedFacts DEF Handler
<1>2. sess[h.s].room = h.c
  BY DEF HandlerTrue, Located
<1> QED
  BY <1>1, <1>2 DEF Exact, SessionsMatchSeats, Present

\* Every step that only reads keeps the invariant.
LEMMA ReadsExact ==
  ASSUME TypeOK, SerialInv, NEW k,
         \/ EnsureNotInRoom(k) \/ PickCode(k)
         \/ JoinReadRoom(k) \/ JoinReadHolder(k)
         \/ SnapRoom(k) \/ SnapOrder(k) \/ SnapParticipants(k)
         \/ RequireSession(k)
         \/ LeaveReadParticipant(k) \/ LeaveReadRoom(k) \/ LeaveReadOrder(k)
         \/ LeaveReadKeys(k) \/ LeaveReadNewOwner(k)
         \/ RenameReadHolder(k) \/ RenameReadParticipant(k)
         \/ TakeReadRoom(k) \/ TakeReadAvatar(k)
         \/ SettingsReadRoom(k) \/ ParamsReadRoom(k)
         \/ AvatarReadParticipant(k) \/ AvatarReadRoom(k)
  PROVE  SerialInv' /\ ReadMove
<1> DEFINE h == flight[k]
<1>1. CASE EnsureNotInRoom(k)
  <2>1. At(k, {"create", "join"}, "EnsureNotInRoom") /\ UNCHANGED <<keys, sockets, view>>
    BY <1>1 DEF EnsureNotInRoom
  <2>2. /\ k \in DOMAIN flight /\ KeysTypeOK /\ Exact /\ h \in Handler /\ h.s \in Sessions
        /\ h.op \in {"create", "join"} /\ h.pc = "EnsureNotInRoom" /\ HandlerOK(h) /\ HandlerTrue(h)
        /\ ~ Refused(h)
    BY <2>1, RunFacts
  <2>4. sess[h.s].room = Nil
    BY <2>2 DEF Refused
  <2> DEFINE g == [h EXCEPT !.pc = IF h.op = "create" THEN "PickCode" ELSE "ReadRoom"]
  <2>6. g.op = h.op /\ g.s = h.s /\ g.pc \in {"PickCode", "ReadRoom"}
    BY <2>2, <2>4 DEF Handler
  <2>7. Wait(k, g)
    BY <1>1 DEF EnsureNotInRoom
  <2> HIDE DEF g
  <2>8. HandlerTrue(g)
    BY <2>2, <2>4, <2>6 DEF HandlerTrue, Entering, Departing, Renaming, Taking, Updating, Leaving
  <2>9. ReadMove
    BY <2>2, <2>6, <2>7, AloneMoves DEF ReadMove, Leaving, Snapping
  <2> QED
    BY <2>1, <2>2, <2>7, <2>8, <2>9, ReadTrue
<1>2. CASE PickCode(k)
  <2>1. At(k, {"create"}, "PickCode") /\ UNCHANGED <<keys, sockets, view>>
    BY <1>2 DEF PickCode
  <2>2. /\ k \in DOMAIN flight /\ KeysTypeOK /\ Exact /\ h \in Handler /\ h.s \in Sessions
        /\ h.op \in {"create"} /\ h.pc = "PickCode" /\ HandlerOK(h) /\ HandlerTrue(h) /\ ~ Refused(h)
    BY <2>1, RunFacts
  <2>4. sess[h.s].room = Nil /\ ~ NoRoom.code
    BY <2>2 DEF HandlerTrue, Entering, NoRoom
  <2>5. PICK c \in Codes : meta[c] = NoRoom /\ Wait(k, [h EXCEPT !.pc = "CommitCreate", !.c = c])
    BY <1>2 DEF PickCode, Fresh
  <2> DEFINE g == [h EXCEPT !.pc = "CommitCreate", !.c = c]
  <2>6. g.op = h.op /\ g.s = h.s /\ g.pc = "CommitCreate" /\ g.c = c
    BY <2>2, <2>4, <2>5 DEF Handler
  <2>7. Wait(k, g)
    BY <2>2, <2>4, <2>5
  <2> HIDE DEF g
  <2>8. HandlerTrue(g)
    BY <2>2, <2>4, <2>5, <2>6 DEF HandlerTrue, Entering, Departing, Renaming, Taking, Updating, Leaving
  <2>9. ReadMove
    BY <2>2, <2>6, <2>7, AloneMoves DEF ReadMove, Leaving, Snapping
  <2> QED
    BY <2>1, <2>2, <2>7, <2>8, <2>9, ReadTrue
<1>3. CASE JoinReadRoom(k)
  <2>1. At(k, {"join"}, "ReadRoom") /\ UNCHANGED <<keys, sockets, view>>
    BY <1>3 DEF JoinReadRoom
  <2>2. /\ k \in DOMAIN flight /\ KeysTypeOK /\ Exact /\ h \in Handler /\ h.s \in Sessions
        /\ h.op \in {"join"} /\ h.pc = "ReadRoom" /\ HandlerOK(h) /\ HandlerTrue(h) /\ ~ Refused(h)
    BY <2>1, RunFacts
  <2>3. h.c \in Codes
    BY <2>2, LocatedFacts
  <2> DEFINE m == [h.m EXCEPT !.count = meta[h.c].count]
  <2>4. /\ m.count = meta[h.c].count /\ meta[h.c].code /\ meta[h.c].count \in Int /\ meta[h.c].count < RoomMax
        /\ sess[h.s].room = Nil /\ h.m \in Room
    BY <2>2, <2>3, KeyValues, RoomMaxAssumption DEF Refused, HandlerTrue, Entering, Handler, Room
  <2> DEFINE g == [h EXCEPT !.pc = "ReadHolder", !.m = m]
  <2> HIDE DEF m
  <2>6. g.op = h.op /\ g.s = h.s /\ g.pc = "ReadHolder" /\ g.c = h.c /\ g.m.count = meta[h.c].count
    BY <2>2, <2>3, <2>4 DEF Handler
  <2>7. Wait(k, g)
    BY <1>3 DEF JoinReadRoom, m
  <2> HIDE DEF g
  <2>8. HandlerTrue(g)
    BY <2>2, <2>3, <2>4, <2>6 DEF HandlerTrue, Entering, Departing, Renaming, Taking, Updating, Leaving
  <2>9. ReadMove
    BY <2>2, <2>6, <2>7, AloneMoves DEF ReadMove, Leaving, Snapping
  <2> QED
    BY <2>1, <2>2, <2>7, <2>8, <2>9, ReadTrue
<1>4. CASE JoinReadHolder(k)
  <2>1. At(k, {"join"}, "ReadHolder") /\ UNCHANGED <<keys, sockets, view>>
    BY <1>4 DEF JoinReadHolder
  <2>2. /\ k \in DOMAIN flight /\ KeysTypeOK /\ Exact /\ h \in Handler /\ h.s \in Sessions
        /\ h.op \in {"join"} /\ h.pc = "ReadHolder" /\ HandlerOK(h) /\ HandlerTrue(h) /\ ~ Refused(h)
    BY <2>1, RunFacts
  <2>3. h.c \in Codes
    BY <2>2, LocatedFacts
  <2>4. names[h.c][LowerCase[h.n]] = Nil
    BY <2>2 DEF Refused
  <2> DEFINE g == [h EXCEPT !.pc = "CommitJoin"]
  <2>6. g.op = h.op /\ g.s = h.s /\ g.pc = "CommitJoin" /\ g.c = h.c /\ g.m = h.m /\ g.n = h.n
    BY <2>2, <2>3, <2>4 DEF Handler
  <2>7. Wait(k, g)
    BY <1>4 DEF JoinReadHolder
  <2> HIDE DEF g
  <2>8. HandlerTrue(g)
    BY <2>2, <2>3, <2>4, <2>6 DEF HandlerTrue, Entering, Departing, Renaming, Taking, Updating, Leaving
  <2>9. ReadMove
    BY <2>2, <2>6, <2>7, AloneMoves DEF ReadMove, Leaving, Snapping
  <2> QED
    BY <2>1, <2>2, <2>7, <2>8, <2>9, ReadTrue
<1>5. CASE SnapRoom(k)
  <2>1. At(k, {"join"}, "SnapRoom") /\ UNCHANGED <<keys, sockets, view>>
    BY <1>5 DEF SnapRoom
  <2>2. /\ k \in DOMAIN flight /\ KeysTypeOK /\ Exact /\ h \in Handler /\ h.s \in Sessions
        /\ h.op \in {"join"} /\ h.pc = "SnapRoom" /\ HandlerOK(h) /\ HandlerTrue(h) /\ ~ Refused(h)
    BY <2>1, RunFacts
  <2>3. h.c \in Codes
    BY <2>2, LocatedFacts
  <2> DEFINE g == [h EXCEPT !.pc = "SnapOrder", !.m = meta[h.c]]
  <2>6. g.op = h.op /\ g.s = h.s /\ g.pc = "SnapOrder" /\ g.c = h.c /\ g.m = meta[h.c]
    BY <2>2, <2>3 DEF Handler
  <2>7. Wait(k, g)
    BY <1>5 DEF SnapRoom
  <2> HIDE DEF g
  <2>8. HandlerTrue(g)
    BY <2>2, <2>3, <2>6 DEF HandlerTrue, Entering, Departing, Renaming, Taking, Updating, Leaving
  <2>9. ReadMove
    BY <2>2, <2>6, <2>7, AloneMoves DEF ReadMove, Leaving, Snapping
  <2> QED
    BY <2>1, <2>2, <2>7, <2>8, <2>9, ReadTrue
<1>6. CASE SnapOrder(k)
  <2>1. At(k, {"join"}, "SnapOrder") /\ UNCHANGED <<keys, sockets, view>>
    BY <1>6 DEF SnapOrder
  <2>2. /\ k \in DOMAIN flight /\ KeysTypeOK /\ Exact /\ h \in Handler /\ h.s \in Sessions
        /\ h.op \in {"join"} /\ h.pc = "SnapOrder" /\ HandlerOK(h) /\ HandlerTrue(h) /\ ~ Refused(h)
    BY <2>1, RunFacts
  <2>3. h.c \in Codes
    BY <2>2, LocatedFacts
  <2> DEFINE g == [h EXCEPT !.pc = "SnapParticipants", !.q = order[h.c]]
  <2>6. g.op = h.op /\ g.s = h.s /\ g.pc = "SnapParticipants" /\ g.c = h.c /\ g.m = h.m /\ g.q = order[h.c]
    BY <2>2, <2>3 DEF Handler
  <2>7. Wait(k, g)
    BY <1>6 DEF SnapOrder
  <2> HIDE DEF g
  <2>8. HandlerTrue(g)
    BY <2>2, <2>3, <2>6 DEF HandlerTrue, Entering, Departing, Renaming, Taking, Updating, Leaving
  <2>9. ReadMove
    BY <2>2, <2>6, <2>7, AloneMoves DEF ReadMove, Leaving, Snapping
  <2> QED
    BY <2>1, <2>2, <2>7, <2>8, <2>9, ReadTrue
<1>7. CASE SnapParticipants(k)
  <2>1. At(k, {"join"}, "SnapParticipants") /\ UNCHANGED <<keys, sockets, view>>
    BY <1>7 DEF SnapParticipants
  <2>2. /\ k \in DOMAIN flight /\ KeysTypeOK /\ Exact /\ h \in Handler /\ h.s \in Sessions
        /\ h.op \in {"join"} /\ h.pc = "SnapParticipants" /\ HandlerOK(h) /\ HandlerTrue(h) /\ ~ Refused(h)
    BY <2>1, RunFacts
  <2>3. h.c \in Codes
    BY <2>2, LocatedFacts
  <2>4. [s \in Sessions |-> IF h.q[s] = 0 THEN Nil ELSE parts[h.c][s]] = parts[h.c]
    <3>1. h.q = order[h.c] /\ sess[h.s].room = h.c
      BY <2>2 DEF HandlerTrue, Entering
    <3>2. parts[h.c][h.s] # Nil
      BY <2>2, <2>3, <3>1 DEF Exact, SessionsMatchSeats, Present
    <3>3. \A s \in Sessions : order[h.c][s] # 0 <=> parts[h.c][s] # Nil
      BY <2>2, <2>3, <3>2, MemberFacts
    <3>4. parts[h.c] \in [Sessions -> Participant \cup {Nil}]
      BY <2>2, <2>3, KeyValues
    <3> QED
      BY <3>1, <3>3, <3>4
  <2> DEFINE g == [h EXCEPT !.pc = "SnapState", !.q = NoOrder,
                !.p = [s \in Sessions |-> IF h.q[s] = 0 THEN Nil ELSE parts[h.c][s]]]
  <2>6. g.op = h.op /\ g.s = h.s /\ g.pc = "SnapState" /\ g.c = h.c /\ g.m = h.m
        /\ g.p = [s \in Sessions |-> IF h.q[s] = 0 THEN Nil ELSE parts[h.c][s]]
    BY <2>2, <2>3, <2>4 DEF Handler
  <2>7. Wait(k, g)
    BY <1>7 DEF SnapParticipants
  <2> HIDE DEF g
  <2>8. HandlerTrue(g)
    BY <2>2, <2>3, <2>4, <2>6 DEF HandlerTrue, Entering, Departing, Renaming, Taking, Updating, Leaving
  <2>9. ReadMove
    BY <2>2, <2>6, <2>7, AloneMoves DEF ReadMove, Leaving, Snapping
  <2> QED
    BY <2>1, <2>2, <2>7, <2>8, <2>9, ReadTrue
<1>8. CASE RequireSession(k)
  <2>1. At(k, {"leave", "disconnect", "rename", "take", "settings", "params", "avatar"}, "RequireSession")
        /\ UNCHANGED <<keys, sockets, view>>
    BY <1>8 DEF RequireSession
  <2>2. /\ k \in DOMAIN flight /\ KeysTypeOK /\ Exact /\ h \in Handler /\ h.s \in Sessions
        /\ h.op \in {"leave", "disconnect", "rename", "take", "settings", "params", "avatar"}
        /\ h.pc = "RequireSession" /\ HandlerOK(h) /\ HandlerTrue(h) /\ ~ Refused(h)
    BY <2>1, RunFacts
  <2> DEFINE g == [h EXCEPT !.c = sess[h.s].room,
                     !.pc = CASE h.op \in {"leave", "disconnect"} -> "ReadParticipant"
                              [] h.op = "rename" -> "ReadHolder"
                              [] h.op = "avatar" -> "CommitSessionAvatar"
                              [] OTHER           -> "ReadRoom"]
  <2>6. g.op = h.op /\ g.s = h.s /\ g.c = sess[h.s].room /\ g.o = h.o /\ g.np = h.np
        /\ (h.op \in {"leave", "disconnect"} => g.pc = "ReadParticipant")
        /\ (h.op = "rename" => g.pc = "ReadHolder")
        /\ (h.op = "avatar" => g.pc = "CommitSessionAvatar")
        /\ (h.op \in {"take", "settings", "params"} => g.pc = "ReadRoom")
    BY <2>2 DEF Handler
  <2>7. Wait(k, g)
    BY <1>8 DEF RequireSession
  <2> HIDE DEF g
  <2>8. HandlerTrue(g)
    BY <2>2, <2>6 DEF HandlerTrue, Entering, Departing, Renaming, Taking, Updating, Leaving
  <2>9. ReadMove
    BY <2>2, <2>6, <2>7, AloneMoves DEF ReadMove, Leaving, Snapping
  <2> QED
    BY <2>1, <2>2, <2>7, <2>8, <2>9, ReadTrue
<1>9. CASE LeaveReadParticipant(k)
  <2>1. At(k, Leaving, "ReadParticipant") /\ UNCHANGED <<keys, sockets, view>>
    BY <1>9 DEF LeaveReadParticipant
  <2>2. /\ k \in DOMAIN flight /\ KeysTypeOK /\ Exact /\ h \in Handler /\ h.s \in Sessions
        /\ h.op \in Leaving /\ h.pc = "ReadParticipant" /\ HandlerOK(h) /\ HandlerTrue(h) /\ ~ Refused(h)
    BY <2>1, RunFacts
  <2>3. h.c \in Codes /\ sess[h.s].room = h.c /\ parts[h.c][h.s] # Nil
    BY <2>2, InRoomFacts DEF Located, Pcs, Leaving
  <2> DEFINE g == [h EXCEPT !.pc = "ReadRoom", !.old = parts[h.c][h.s].name]
  <2>6. g.op = h.op /\ g.s = h.s /\ g.pc = "ReadRoom" /\ g.c = h.c /\ g.old = parts[h.c][h.s].name
       /\ g.o = h.o /\ g.np = h.np
    BY <2>2, <2>3 DEF Handler
  <2>7. Wait(k, g)
    BY <1>9 DEF LeaveReadParticipant
  <2> HIDE DEF g
  <2>8. HandlerTrue(g)
    BY <2>2, <2>3, <2>6 DEF HandlerTrue, Entering, Departing, Renaming, Taking, Updating, Leaving
  <2>9. ReadMove
    BY <2>2, <2>6, <2>7, AloneMoves DEF ReadMove, Leaving, Snapping
  <2> QED
    BY <2>1, <2>2, <2>7, <2>8, <2>9, ReadTrue
<1>10. CASE LeaveReadRoom(k)
  <2>1. At(k, Leaving, "ReadRoom") /\ UNCHANGED <<keys, sockets, view>>
    BY <1>10 DEF LeaveReadRoom
  <2>2. /\ k \in DOMAIN flight /\ KeysTypeOK /\ Exact /\ h \in Handler /\ h.s \in Sessions
        /\ h.op \in Leaving /\ h.pc = "ReadRoom" /\ HandlerOK(h) /\ HandlerTrue(h) /\ ~ Refused(h)
    BY <2>1, RunFacts
  <2>3. h.c \in Codes /\ sess[h.s].room = h.c /\ parts[h.c][h.s] # Nil
    BY <2>2, InRoomFacts DEF Located, Pcs, Leaving
  <2> DEFINE left == Plus(meta[h.c].count, -1)
  <2> DEFINE m == [h.m EXCEPT !.count = left]
  <2>4. left = meta[h.c].count - 1 /\ m.count = left
    <3>1. meta[h.c].count \in Nat \ {0}
      BY <2>2, <2>3, MemberFacts
    <3> QED
      BY <2>2, <3>1 DEF Plus, Handler, Room
  <2> DEFINE g == [h EXCEPT !.pc = IF left # 0 /\ meta[h.c].owner = h.s THEN "ReadOrder" ELSE "CommitLeave",
                     !.m = m]
  <2> HIDE DEF m, left
  <2>6. g.op = h.op /\ g.s = h.s /\ g.pc = (IF left # 0
       /\ meta[h.c].owner = h.s THEN "ReadOrder" ELSE "CommitLeave")
        /\ g.c = h.c /\ g.m.count = left /\ g.old = h.old /\ g.o = h.o /\ g.np = h.np
    BY <2>2, <2>3, <2>4 DEF Handler
  <2>7. Wait(k, g)
    BY <1>10 DEF LeaveReadRoom, m, left
  <2> HIDE DEF g
  <2>8. HandlerTrue(g)
    BY <2>2, <2>3, <2>4, <2>6 DEF HandlerTrue, Entering, Departing, Renaming, Taking, Updating, Leaving
  <2>9. ReadMove
    BY <2>2, <2>6, <2>7, AloneMoves DEF ReadMove, Leaving, Snapping
  <2> QED
    BY <2>1, <2>2, <2>7, <2>8, <2>9, ReadTrue
<1>11. CASE LeaveReadOrder(k)
  <2>1. At(k, Leaving, "ReadOrder") /\ UNCHANGED <<keys, sockets, view>>
    BY <1>11 DEF LeaveReadOrder
  <2>2. /\ k \in DOMAIN flight /\ KeysTypeOK /\ Exact /\ h \in Handler /\ h.s \in Sessions
        /\ h.op \in Leaving /\ h.pc = "ReadOrder" /\ HandlerOK(h) /\ HandlerTrue(h) /\ ~ Refused(h)
    BY <2>1, RunFacts
  <2>3. h.c \in Codes /\ sess[h.s].room = h.c /\ parts[h.c][h.s] # Nil
    BY <2>2, InRoomFacts DEF Located, Pcs, Leaving
  <2> DEFINE g == [h EXCEPT !.pc = "ReadKeys", !.q = order[h.c]]
  <2>6. g.op = h.op /\ g.s = h.s /\ g.pc = "ReadKeys" /\ g.c = h.c /\ g.m = h.m /\ g.old = h.old
       /\ g.o = h.o /\ g.np = h.np
        /\ g.q = order[h.c]
    BY <2>2, <2>3 DEF Handler
  <2>7. Wait(k, g)
    BY <1>11 DEF LeaveReadOrder
  <2> HIDE DEF g
  <2>8. HandlerTrue(g)
    BY <2>2, <2>3, <2>6 DEF HandlerTrue, Entering, Departing, Renaming, Taking, Updating, Leaving
  <2>9. ReadMove
    BY <2>2, <2>6, <2>7, AloneMoves DEF ReadMove, Leaving, Snapping
  <2> QED
    BY <2>1, <2>2, <2>7, <2>8, <2>9, ReadTrue
<1>12. CASE LeaveReadKeys(k)
  <2>1. At(k, Leaving, "ReadKeys") /\ UNCHANGED <<keys, sockets, view>>
    BY <1>12 DEF LeaveReadKeys
  <2>2. /\ k \in DOMAIN flight /\ KeysTypeOK /\ Exact /\ h \in Handler /\ h.s \in Sessions
        /\ h.op \in Leaving /\ h.pc = "ReadKeys" /\ HandlerOK(h) /\ HandlerTrue(h) /\ ~ Refused(h)
    BY <2>1, RunFacts
  <2>3. h.c \in Codes /\ sess[h.s].room = h.c /\ parts[h.c][h.s] # Nil
    BY <2>2, InRoomFacts DEF Located, Pcs, Leaving
  <2>4. \A r \in Sessions : h.q[r] # 0 <=> parts[h.c][r] # Nil
    <3>1. h.q = order[h.c]
      BY <2>2 DEF HandlerTrue, Departing, Leaving
    <3> QED
      BY <2>2, <2>3, <3>1, MemberFacts
  <2>5. PICK o \in Sessions : /\ Heir(h.c, h.s, o)
                              /\ Wait(k, [h EXCEPT !.pc = "ReadNewOwner", !.q = NoOrder, !.o = o])
    <3> DEFINE rest == {r \in Present(h.c) \ {h.s} : h.q[r] # 0}
    <3>1. PICK o \in rest : /\ \A r \in rest : h.q[o] <= h.q[r]
                            /\ Wait(k, [h EXCEPT !.pc = "ReadNewOwner", !.q = NoOrder, !.o = o])
      BY <1>12 DEF LeaveReadKeys
    <3>2. rest = Present(h.c) \ {h.s}
      BY <2>4 DEF Present
    <3>3. h.q = order[h.c]
      BY <2>2 DEF HandlerTrue, Departing, Leaving
    <3>4. Heir(h.c, h.s, o) /\ o \in Sessions
      BY <3>1, <3>2, <3>3 DEF Heir, Present
    <3> QED
      BY <3>1, <3>4
  <2> DEFINE g == [h EXCEPT !.pc = "ReadNewOwner", !.q = NoOrder, !.o = o]
  <2>6. g.op = h.op /\ g.s = h.s /\ g.pc = "ReadNewOwner" /\ g.c = h.c /\ g.m = h.m /\ g.old = h.old
       /\ g.o = o /\ g.np = h.np
    BY <2>2, <2>3, <2>4, <2>5 DEF Handler
  <2>7. Wait(k, g)
    BY <2>2, <2>3, <2>4, <2>5
  <2> HIDE DEF g
  <2>8. HandlerTrue(g)
    BY <2>2, <2>3, <2>4, <2>5, <2>6 DEF HandlerTrue, Entering, Departing, Renaming, Taking, Updating, Leaving
  <2>9. ReadMove
    BY <2>2, <2>6, <2>7, AloneMoves DEF ReadMove, Leaving, Snapping
  <2> QED
    BY <2>1, <2>2, <2>7, <2>8, <2>9, ReadTrue
<1>13. CASE LeaveReadNewOwner(k)
  <2>1. At(k, Leaving, "ReadNewOwner") /\ UNCHANGED <<keys, sockets, view>>
    BY <1>13 DEF LeaveReadNewOwner
  <2>2. /\ k \in DOMAIN flight /\ KeysTypeOK /\ Exact /\ h \in Handler /\ h.s \in Sessions
        /\ h.op \in Leaving /\ h.pc = "ReadNewOwner" /\ HandlerOK(h) /\ HandlerTrue(h) /\ ~ Refused(h)
    BY <2>1, RunFacts
  <2>3. h.c \in Codes /\ sess[h.s].room = h.c /\ parts[h.c][h.s] # Nil
    BY <2>2, InRoomFacts DEF Located, Pcs, Leaving
  <2> DEFINE g == [h EXCEPT !.pc = "CommitLeave", !.np = parts[h.c][h.o]]
  <2>6. g.op = h.op /\ g.s = h.s /\ g.pc = "CommitLeave" /\ g.c = h.c /\ g.m = h.m /\ g.old = h.old
       /\ g.o = h.o
        /\ g.np = parts[h.c][h.o]
    BY <2>2, <2>3 DEF Handler
  <2>7. Wait(k, g)
    BY <1>13 DEF LeaveReadNewOwner
  <2> HIDE DEF g
  <2>8. HandlerTrue(g)
    BY <2>2, <2>3, <2>6 DEF HandlerTrue, Entering, Departing, Renaming, Taking, Updating, Leaving
  <2>9. ReadMove
    BY <2>2, <2>6, <2>7, AloneMoves DEF ReadMove, Leaving, Snapping
  <2> QED
    BY <2>1, <2>2, <2>7, <2>8, <2>9, ReadTrue
<1>14. CASE RenameReadHolder(k)
  <2>1. At(k, {"rename"}, "ReadHolder") /\ UNCHANGED <<keys, sockets, view>>
    BY <1>14 DEF RenameReadHolder
  <2>2. /\ k \in DOMAIN flight /\ KeysTypeOK /\ Exact /\ h \in Handler /\ h.s \in Sessions
        /\ h.op \in {"rename"} /\ h.pc = "ReadHolder" /\ HandlerOK(h) /\ HandlerTrue(h) /\ ~ Refused(h)
    BY <2>1, RunFacts
  <2>3. h.c \in Codes /\ sess[h.s].room = h.c /\ parts[h.c][h.s] # Nil
    BY <2>2, InRoomFacts DEF Located, Pcs, Leaving
  <2>4. names[h.c][LowerCase[h.n]] \in {Nil, h.s}
    BY <2>2 DEF Refused
  <2> DEFINE g == [h EXCEPT !.pc = "ReadParticipant"]
  <2>6. g.op = h.op /\ g.s = h.s /\ g.pc = "ReadParticipant" /\ g.c = h.c /\ g.n = h.n
    BY <2>2, <2>3, <2>4 DEF Handler
  <2>7. Wait(k, g)
    BY <1>14 DEF RenameReadHolder
  <2> HIDE DEF g
  <2>8. HandlerTrue(g)
    BY <2>2, <2>3, <2>4, <2>6 DEF HandlerTrue, Entering, Departing, Renaming, Taking, Updating, Leaving
  <2>9. ReadMove
    BY <2>2, <2>6, <2>7, AloneMoves DEF ReadMove, Leaving, Snapping
  <2> QED
    BY <2>1, <2>2, <2>7, <2>8, <2>9, ReadTrue
<1>15. CASE RenameReadParticipant(k)
  <2>1. At(k, {"rename"}, "ReadParticipant") /\ UNCHANGED <<keys, sockets, view>>
    BY <1>15 DEF RenameReadParticipant
  <2>2. /\ k \in DOMAIN flight /\ KeysTypeOK /\ Exact /\ h \in Handler /\ h.s \in Sessions
        /\ h.op \in {"rename"} /\ h.pc = "ReadParticipant" /\ HandlerOK(h) /\ HandlerTrue(h) /\ ~ Refused(h)
    BY <2>1, RunFacts
  <2>3. h.c \in Codes /\ sess[h.s].room = h.c /\ parts[h.c][h.s] # Nil
    BY <2>2, InRoomFacts DEF Located, Pcs, Leaving
  <2> DEFINE g == [h EXCEPT !.pc = "CommitRename", !.old = parts[h.c][h.s].name,
                     !.a = parts[h.c][h.s].avatar]
  <2>6. g.op = h.op /\ g.s = h.s /\ g.pc = "CommitRename" /\ g.c = h.c /\ g.n = h.n
        /\ g.old = parts[h.c][h.s].name /\ g.a = parts[h.c][h.s].avatar
    BY <2>2, <2>3 DEF Handler
  <2>7. Wait(k, g)
    BY <1>15 DEF RenameReadParticipant
  <2> HIDE DEF g
  <2>8. HandlerTrue(g)
    BY <2>2, <2>3, <2>6 DEF HandlerTrue, Entering, Departing, Renaming, Taking, Updating, Leaving
  <2>9. ReadMove
    BY <2>2, <2>6, <2>7, AloneMoves DEF ReadMove, Leaving, Snapping
  <2> QED
    BY <2>1, <2>2, <2>7, <2>8, <2>9, ReadTrue
<1>16. CASE TakeReadRoom(k)
  <2>1. At(k, {"take"}, "ReadRoom") /\ UNCHANGED <<keys, sockets, view>>
    BY <1>16 DEF TakeReadRoom
  <2>2. /\ k \in DOMAIN flight /\ KeysTypeOK /\ Exact /\ h \in Handler /\ h.s \in Sessions
        /\ h.op \in {"take"} /\ h.pc = "ReadRoom" /\ HandlerOK(h) /\ HandlerTrue(h) /\ ~ Refused(h)
    BY <2>1, RunFacts
  <2>3. h.c \in Codes /\ sess[h.s].room = h.c /\ parts[h.c][h.s] # Nil
    BY <2>2, InRoomFacts DEF Located, Pcs, Leaving
  <2>4. meta[h.c].takeover
    BY <2>2 DEF Refused
  <2> DEFINE g == [h EXCEPT !.pc = "ReadAvatar"]
  <2>6. g.op = h.op /\ g.s = h.s /\ g.pc = "ReadAvatar" /\ g.c = h.c
    BY <2>2, <2>3, <2>4 DEF Handler
  <2>7. Wait(k, g)
    BY <1>16 DEF TakeReadRoom
  <2> HIDE DEF g
  <2>8. HandlerTrue(g)
    BY <2>2, <2>3, <2>4, <2>6 DEF HandlerTrue, Entering, Departing, Renaming, Taking, Updating, Leaving
  <2>9. ReadMove
    BY <2>2, <2>6, <2>7, AloneMoves DEF ReadMove, Leaving, Snapping
  <2> QED
    BY <2>1, <2>2, <2>7, <2>8, <2>9, ReadTrue
<1>17. CASE TakeReadAvatar(k)
  <2>1. At(k, {"take"}, "ReadAvatar") /\ UNCHANGED <<keys, sockets, view>>
    BY <1>17 DEF TakeReadAvatar
  <2>2. /\ k \in DOMAIN flight /\ KeysTypeOK /\ Exact /\ h \in Handler /\ h.s \in Sessions
        /\ h.op \in {"take"} /\ h.pc = "ReadAvatar" /\ HandlerOK(h) /\ HandlerTrue(h) /\ ~ Refused(h)
    BY <2>1, RunFacts
  <2>3. h.c \in Codes /\ sess[h.s].room = h.c /\ parts[h.c][h.s] # Nil
    BY <2>2, InRoomFacts DEF Located, Pcs, Leaving
  <2> DEFINE g == [h EXCEPT !.pc = "CommitOwner", !.a = sess[h.s].avatar]
  <2>6. g.op = h.op /\ g.s = h.s /\ g.pc = "CommitOwner" /\ g.c = h.c /\ g.a = sess[h.s].avatar
    BY <2>2, <2>3 DEF Handler
  <2>7. Wait(k, g)
    BY <1>17 DEF TakeReadAvatar
  <2> HIDE DEF g
  <2>8. HandlerTrue(g)
    BY <2>2, <2>3, <2>6 DEF HandlerTrue, Entering, Departing, Renaming, Taking, Updating, Leaving
  <2>9. ReadMove
    BY <2>2, <2>6, <2>7, AloneMoves DEF ReadMove, Leaving, Snapping
  <2> QED
    BY <2>1, <2>2, <2>7, <2>8, <2>9, ReadTrue
<1>18. CASE SettingsReadRoom(k)
  <2>1. At(k, {"settings"}, "ReadRoom") /\ UNCHANGED <<keys, sockets, view>>
    BY <1>18 DEF SettingsReadRoom
  <2>2. /\ k \in DOMAIN flight /\ KeysTypeOK /\ Exact /\ h \in Handler /\ h.s \in Sessions
        /\ h.op \in {"settings"} /\ h.pc = "ReadRoom" /\ HandlerOK(h) /\ HandlerTrue(h) /\ ~ Refused(h)
    BY <2>1, RunFacts
  <2>3. h.c \in Codes /\ sess[h.s].room = h.c /\ parts[h.c][h.s] # Nil
    BY <2>2, InRoomFacts DEF Located, Pcs, Leaving
  <2>4. meta[h.c].owner = h.s
    BY <2>2 DEF Refused
  <2> DEFINE g == [h EXCEPT !.pc = "CommitSettings"]
  <2>6. g.op = h.op /\ g.s = h.s /\ g.pc = "CommitSettings" /\ g.c = h.c
    BY <2>2, <2>3, <2>4 DEF Handler
  <2>7. Wait(k, g)
    BY <1>18 DEF SettingsReadRoom
  <2> HIDE DEF g
  <2>8. HandlerTrue(g)
    BY <2>2, <2>3, <2>4, <2>6 DEF HandlerTrue, Entering, Departing, Renaming, Taking, Updating, Leaving
  <2>9. ReadMove
    BY <2>2, <2>6, <2>7, AloneMoves DEF ReadMove, Leaving, Snapping
  <2> QED
    BY <2>1, <2>2, <2>7, <2>8, <2>9, ReadTrue
<1>19. CASE ParamsReadRoom(k)
  <2>1. At(k, {"params"}, "ReadRoom") /\ UNCHANGED <<keys, sockets, view>>
    BY <1>19 DEF ParamsReadRoom
  <2>2. /\ k \in DOMAIN flight /\ KeysTypeOK /\ Exact /\ h \in Handler /\ h.s \in Sessions
        /\ h.op \in {"params"} /\ h.pc = "ReadRoom" /\ HandlerOK(h) /\ HandlerTrue(h) /\ ~ Refused(h)
    BY <2>1, RunFacts
  <2>3. h.c \in Codes /\ sess[h.s].room = h.c /\ parts[h.c][h.s] # Nil
    BY <2>2, InRoomFacts DEF Located, Pcs, Leaving
  <2> DEFINE g == [h EXCEPT !.pc = "CommitState"]
  <2>6. g.op = h.op /\ g.s = h.s /\ g.pc = "CommitState" /\ g.c = h.c
    BY <2>2, <2>3 DEF Handler
  <2>7. Wait(k, g)
    BY <1>19 DEF ParamsReadRoom
  <2> HIDE DEF g
  <2>8. HandlerTrue(g)
    BY <2>2, <2>3, <2>6 DEF HandlerTrue, Entering, Departing, Renaming, Taking, Updating, Leaving
  <2>9. ReadMove
    BY <2>2, <2>6, <2>7, AloneMoves DEF ReadMove, Leaving, Snapping
  <2> QED
    BY <2>1, <2>2, <2>7, <2>8, <2>9, ReadTrue
<1>20. CASE AvatarReadParticipant(k)
  <2>1. At(k, {"avatar"}, "ReadParticipant") /\ UNCHANGED <<keys, sockets, view>>
    BY <1>20 DEF AvatarReadParticipant
  <2>2. /\ k \in DOMAIN flight /\ KeysTypeOK /\ Exact /\ h \in Handler /\ h.s \in Sessions
        /\ h.op \in {"avatar"} /\ h.pc = "ReadParticipant" /\ HandlerOK(h) /\ HandlerTrue(h) /\ ~ Refused(h)
    BY <2>1, RunFacts
  <2>3. h.c \in Codes /\ sess[h.s].room = h.c /\ parts[h.c][h.s] # Nil
    BY <2>2, InRoomFacts DEF Located, Pcs, Leaving
  <2> DEFINE g == [h EXCEPT !.pc = "CommitParticipantAvatar", !.old = parts[h.c][h.s].name]
  <2>6. g.op = h.op /\ g.s = h.s /\ g.pc = "CommitParticipantAvatar" /\ g.c = h.c /\ g.a = h.a
        /\ g.old = parts[h.c][h.s].name
    BY <2>2, <2>3 DEF Handler
  <2>7. Wait(k, g)
    BY <1>20, <2>3 DEF AvatarReadParticipant
  <2> HIDE DEF g
  <2>8. HandlerTrue(g)
    BY <2>2, <2>3, <2>6 DEF HandlerTrue, Entering, Departing, Renaming, Taking, Updating, Leaving
  <2>9. ReadMove
    BY <2>2, <2>6, <2>7, AloneMoves DEF ReadMove, Leaving, Snapping
  <2> QED
    BY <2>1, <2>2, <2>7, <2>8, <2>9, ReadTrue
<1>21. CASE AvatarReadRoom(k)
  <2>1. At(k, {"avatar"}, "ReadRoom") /\ UNCHANGED <<keys, sockets, view>>
    BY <1>21 DEF AvatarReadRoom
  <2>2. /\ k \in DOMAIN flight /\ KeysTypeOK /\ Exact /\ h \in Handler /\ h.s \in Sessions
        /\ h.op = "avatar" /\ h.pc = "ReadRoom" /\ HandlerOK(h) /\ HandlerTrue(h)
    BY <2>1, RunFacts
  <2>3. h.c \in Codes /\ sess[h.s].room = h.c /\ parts[h.c][h.s] # Nil
    BY <2>2, InRoomFacts DEF Located, Pcs
  <2>4. CASE meta[h.c].owner = h.s
    <3> DEFINE g == [h EXCEPT !.pc = "CommitOwnerAvatar"]
    <3>1. g.op = h.op /\ g.s = h.s /\ g.c = h.c /\ g.a = h.a /\ g.pc = "CommitOwnerAvatar"
      BY <2>2 DEF Handler
    <3>2. Wait(k, g)
      BY <1>21, <2>4 DEF AvatarReadRoom
    <3> HIDE DEF g
    <3>3. HandlerTrue(g)
      BY <2>2, <2>3, <2>4, <3>1 DEF HandlerTrue, Updating, Leaving
    <3>4. ReadMove
      BY <2>2, <3>1, <3>2, AloneMoves DEF ReadMove, Snapping
    <3> QED
      BY <2>1, <2>2, <3>2, <3>3, <3>4, ReadTrue
  <2>5. CASE meta[h.c].owner # h.s
    <3> DEFINE g == AvatarUpdated(h)
    <3>1. g.op = h.op /\ g.s = h.s /\ g.c = h.c /\ g.pc = "Broadcast"
      BY <2>2 DEF AvatarUpdated, Started
    <3>2. Wait(k, g)
      BY <1>21, <2>5 DEF AvatarReadRoom
    <3> HIDE DEF g
    <3>6. flight'[1] = g /\ Running /\ Running' /\ k = 1
      BY <2>2, <3>2, AloneMoves
    <3>4. flight'[1] = AvatarUpdated(h) /\ Running /\ Running' /\ k = 1
      BY <3>6 DEF g
    <3>3. HandlerTrue(g)
      BY <2>2, <3>1 DEF HandlerTrue, Updating, Leaving
    <3>5. ReadMove
      BY <2>2, <2>5, <3>1, <3>2, <3>4, AloneMoves DEF ReadMove, Snapping, Running
    <3> QED
      BY <2>1, <2>2, <3>2, <3>3, <3>5, ReadTrue
  <2> QED
    BY <2>4, <2>5
<1> QED
  BY <1>1, <1>2, <1>3, <1>4, <1>5, <1>6, <1>7, <1>8, <1>9, <1>10, <1>11,
     <1>12, <1>13, <1>14, <1>15, <1>16, <1>17, <1>18, <1>19, <1>20, <1>21

\* A handler that has written all it will write, and broadcasts or returns.
LEMMA BroadcastTrue ==
  ASSUME TypeOK, SerialInv, NEW k \in DOMAIN flight, NEW g, Wait(k, g),
         g.op \in Requests \cup {"disconnect"}, g.pc = "Broadcast", Exact'
  PROVE  SerialInv'
<1>1. Len(flight') = 1 /\ DOMAIN flight' = {1} /\ flight'[1] = g
  BY AloneWaits DEF SerialInv
<1>2. HandlerTrue(flight[1])'
  BY <1>1 DEF HandlerTrue, Entering, Departing, Renaming, Taking, Updating, Leaving
<1> QED
  BY <1>1, <1>2 DEF SerialInv, FlightTrue

\* Without a handler there is nothing to remember.
LEMMA NobodyTrue == ASSUME flight' = <<>>, Exact' PROVE SerialInv'
<1>1. Len(flight') = 0 /\ DOMAIN flight' = {}
  OBVIOUS
<1> QED
  BY <1>1 DEF SerialInv, FlightTrue

\* Every step that writes keeps the invariant.
LEMMA CommitsExact ==
  ASSUME TypeOK, SerialInv, NEW k,
         \/ CommitCreate(k) \/ CommitJoin(k) \/ SnapState(k) \/ CommitLeave(k)
         \/ CommitRename(k) \/ CommitOwner(k) \/ CommitSettings(k) \/ CommitState(k)
         \/ CommitSessionAvatar(k) \/ CommitParticipantAvatar(k) \/ CommitOwnerAvatar(k)
  PROVE  SerialInv'
<1> DEFINE h == flight[k]
<1>1. CASE CommitCreate(k)
  <2>1. At(k, {"create"}, "CommitCreate")
    BY <1>1 DEF CommitCreate
  <2>2. /\ k \in DOMAIN flight /\ KeysTypeOK /\ Exact /\ h \in Handler /\ h.s \in Sessions
        /\ h.op \in {"create"} /\ h.pc = "CommitCreate" /\ HandlerOK(h) /\ HandlerTrue(h) /\ ~ Refused(h)
    BY <2>1, RunFacts
  <2>3. h.c \in Codes
    BY <2>2, LocatedFacts DEF Located, Pcs
  <2>4. AddRoom(h.s, h.n, h.c, h.b) /\ Return(k)
    BY <1>1 DEF CommitCreate
  <2>5. ~ meta[h.c].code /\ sess[h.s].room = Nil
    BY <2>2 DEF HandlerTrue, Entering
  <2>6. h.n \in Names /\ h.b \in BOOLEAN
    BY <2>2 DEF HandlerOK, Handler
  <2>7. Exact'
    BY <2>2, <2>3, <2>4, <2>5, <2>6, AddRoomExact
  <2> QED
    BY <2>2, <2>4, <2>7, AloneReturns, NobodyTrue DEF SerialInv
<1>2. CASE CommitJoin(k)
  <2>1. At(k, {"join"}, "CommitJoin")
    BY <1>2 DEF CommitJoin
  <2>2. /\ k \in DOMAIN flight /\ KeysTypeOK /\ Exact /\ h \in Handler /\ h.s \in Sessions
        /\ h.op \in {"join"} /\ h.pc = "CommitJoin" /\ HandlerOK(h) /\ HandlerTrue(h) /\ ~ Refused(h)
    BY <2>1, RunFacts
  <2>3. h.c \in Codes
    BY <2>2, LocatedFacts DEF Located, Pcs
  <2> DEFINE g == [h EXCEPT !.pc = "SnapRoom", !.m = NoRoom]
  <2>4. AddParticipant(h.s, h.n, h.c, h.m.count) /\ Wait(k, g)
    BY <1>2 DEF CommitJoin
  <2>5. /\ meta[h.c].code /\ h.m.count = meta[h.c].count /\ sess[h.s].room = Nil
        /\ names[h.c][LowerCase[h.n]] = Nil
    BY <2>2 DEF HandlerTrue, Entering
  <2>6. h.n \in Names
    BY <2>2 DEF HandlerOK, Handler
  <2>7. Exact'
    BY <2>2, <2>3, <2>4, <2>5, <2>6, AddParticipantExact
  <2>8. sess'[h.s].room = h.c
    BY <2>2, <2>3, <2>4, <2>6, SeatFacts DEF AddParticipant
  <2>9. g.op = "join" /\ g.s = h.s /\ g.c = h.c /\ g.pc = "SnapRoom"
    BY <2>2 DEF Handler
  <2> HIDE DEF g
  <2>10. Len(flight') = 1 /\ DOMAIN flight' = {1} /\ flight'[1] = g
    BY <2>2, <2>4, AloneWaits DEF SerialInv
  <2>11. HandlerTrue(flight[1])'
    BY <2>8, <2>9, <2>10 DEF HandlerTrue, Entering, Departing, Renaming, Taking, Updating, Leaving
  <2> QED
    BY <2>7, <2>10, <2>11 DEF SerialInv, FlightTrue
<1>3. CASE SnapState(k)
  <2>1. At(k, {"join"}, "SnapState")
    BY <1>3 DEF SnapState
  <2>2. /\ k \in DOMAIN flight /\ KeysTypeOK /\ Exact /\ h \in Handler /\ h.s \in Sessions
        /\ h.op \in {"join"} /\ h.pc = "SnapState" /\ HandlerOK(h) /\ HandlerTrue(h) /\ ~ Refused(h)
    BY <2>1, RunFacts
  <2>3. h.c \in Codes
    BY <2>2, LocatedFacts DEF Located, Pcs
  <2>4. UNCHANGED <<meta, parts, order, names, state, sess, now>>
    BY <1>3 DEF SnapState, keys
  <2>5. Exact'
    BY <2>2, <2>4, SameExact
  <2>6. CASE h.p[h.s] = Nil
    <3>1. Return(k)
      BY <1>3, <2>6 DEF SnapState
    <3> QED
      BY <2>2, <2>5, <3>1, AloneReturns, NobodyTrue DEF SerialInv
  <2>7. CASE h.p[h.s] # Nil
    <3> DEFINE g == [Started(h.op, h.s, "Broadcast") EXCEPT !.c = h.c,
                       !.out = [Event("joined", h.c, h.s, h.s)
                                  EXCEPT !.n = h.p[h.s].name, !.a = h.p[h.s].avatar]]
    <3>1. Wait(k, g)
      BY <1>3, <2>7 DEF SnapState
    <3>2. g.op = h.op /\ g.pc = "Broadcast"
      BY DEF Started
    <3> HIDE DEF g
    <3> QED
      BY <2>2, <2>5, <3>1, <3>2, BroadcastTrue DEF Handler
  <2> QED
    BY <2>6, <2>7
<1>4. CASE CommitLeave(k)
  <2>1. At(k, Leaving, "CommitLeave")
    BY <1>4 DEF CommitLeave
  <2>2. /\ k \in DOMAIN flight /\ KeysTypeOK /\ Exact /\ h \in Handler /\ h.s \in Sessions
        /\ h.op \in Leaving /\ h.pc = "CommitLeave" /\ HandlerOK(h) /\ HandlerTrue(h) /\ ~ Refused(h)
    BY <2>1, RunFacts
  <2>3. h.c \in Codes /\ sess[h.s].room = h.c /\ parts[h.c][h.s] # Nil
    BY <2>2, InRoomFacts DEF Located, Pcs, Leaving
  <2> DEFINE g == [Started(h.op, h.s, "Broadcast") EXCEPT !.c = h.c,
                     !.out = Event("left", h.c, h.s, h.s),
                     !.then = IF h.o = Nil THEN Nil ELSE Event("owner", h.c, h.o, Nil)]
  <2>4. Wait(k, g)
    BY <1>4 DEF CommitLeave
  <2>5. g.op = h.op /\ g.pc = "Broadcast"
    BY DEF Started
  <2> HIDE DEF g
  <2>6. h.old = parts[h.c][h.s].name /\ h.m.count = meta[h.c].count - 1
    BY <2>2 DEF HandlerTrue, Departing, Leaving
  <2>7. \/ h.o = Nil /\ h.np = Nil /\ (h.m.count = 0 \/ meta[h.c].owner # h.s)
        \/ /\ h.m.count # 0 /\ meta[h.c].owner = h.s
           /\ Heir(h.c, h.s, h.o) /\ h.np = parts[h.c][h.o]
    BY <2>2 DEF HandlerTrue, Departing, Leaving
  <2>8. meta[h.c].count \in Nat \ {0}
    BY <2>2, <2>3, MemberFacts
  <2>9. Exact'
    <3>1. CASE h.m.count = 0
      <4>1. DeleteRoom(h.s, parts[h.c][h.s].name, h.c)
        BY <1>4, <2>6, <3>1 DEF CommitLeave
      <4>2. meta[h.c].count = 1
        BY <2>6, <2>8, <3>1
      <4> QED
        BY <2>2, <2>3, <4>1, <4>2, DeleteRoomExact
    <3>2. CASE h.m.count # 0
      <4>1. RemoveParticipant(h.s, parts[h.c][h.s].name, h.c, meta[h.c].count - 1, h.o, h.np)
        BY <1>4, <2>6, <3>2 DEF CommitLeave
      <4>2. h.o \in Sessions \cup {Nil} /\ h.np \in Participant \cup {Nil}
        BY <2>2 DEF Handler
      <4>3. IF h.o = Nil THEN meta[h.c].owner # h.s ELSE h.o # h.s /\ parts[h.c][h.o] # Nil
        BY <2>7, <3>2, SessionsAssumption DEF Heir, Present
      <4> QED
        BY <2>2, <2>3, <4>1, <4>2, <4>3, RemoveParticipantExact
    <3> QED
      BY <3>1, <3>2
  <2> QED
    BY <2>2, <2>4, <2>5, <2>9, BroadcastTrue DEF Handler
<1>5. CASE CommitRename(k)
  <2>1. At(k, {"rename"}, "CommitRename")
    BY <1>5 DEF CommitRename
  <2>2. /\ k \in DOMAIN flight /\ KeysTypeOK /\ Exact /\ h \in Handler /\ h.s \in Sessions
        /\ h.op \in {"rename"} /\ h.pc = "CommitRename" /\ HandlerOK(h) /\ HandlerTrue(h) /\ ~ Refused(h)
    BY <2>1, RunFacts
  <2>3. h.c \in Codes /\ sess[h.s].room = h.c /\ parts[h.c][h.s] # Nil
    BY <2>2, InRoomFacts DEF Located, Pcs, Leaving
  <2>4. WriteName(h.s, h.old, h.n, h.c, h.a)
    BY <1>5 DEF CommitRename
  <2>5. /\ h.old = parts[h.c][h.s].name /\ names[h.c][LowerCase[h.n]] \in {Nil, h.s}
        /\ h.a = parts[h.c][h.s].avatar
    BY <2>2 DEF HandlerTrue, Renaming, Leaving
  <2>6. h.n \in Names /\ h.a \in Avatars \cup {Nil}
    BY <2>2 DEF HandlerOK, Handler
  <2>7. Exact'
    BY <2>2, <2>3, <2>4, <2>5, <2>6, WriteNameExact
  <2> DEFINE g == [Started(h.op, h.s, "Broadcast") EXCEPT !.c = h.c,
                     !.out = [Event("name", h.c, h.s, Nil) EXCEPT !.n = h.n]]
  <2>8. g.op = h.op /\ g.pc = "Broadcast"
    BY DEF Started
  <2>9. Wait(k, g)
    BY <1>5 DEF CommitRename
  <2> HIDE DEF g
  <2> QED
    BY <2>2, <2>7, <2>8, <2>9, BroadcastTrue DEF Handler
<1>6. CASE CommitOwner(k)
  <2>1. At(k, {"take"}, "CommitOwner")
    BY <1>6 DEF CommitOwner
  <2>2. /\ k \in DOMAIN flight /\ KeysTypeOK /\ Exact /\ h \in Handler /\ h.s \in Sessions
        /\ h.op \in {"take"} /\ h.pc = "CommitOwner" /\ HandlerOK(h) /\ HandlerTrue(h) /\ ~ Refused(h)
    BY <2>1, RunFacts
  <2>3. h.c \in Codes /\ sess[h.s].room = h.c /\ parts[h.c][h.s] # Nil
    BY <2>2, InRoomFacts DEF Located, Pcs, Leaving
  <2>4. /\ meta'[h.c].code = meta[h.c].code /\ meta'[h.c].count = meta[h.c].count
        /\ meta'[h.c].owner \in {meta[h.c].owner, h.s}
        /\ \A d \in Codes : d # h.c => meta'[d] = meta[d]
        /\ parts' = parts /\ order' = order /\ names' = names /\ now' = now
        /\ state' = state /\ sess' = sess
    BY <1>6, <2>2, <2>3 DEF CommitOwner, WriteOwner, KeysTypeOK, Room
  <2>6. meta[h.c].code /\ h.s \in In(parts[h.c])
    BY <2>2, <2>3, MemberFacts DEF In
  <2>5. /\ \A d \in Codes : /\ meta'[d].code = meta[d].code
                            /\ meta'[d].count = meta[d].count
                            /\ meta'[d].owner \in {meta[d].owner} \cup In(parts[d])
        /\ \A d \in Codes : meta[d].code \/ (meta'[d] = meta[d] /\ state'[d] = state[d])
        /\ \A t \in Sessions : sess'[t].room = sess[t].room
        /\ \A t \in Sessions : sess[t].room # Nil \/ sess'[t] = sess[t]
    BY <2>4, <2>6
  <2>7. Exact'
    BY <2>2, <2>3, <2>4, <2>5, HashExact
  <2> DEFINE g == [Started(h.op, h.s, "Broadcast") EXCEPT !.c = h.c, !.out = Event("owner", h.c, h.s, Nil)]
  <2>8. g.op = h.op /\ g.pc = "Broadcast"
    BY DEF Started
  <2>9. Wait(k, g)
    BY <1>6 DEF CommitOwner
  <2> HIDE DEF g
  <2> QED
    BY <2>2, <2>7, <2>8, <2>9, BroadcastTrue DEF Handler
<1>7. CASE CommitSettings(k)
  <2>1. At(k, {"settings"}, "CommitSettings")
    BY <1>7 DEF CommitSettings
  <2>2. /\ k \in DOMAIN flight /\ KeysTypeOK /\ Exact /\ h \in Handler /\ h.s \in Sessions
        /\ h.op \in {"settings"} /\ h.pc = "CommitSettings" /\ HandlerOK(h) /\ HandlerTrue(h) /\ ~ Refused(h)
    BY <2>1, RunFacts
  <2>3. h.c \in Codes /\ sess[h.s].room = h.c /\ parts[h.c][h.s] # Nil
    BY <2>2, InRoomFacts DEF Located, Pcs, Leaving
  <2>4. /\ meta'[h.c].code = meta[h.c].code /\ meta'[h.c].count = meta[h.c].count
        /\ meta'[h.c].owner \in {meta[h.c].owner, h.s}
        /\ \A d \in Codes : d # h.c => meta'[d] = meta[d]
        /\ parts' = parts /\ order' = order /\ names' = names /\ now' = now
        /\ state' = state /\ sess' = sess
    BY <1>7, <2>2, <2>3 DEF CommitSettings, WriteTakeover, KeysTypeOK, Room
  <2>6. meta[h.c].code /\ h.s \in In(parts[h.c])
    BY <2>2, <2>3, MemberFacts DEF In
  <2>5. /\ \A d \in Codes : /\ meta'[d].code = meta[d].code
                            /\ meta'[d].count = meta[d].count
                            /\ meta'[d].owner \in {meta[d].owner} \cup In(parts[d])
        /\ \A d \in Codes : meta[d].code \/ (meta'[d] = meta[d] /\ state'[d] = state[d])
        /\ \A t \in Sessions : sess'[t].room = sess[t].room
        /\ \A t \in Sessions : sess[t].room # Nil \/ sess'[t] = sess[t]
    BY <2>4, <2>6
  <2>7. Exact'
    BY <2>2, <2>3, <2>4, <2>5, HashExact
  <2> DEFINE g == [Started(h.op, h.s, "Broadcast") EXCEPT !.c = h.c,
                     !.out = [Event("settings", h.c, h.s, Nil) EXCEPT !.b = h.b]]
  <2>8. g.op = h.op /\ g.pc = "Broadcast"
    BY DEF Started
  <2>9. Wait(k, g)
    BY <1>7 DEF CommitSettings
  <2> HIDE DEF g
  <2> QED
    BY <2>2, <2>7, <2>8, <2>9, BroadcastTrue DEF Handler
<1>8. CASE CommitState(k)
  <2>1. At(k, {"params"}, "CommitState")
    BY <1>8 DEF CommitState
  <2>2. /\ k \in DOMAIN flight /\ KeysTypeOK /\ Exact /\ h \in Handler /\ h.s \in Sessions
        /\ h.op \in {"params"} /\ h.pc = "CommitState" /\ HandlerOK(h) /\ HandlerTrue(h) /\ ~ Refused(h)
    BY <2>1, RunFacts
  <2>3. h.c \in Codes /\ sess[h.s].room = h.c /\ parts[h.c][h.s] # Nil
    BY <2>2, InRoomFacts DEF Located, Pcs, Leaving
  <2>4. /\ \A d \in Codes : d # h.c => state'[d] = state[d]
        /\ parts' = parts /\ order' = order /\ names' = names /\ now' = now
        /\ meta' = meta /\ sess' = sess
    BY <1>8, <2>2, <2>3 DEF CommitState, WriteState, KeysTypeOK
  <2>6. meta[h.c].code
    BY <2>2, <2>3, MemberFacts
  <2>5. /\ \A d \in Codes : /\ meta'[d].code = meta[d].code
                            /\ meta'[d].count = meta[d].count
                            /\ meta'[d].owner \in {meta[d].owner} \cup In(parts[d])
        /\ \A d \in Codes : meta[d].code \/ (meta'[d] = meta[d] /\ state'[d] = state[d])
        /\ \A t \in Sessions : sess'[t].room = sess[t].room
        /\ \A t \in Sessions : sess[t].room # Nil \/ sess'[t] = sess[t]
    BY <2>4, <2>6
  <2>7. Exact'
    BY <2>2, <2>3, <2>4, <2>5, HashExact
  <2> DEFINE g == [Started(h.op, h.s, "Broadcast") EXCEPT !.c = h.c, !.out = Event("params", h.c, h.s, h.s)]
  <2>8. g.op = h.op /\ g.pc = "Broadcast"
    BY DEF Started
  <2>9. Wait(k, g)
    BY <1>8 DEF CommitState
  <2> HIDE DEF g
  <2> QED
    BY <2>2, <2>7, <2>8, <2>9, BroadcastTrue DEF Handler
<1>9. CASE CommitSessionAvatar(k)
  <2>1. At(k, {"avatar"}, "CommitSessionAvatar")
    BY <1>9 DEF CommitSessionAvatar
  <2>2. /\ k \in DOMAIN flight /\ KeysTypeOK /\ Exact /\ h \in Handler /\ h.s \in Sessions
        /\ h.op \in {"avatar"} /\ h.pc = "CommitSessionAvatar" /\ HandlerOK(h) /\ HandlerTrue(h)
        /\ ~ Refused(h)
    BY <2>1, RunFacts
  <2>3. h.c \in Codes /\ sess[h.s].room = h.c /\ parts[h.c][h.s] # Nil
    BY <2>2, InRoomFacts DEF Located, Pcs, Leaving
  <2> DEFINE g == [h EXCEPT !.pc = "ReadParticipant"]
  <2>4. WriteSessionAvatar(h.s, h.a) /\ Wait(k, g)
    BY <1>9 DEF CommitSessionAvatar
  <2>5. /\ \A t \in Sessions : sess'[t].room = sess[t].room
        /\ \A t \in Sessions : t # h.s => sess'[t] = sess[t]
        /\ sess'[h.s].avatar = h.a
        /\ parts' = parts /\ order' = order /\ names' = names /\ now' = now
        /\ meta' = meta /\ state' = state
    BY <2>2, <2>4 DEF WriteSessionAvatar, KeysTypeOK, Session
  <2>9. sess[h.s].room # Nil
    BY <2>3, CodesAssumption
  <2>6. /\ \A d \in Codes : /\ meta'[d].code = meta[d].code
                            /\ meta'[d].count = meta[d].count
                            /\ meta'[d].owner \in {meta[d].owner} \cup In(parts[d])
        /\ \A d \in Codes : meta[d].code \/ (meta'[d] = meta[d] /\ state'[d] = state[d])
        /\ \A t \in Sessions : sess[t].room # Nil \/ sess'[t] = sess[t]
    BY <2>5, <2>9
  <2>7. Exact'
    BY <2>2, <2>5, <2>6, HashExact
  <2>8. g.op = "avatar" /\ g.s = h.s /\ g.c = h.c /\ g.pc = "ReadParticipant" /\ g.a = h.a
    BY <2>2 DEF Handler
  <2> HIDE DEF g
  <2>10. Len(flight') = 1 /\ DOMAIN flight' = {1} /\ flight'[1] = g
    BY <2>2, <2>4, AloneWaits DEF SerialInv
  <2>11. HandlerTrue(flight[1])'
    BY <2>2, <2>3, <2>5, <2>8, <2>10 DEF HandlerTrue, Entering, Departing, Renaming, Taking, Updating, Leaving
  <2> QED
    BY <2>7, <2>10, <2>11 DEF SerialInv, FlightTrue
<1>10. CASE CommitParticipantAvatar(k)
  <2>1. At(k, {"avatar"}, "CommitParticipantAvatar")
    BY <1>10 DEF CommitParticipantAvatar
  <2>2. /\ k \in DOMAIN flight /\ KeysTypeOK /\ Exact /\ h \in Handler /\ h.s \in Sessions
        /\ h.op \in {"avatar"} /\ h.pc = "CommitParticipantAvatar" /\ HandlerOK(h) /\ HandlerTrue(h)
        /\ ~ Refused(h)
    BY <2>1, RunFacts
  <2>3. h.c \in Codes /\ sess[h.s].room = h.c /\ parts[h.c][h.s] # Nil
    BY <2>2, InRoomFacts DEF Located, Pcs, Leaving
  <2> DEFINE g == [h EXCEPT !.pc = "ReadRoom", !.old = Nil]
  <2>4. WriteParticipant(h.s, h.c, h.old, h.a) /\ Wait(k, g)
    BY <1>10 DEF CommitParticipantAvatar
  <2>5. h.old = parts[h.c][h.s].name /\ h.a = sess[h.s].avatar
    BY <2>2 DEF HandlerTrue, Updating, Leaving
  <2>6. h.a \in Avatars \cup {Nil}
    BY <2>2 DEF Handler
  <2>7. /\ Exact' /\ parts'[h.c][h.s].avatar = h.a
        /\ UNCHANGED <<meta, order, state, sess, now>>
    BY <2>2, <2>3, <2>4, <2>5, <2>6, WriteParticipantExact
  <2>8. g.op = "avatar" /\ g.s = h.s /\ g.c = h.c /\ g.pc = "ReadRoom" /\ g.a = h.a
    BY <2>2 DEF Handler
  <2> HIDE DEF g
  <2>10. Len(flight') = 1 /\ DOMAIN flight' = {1} /\ flight'[1] = g
    BY <2>2, <2>4, AloneWaits DEF SerialInv
  <2>11. HandlerTrue(flight[1])'
    BY <2>2, <2>3, <2>5, <2>7, <2>8, <2>10 DEF HandlerTrue, Entering, Departing, Renaming, Taking, Updating, Leaving
  <2> QED
    BY <2>7, <2>10, <2>11 DEF SerialInv, FlightTrue
<1>11. CASE CommitOwnerAvatar(k)
  <2>1. At(k, {"avatar"}, "CommitOwnerAvatar")
    BY <1>11 DEF CommitOwnerAvatar
  <2>2. /\ k \in DOMAIN flight /\ KeysTypeOK /\ Exact /\ h \in Handler /\ h.s \in Sessions
        /\ h.op \in {"avatar"} /\ h.pc = "CommitOwnerAvatar" /\ HandlerOK(h) /\ HandlerTrue(h) /\ ~ Refused(h)
    BY <2>1, RunFacts
  <2>3. h.c \in Codes /\ sess[h.s].room = h.c /\ parts[h.c][h.s] # Nil
    BY <2>2, InRoomFacts DEF Located, Pcs, Leaving
  <2>4. /\ meta'[h.c].code = meta[h.c].code /\ meta'[h.c].count = meta[h.c].count
        /\ meta'[h.c].owner \in {meta[h.c].owner, h.s}
        /\ \A d \in Codes : d # h.c => meta'[d] = meta[d]
        /\ parts' = parts /\ order' = order /\ names' = names /\ now' = now
        /\ state' = state /\ sess' = sess
    BY <1>11, <2>2, <2>3 DEF CommitOwnerAvatar, WriteOwnerAvatar, KeysTypeOK, Room
  <2>6. meta[h.c].code /\ h.s \in In(parts[h.c])
    BY <2>2, <2>3, MemberFacts DEF In
  <2>5. /\ \A d \in Codes : /\ meta'[d].code = meta[d].code
                            /\ meta'[d].count = meta[d].count
                            /\ meta'[d].owner \in {meta[d].owner} \cup In(parts[d])
        /\ \A d \in Codes : meta[d].code \/ (meta'[d] = meta[d] /\ state'[d] = state[d])
        /\ \A t \in Sessions : sess'[t].room = sess[t].room
        /\ \A t \in Sessions : sess[t].room # Nil \/ sess'[t] = sess[t]
    BY <2>4, <2>6
  <2>7. Exact'
    BY <2>2, <2>3, <2>4, <2>5, HashExact
  <2> DEFINE g == AvatarUpdated(h)
  <2>8. g.op = h.op /\ g.pc = "Broadcast"
    BY DEF Started, AvatarUpdated
  <2>9. Wait(k, g)
    BY <1>11 DEF CommitOwnerAvatar
  <2> HIDE DEF g
  <2> QED
    BY <2>2, <2>7, <2>8, <2>9, BroadcastTrue DEF Handler
<1> QED
  BY <1>1, <1>2, <1>3, <1>4, <1>5, <1>6, <1>7, <1>8, <1>9, <1>10, <1>11

\* A new handler has read nothing.
LEMMA StartsExact ==
  ASSUME TypeOK, SerialInv, MaxInFlight = 1, NEW op \in Requests \cup {"disconnect"},
         NEW s \in Sessions, NEW g, g.op = op, g.o = Nil, g.np = Nil,
         g.pc = IF op \in {"create", "join"} THEN "EnsureNotInRoom" ELSE "RequireSession",
         Start(g), UNCHANGED keys
  PROVE  SerialInv'
<1>1. Len(flight') = 1 /\ DOMAIN flight' = {1} /\ flight'[1] = g
  BY AloneStarts
<1>2. UNCHANGED <<meta, parts, order, names, state, sess, now>>
  BY DEF keys
<1>3. Exact'
  BY <1>2, SameExact DEF SerialInv
<1>4. HandlerTrue(flight[1])'
  BY <1>1 DEF HandlerTrue, Entering, Departing, Renaming, Taking, Updating, Leaving
<1> QED
  BY <1>1, <1>3, <1>4 DEF SerialInv, FlightTrue

\* The invariant depends on the keys and the handlers alone.
LEMMA KeptExact == ASSUME TypeOK, SerialInv, UNCHANGED <<keys, flight>> PROVE SerialInv'
<1>1. UNCHANGED <<meta, parts, order, names, state, sess, now, flight>>
  BY DEF keys
<1>2. Exact'
  BY <1>1, SameExact DEF SerialInv
<1>3. FlightTrue'
  BY <1>1 DEF SerialInv, FlightTrue, HandlerTrue, Entering, Departing, Renaming, Taking,
     Updating, Heir, Present
<1> QED
  BY <1>1, <1>2, <1>3 DEF SerialInv

\* A handler that ends, of its own or with the server, leaves the keys as they are.
LEMMA EndsExact == ASSUME TypeOK, SerialInv, UNCHANGED keys, flight' = <<>> PROVE SerialInv'
<1>1. UNCHANGED <<meta, parts, order, names, state, sess, now>>
  BY DEF keys
<1>2. Exact'
  BY <1>1, SameExact DEF SerialInv
<1> QED
  BY <1>2, NobodyTrue

\* Sockets come and go, requests arrive and events are sent.
LEMMA RequestsExact ==
  ASSUME TypeOK, SerialInv, MaxInFlight = 1, NEW s \in Sessions,
         \/ \E n \in Names : handleHello(s, n)
         \/ RequestCreate(s) \/ RequestJoin(s) \/ RequestRename(s)
         \/ RequestSettings(s) \/ RequestAvatar(s) \/ RequestPlain(s)
         \/ Close(s)
  PROVE  SerialInv'
<1>1. CASE \E n \in Names : handleHello(s, n)
  BY <1>1, KeptExact DEF handleHello
<1>2. CASE RequestCreate(s)
  <2>1. PICK b \in BOOLEAN : Request(s, "create",
          [Started("create", s, "EnsureNotInRoom") EXCEPT !.n = wsName[s], !.b = b])
    BY <1>2, TakeoverAssumption DEF RequestCreate
  <2> DEFINE g == [Started("create", s, "EnsureNotInRoom") EXCEPT !.n = wsName[s], !.b = b]
  <2>2. g.op = "create" /\ g.o = Nil /\ g.np = Nil /\ g.pc = "EnsureNotInRoom"
    BY DEF Started
  <2>3. Start(g) /\ UNCHANGED keys
    BY <2>1 DEF Request
  <2> HIDE DEF g
  <2> QED
    BY <2>2, <2>3, StartsExact DEF Requests
<1>3. CASE RequestJoin(s)
  <2>1. PICK c \in Codes : Request(s, "join",
          [Started("join", s, "EnsureNotInRoom") EXCEPT !.n = wsName[s], !.c = c])
    BY <1>3 DEF RequestJoin
  <2> DEFINE g == [Started("join", s, "EnsureNotInRoom") EXCEPT !.n = wsName[s], !.c = c]
  <2>2. g.op = "join" /\ g.o = Nil /\ g.np = Nil /\ g.pc = "EnsureNotInRoom"
    BY DEF Started
  <2>3. Start(g) /\ UNCHANGED keys
    BY <2>1 DEF Request
  <2> HIDE DEF g
  <2> QED
    BY <2>2, <2>3, StartsExact DEF Requests
<1>4. CASE RequestRename(s)
  <2>1. PICK n \in Names : Request(s, "rename", [Started("rename", s, "RequireSession") EXCEPT !.n = n])
    BY <1>4 DEF RequestRename
  <2> DEFINE g == [Started("rename", s, "RequireSession") EXCEPT !.n = n]
  <2>2. g.op = "rename" /\ g.o = Nil /\ g.np = Nil /\ g.pc = "RequireSession"
    BY DEF Started
  <2>3. Start(g) /\ UNCHANGED keys
    BY <2>1 DEF Request
  <2> HIDE DEF g
  <2> QED
    BY <2>2, <2>3, StartsExact DEF Requests
<1>5. CASE RequestSettings(s)
  <2>1. PICK b \in BOOLEAN : Request(s, "settings", [Started("settings", s, "RequireSession") EXCEPT !.b = b])
    BY <1>5 DEF RequestSettings
  <2> DEFINE g == [Started("settings", s, "RequireSession") EXCEPT !.b = b]
  <2>2. g.op = "settings" /\ g.o = Nil /\ g.np = Nil /\ g.pc = "RequireSession"
    BY DEF Started
  <2>3. Start(g) /\ UNCHANGED keys
    BY <2>1 DEF Request
  <2> HIDE DEF g
  <2> QED
    BY <2>2, <2>3, StartsExact DEF Requests
<1>6. CASE RequestAvatar(s)
  <2>1. PICK a \in Avatars : Request(s, "avatar", [Started("avatar", s, "RequireSession") EXCEPT !.a = a])
    BY <1>6 DEF RequestAvatar
  <2> DEFINE g == [Started("avatar", s, "RequireSession") EXCEPT !.a = a]
  <2>2. g.op = "avatar" /\ g.o = Nil /\ g.np = Nil /\ g.pc = "RequireSession"
    BY DEF Started
  <2>3. Start(g) /\ UNCHANGED keys
    BY <2>1 DEF Request
  <2> HIDE DEF g
  <2> QED
    BY <2>2, <2>3, StartsExact DEF Requests
<1>7. CASE RequestPlain(s)
  <2>1. PICK op \in {"leave", "take", "params"} : Request(s, op, Started(op, s, "RequireSession"))
    BY <1>7 DEF RequestPlain
  <2> DEFINE g == Started(op, s, "RequireSession")
  <2>2. g.op = op /\ g.o = Nil /\ g.np = Nil /\ g.pc = "RequireSession"
    BY DEF Started
  <2>3. Start(g) /\ UNCHANGED keys
    BY <2>1 DEF Request
  <2> HIDE DEF g
  <2> QED
    BY <2>2, <2>3, StartsExact DEF Requests
<1>8. CASE Close(s)
  <2>1. CASE wsRoom[s] = Nil
    BY <1>8, <2>1, KeptExact DEF Close
  <2>2. CASE wsRoom[s] # Nil
    <3> DEFINE g == Started("disconnect", s, "RequireSession")
    <3>1. g.op = "disconnect" /\ g.o = Nil /\ g.np = Nil /\ g.pc = "RequireSession"
      BY DEF Started
    <3>2. Start(g) /\ UNCHANGED keys
      BY <1>8, <2>2 DEF Close
    <3> HIDE DEF g
    <3> QED
      BY <3>1, <3>2, StartsExact
  <2> QED
    BY <2>1, <2>2
<1> QED
  BY <1>1, <1>2, <1>3, <1>4, <1>5, <1>6, <1>7, <1>8

\* An event changes no key; after the first of two the handler only broadcasts.
LEMMA BroadcastExact == ASSUME TypeOK, SerialInv, NEW k, Broadcast(k) PROVE SerialInv'
<1> DEFINE h == flight[k]
           g == [h EXCEPT !.out = h.then, !.then = Nil]
<1>1. k \in DOMAIN flight /\ h \in Handler /\ h.pc = "Broadcast" /\ KeysTypeOK /\ UNCHANGED keys
  BY DEF TypeOK, FlightOK, Broadcast
<1>2. CASE h.then = Nil
  <2>1. Return(k)
    BY <1>2 DEF Broadcast
  <2> QED
    BY <1>1, <2>1, AloneReturns, EndsExact DEF SerialInv
<1>3. CASE h.then # Nil
  <2>1. Wait(k, g)
    BY <1>3 DEF Broadcast
  <2>2. g.op = h.op /\ g.pc = "Broadcast" /\ g.op \in Requests \cup {"disconnect"}
    BY <1>1 DEF Handler
  <2> HIDE DEF g
  <2>3. HandlerTrue(g)
    BY <2>2, <1>1 DEF HandlerTrue, Entering, Departing, Renaming, Taking, Updating, Leaving
  <2> QED
    BY <1>1, <2>1, <2>3, ReadTrue
<1> QED
  BY <1>2, <1>3

\* Every step keeps the invariant.
LEMMA StepExact ==
  ASSUME TypeOK, SerialInv, MaxInFlight = 1, [Next]_vars
  PROVE  SerialInv'
<1>1. ASSUME NEW s \in Sessions,
             \/ \E n \in Names : handleHello(s, n)
             \/ RequestCreate(s) \/ RequestJoin(s) \/ RequestRename(s)
             \/ RequestSettings(s) \/ RequestAvatar(s) \/ RequestPlain(s)
             \/ Close(s)
      PROVE  SerialInv'
  BY <1>1, RequestsExact
<1>2. CASE Stop
  BY <1>2, EndsExact DEF Stop
<1>3. ASSUME NEW k \in 1..MaxInFlight, Resume(k) PROVE SerialInv'
  <2>1. CASE Refuse(k)
    BY <2>1, AloneReturns, EndsExact DEF Refuse, SerialInv
  <2>2. CASE Broadcast(k)
    BY <2>2, BroadcastExact
  <2>3. CASE \/ CommitCreate(k) \/ CommitJoin(k) \/ SnapState(k) \/ CommitLeave(k)
             \/ CommitRename(k) \/ CommitOwner(k) \/ CommitSettings(k) \/ CommitState(k)
             \/ CommitSessionAvatar(k) \/ CommitParticipantAvatar(k) \/ CommitOwnerAvatar(k)
    BY <2>3, CommitsExact
  <2>4. CASE \/ EnsureNotInRoom(k) \/ PickCode(k)
             \/ JoinReadRoom(k) \/ JoinReadHolder(k)
             \/ SnapRoom(k) \/ SnapOrder(k) \/ SnapParticipants(k)
             \/ RequireSession(k)
             \/ LeaveReadParticipant(k) \/ LeaveReadRoom(k) \/ LeaveReadOrder(k)
             \/ LeaveReadKeys(k) \/ LeaveReadNewOwner(k)
             \/ RenameReadHolder(k) \/ RenameReadParticipant(k)
             \/ TakeReadRoom(k) \/ TakeReadAvatar(k)
             \/ SettingsReadRoom(k) \/ ParamsReadRoom(k)
             \/ AvatarReadParticipant(k) \/ AvatarReadRoom(k)
    BY <2>4, ReadsExact
  <2> QED
    BY <1>3, <2>1, <2>2, <2>3, <2>4 DEF Resume
<1>4. CASE UNCHANGED vars
  BY <1>4, KeptExact DEF vars
<1> QED
  BY <1>1, <1>2, <1>3, <1>4 DEF Next

\* Nothing is stored at first.
LEMMA InitExact == Init => SerialInv
<1> SUFFICES ASSUME Init PROVE SerialInv
  OBVIOUS
<1>1. NoKeys /\ flight = <<>>
  BY DEF Init
<1>2. /\ \A c \in Codes : /\ meta[c] = NoRoom /\ ~ meta[c].code /\ state[c] = Nil
                          /\ \A s \in Sessions : parts[c][s] = Nil /\ order[c][s] = 0
                          /\ \A k \in Names : names[c][k] = Nil
      /\ \A s \in Sessions : sess[s] = NoSession /\ sess[s].room = Nil
      /\ now = 1
  BY <1>1 DEF NoKeys, NoRoom, NoSession, NoParts, NoOrder
<1>3. Exact
  BY <1>2, SessionsAssumption, CodesAssumption
     DEF Exact, RoomsAccountedFor, NothingLeftBehind, NameKeysExact, SessionsMatchSeats, Present
<1>4. Len(flight) = 0 /\ DOMAIN flight = {}
  BY <1>1
<1> QED
  BY <1>3, <1>4 DEF SerialInv, FlightTrue

\* SerialInv holds as long as handlers do not overlap.
LEMMA AlwaysSerial == MaxInFlight = 1 => (Spec => [](TypeOK /\ SerialInv))
<1> SUFFICES ASSUME MaxInFlight = 1 PROVE Spec => [](TypeOK /\ SerialInv)
  OBVIOUS
<1>1. Init => TypeOK /\ SerialInv
  BY InitTyped, InitExact
<1>2. TypeOK /\ SerialInv /\ [Next]_vars => (TypeOK /\ SerialInv)'
  BY StepTyped, StepExact
<1> QED
  BY <1>1, <1>2, PTL DEF Spec

\* While handlers do not overlap, each room has as many participants as its
\* count says, its owner is one of them and the join order lists them all.
THEOREM RoomsStayAccounted == MaxInFlight = 1 => (Spec => []RoomsAccountedFor)
<1> SUFFICES ASSUME MaxInFlight = 1 PROVE Spec => []RoomsAccountedFor
  OBVIOUS
<1>1. SerialInv => RoomsAccountedFor
  BY DEF SerialInv, Exact
<1> QED
  BY <1>1, AlwaysSerial, PTL

\* While handlers do not overlap, the last participant's departure leaves no
\* key of the room, though it deletes only its own display key.
THEOREM NothingStaysBehind == MaxInFlight = 1 => (Spec => []NothingLeftBehind)
<1> SUFFICES ASSUME MaxInFlight = 1 PROVE Spec => []NothingLeftBehind
  OBVIOUS
<1>1. SerialInv => NothingLeftBehind
  BY DEF SerialInv, Exact
<1> QED
  BY <1>1, AlwaysSerial, PTL

\* While handlers do not overlap, there is a display key for exactly the
\* lower-case names in use, a rename that changes only case included.
THEOREM NameKeysStayExact == MaxInFlight = 1 => (Spec => []NameKeysExact)
<1> SUFFICES ASSUME MaxInFlight = 1 PROVE Spec => []NameKeysExact
  OBVIOUS
<1>1. SerialInv => NameKeysExact
  BY DEF SerialInv, Exact
<1> QED
  BY <1>1, AlwaysSerial, PTL

\* While handlers do not overlap, a session hash names the one room whose
\* hash of participants has the session.
THEOREM SessionsStayMatched == MaxInFlight = 1 => (Spec => []SessionsMatchSeats)
<1> SUFFICES ASSUME MaxInFlight = 1 PROVE Spec => []SessionsMatchSeats
  OBVIOUS
<1>1. SerialInv => SessionsMatchSeats
  BY DEF SerialInv, Exact
<1> QED
  BY <1>1, AlwaysSerial, PTL

-----------------------------------------------------------------------------
(* Without overlap: sockets, avatar ids and views agree with the keys.     *)

\* The only handler is the first.
LEMMA AloneRuns ==
  ASSUME TypeOK, SerialInv, NEW k \in DOMAIN flight
  PROVE  k = 1 /\ Running /\ flight[1] = flight[k]
<1>1. flight \in Seq(Handler) /\ Len(flight) <= 1
  BY DEF TypeOK, FlightOK, SerialInv
<1>2. Len(flight) \in Nat /\ DOMAIN flight = 1..Len(flight)
  BY <1>1
<1>3. k = 1 /\ Len(flight) = 1
  BY <1>1, <1>2
<1>4. flight # <<>>
  BY <1>3
<1> QED
  BY <1>3, <1>4 DEF Running

\* What the lone handler is known to have read.
LEMMA LoneHandler ==
  ASSUME TypeOK, SerialInv, Running
  PROVE  /\ 1 \in DOMAIN flight /\ flight[1] \in Handler
         /\ HandlerOK(flight[1]) /\ HandlerTrue(flight[1])
<1>1. flight \in Seq(Handler) /\ flight # <<>>
  BY DEF TypeOK, FlightOK, Running
<1>2. Len(flight) \in Nat /\ DOMAIN flight = 1..Len(flight) /\ Len(flight) # 0
  BY <1>1, EmptySeq
<1>3. 1 \in DOMAIN flight
  BY <1>2
<1> QED
  BY <1>3 DEF TypeOK, FlightOK, HandlerOK, SerialInv, FlightTrue

\* applyParticipantJoined, for a client that shows the room.
LEMMA TellJoined ==
  ASSUME NEW self, NEW c, NEW o, NEW f \in [Sessions -> Participant \cup {Nil}], NEW t, NEW a,
         NEW m \in Message, m.type = "joined", m.c = c
  PROVE  Applied(self, applyRoomJoined(c, o, f, t, a), m)
           = applyRoomJoined(c, o, [f EXCEPT ![m.s] = [name |-> m.n, avatar |-> m.a]], t, a)
  BY DEF Applied, applyParticipantJoined, applyRoomJoined

\* applyParticipantLeft, for a client that stays.
LEMMA TellLeft ==
  ASSUME NEW self, NEW c, NEW o, NEW f \in [Sessions -> Participant \cup {Nil}], NEW t, NEW a,
         NEW m \in Message, m.type = "left", m.c = c, m.s # self
  PROVE  Applied(self, applyRoomJoined(c, o, f, t, a), m)
           = applyRoomJoined(c, o, [f EXCEPT ![m.s] = Nil], t, a)
  BY DEF Applied, applyParticipantLeft, applyRoomJoined

\* applyDisplayNameUpdated, of a participant the client shows.
LEMMA TellName ==
  ASSUME NEW self, NEW c, NEW o, NEW f \in [Sessions -> Participant \cup {Nil}], NEW t, NEW a,
         NEW m \in Message, m.type = "name", m.c = c, f[m.s] # Nil
  PROVE  Applied(self, applyRoomJoined(c, o, f, t, a), m)
           = applyRoomJoined(c, o,
               [f EXCEPT ![m.s] = [name |-> m.n, avatar |-> f[m.s].avatar]], t, a)
<1>1. m.s \in Sessions /\ f[m.s] \in Participant
  BY DEF Message
<1>2. [f[m.s] EXCEPT !.name = m.n] = [name |-> m.n, avatar |-> f[m.s].avatar]
  BY <1>1 DEF Participant
<1> DEFINE v == applyRoomJoined(c, o, f, t, a)
<1>3. v.room = c /\ v.list = f
  BY DEF applyRoomJoined
<1>4. Applied(self, v, m) = [v EXCEPT !.list[m.s].name = m.n]
  BY <1>3 DEF Applied, applyDisplayNameUpdated
<1>5. [v EXCEPT !.list[m.s].name = m.n]
        = applyRoomJoined(c, o, [f EXCEPT ![m.s] = [f[m.s] EXCEPT !.name = m.n]], t, a)
  BY <1>1 DEF applyRoomJoined
<1> QED
  BY <1>2, <1>4, <1>5

\* applyOwnerChanged, to a participant the client shows.
LEMMA TellOwner ==
  ASSUME NEW self, NEW c, NEW o, NEW f \in [Sessions -> Participant \cup {Nil}], NEW t, NEW a,
         NEW m \in Message, m.type = "owner", m.c = c, f[m.s] # Nil
  PROVE  Applied(self, applyRoomJoined(c, o, f, t, a), m)
           = applyRoomJoined(c, m.s, f, t, f[m.s].avatar)
  BY DEF Applied, applyOwnerChanged, applyRoomJoined

\* applyRoomSettingsUpdated, for a client that shows the room.
LEMMA TellSettings ==
  ASSUME NEW self, NEW c, NEW o, NEW f \in [Sessions -> Participant \cup {Nil}], NEW t, NEW a,
         NEW m \in Message, m.type = "settings", m.c = c
  PROVE  Applied(self, applyRoomJoined(c, o, f, t, a), m) = applyRoomJoined(c, o, f, m.b, a)
  BY DEF Applied, applyRoomSettingsUpdated, applyRoomJoined

\* Parameters leave the room a client shows as it is.
LEMMA TellParams ==
  ASSUME NEW self, NEW v, NEW m \in Message, m.type = "params"
  PROVE  Applied(self, v, m) = v
  BY DEF Applied

\* applyAvatarIdUpdated, of a participant the client shows.
LEMMA TellAvatar ==
  ASSUME NEW self, NEW c \in Codes, NEW o, NEW f \in [Sessions -> Participant \cup {Nil}], NEW t,
         NEW a, NEW m \in Message, m.type = "avatar", f[m.s] # Nil,
         NEW w, w = IF m.s = o THEN m.a ELSE a,
         NEW g \in [Sessions -> Participant \cup {Nil}],
         g[m.s] = [name |-> f[m.s].name, avatar |-> m.a],
         \A s \in Sessions : s # m.s => g[s] = f[s]
  PROVE  Applied(self, applyRoomJoined(c, o, f, t, a), m) = applyRoomJoined(c, o, g, t, w)
<1>1. m.s \in Sessions /\ f[m.s] \in Participant
  BY DEF Message
<1>2. [f[m.s] EXCEPT !.avatar = m.a] = [name |-> f[m.s].name, avatar |-> m.a]
  BY <1>1 DEF Participant
<1> DEFINE v == applyRoomJoined(c, o, f, t, a)
<1>3. v.room = c /\ v.room # Nil /\ v.list = f /\ v.owner = o
  BY CodesAssumption DEF applyRoomJoined
<1>4. Applied(self, v, m)
        = [v EXCEPT !.list[m.s]  = IF @ = Nil THEN Nil ELSE [@ EXCEPT !.avatar = m.a],
                    !.avatar     = IF m.s = v.owner THEN m.a ELSE @]
  BY <1>3 DEF Applied, applyAvatarIdUpdated
<1> DEFINE u == [f[m.s] EXCEPT !.avatar = m.a]
<1>5. v.list[m.s] # Nil /\ v.list[m.s] = f[m.s] /\ (IF m.s = v.owner THEN m.a ELSE v.avatar) = w
  BY <1>3 DEF applyRoomJoined
<1>6. Applied(self, v, m) = [v EXCEPT !.list[m.s] = u, !.avatar = w]
  BY <1>4, <1>5
<1> HIDE DEF u
<1>7. [v EXCEPT !.list[m.s] = u] = applyRoomJoined(c, o, [f EXCEPT ![m.s] = u], t, a)
  BY DEF applyRoomJoined
<1> HIDE DEF v
<1>8. [v EXCEPT !.list[m.s] = u, !.avatar = w] = [[v EXCEPT !.list[m.s] = u] EXCEPT !.avatar = w]
  OBVIOUS
<1>9. [applyRoomJoined(c, o, [f EXCEPT ![m.s] = u], t, a) EXCEPT !.avatar = w]
        = applyRoomJoined(c, o, [f EXCEPT ![m.s] = u], t, w)
  BY DEF applyRoomJoined
<1>10. Applied(self, v, m) = applyRoomJoined(c, o, [f EXCEPT ![m.s] = u], t, w)
  BY <1>6, <1>7, <1>8, <1>9
<1> USE DEF u, v
<1>11. [f EXCEPT ![m.s] = u] = g
  BY <1>1, <1>2
<1> QED
  BY <1>10, <1>11

\* Nobody outside room c sees a change made in it.
LEMMA Elsewhere ==
  ASSUME KeysTypeOK, NEW c, NEW s \in Sessions, sess[s].room # c,
         sess'[s].room = sess[s].room,
         \A d \in Codes : d # c => /\ parts'[d] = parts[d] /\ meta'[d].owner = meta[d].owner
                                   /\ meta'[d].takeover = meta[d].takeover
                                   /\ meta'[d].avatar = meta[d].avatar
  PROVE  ActualView(s)' = ActualView(s)
<1>1. sess[s].room \in Codes \cup {Nil}
  BY DEF KeysTypeOK, Session
<1> QED
  BY <1>1 DEF ActualView

\* A handler that has written nothing yet owes no event.
LEMMA NothingOwed ==
  ASSUME ViewsTrue,
         Running => /\ flight[1].pc # "Broadcast"
                    /\ ~ (flight[1].op = "join" /\ flight[1].pc \in Snapping)
                    /\ ~ (flight[1].op = "avatar" /\ flight[1].pc \in {"ReadRoom", "CommitOwnerAvatar"})
  PROVE  \A s \in open : s \in Sessions => view[s] = ActualView(s)
<1>1. Owed = Nil /\ OwedNext = Nil
  BY DEF Owed, OwedNext
<1>2. ASSUME NEW s \in Sessions PROVE Expected(s) = ActualView(s)
  BY DEF Expected
<1> QED
  BY <1>1, <1>2 DEF ViewsTrue, Told

\* A handler announces what it has written, at most two events, and its
\* session's room and socket agree.
LEMMA Announces ==
  ASSUME TypeOK, SerialInv, Consistent, NEW k \in DOMAIN flight, NEW g, Wait(k, g),
         g.op = flight[k].op, g.s = flight[k].s, g.pc = "Broadcast", open' = open,
         \A s \in Sessions : s # g.s => /\ sess'[s].room = sess[s].room
                                        /\ wsRoom'[s] = wsRoom[s],
         g.s \in open \/ "stop" \notin Workload =>
            sess'[g.s].room = IF g.s \in open THEN wsRoom'[g.s] ELSE Nil,
         \A c \in Codes, s \in open : parts'[c][s] # Nil =>
            /\ parts'[c][s].avatar = sess'[s].avatar
            /\ meta'[c].owner = s => meta'[c].avatar = sess'[s].avatar,
         \A s \in Sessions \ open : view'[s] = NoView,
         \A s \in Sessions \cap open :
            LET v == IF g.out = Nil \/ parts'[g.c][s] = Nil \/ s = g.out.x THEN view'[s]
                                                          ELSE Applied(s, view'[s], g.out)
            IN ActualView(s)' = IF g.then = Nil \/ parts'[g.c][s] = Nil \/ s = g.then.x THEN v
                                                          ELSE Applied(s, v, g.then)
  PROVE  Consistent'
<1>1. flight[1] = flight[k] /\ flight'[1] = g /\ Running /\ Running'
  BY AloneMoves, AloneRuns
<1>2. ServedTrue'
  BY <1>1 DEF Consistent, ServedTrue
<1>3. SocketsTrue'
  <2>1. \A s \in Sessions : s # g.s => ~ Unsettled(s)
    BY <1>1 DEF Unsettled
  <2> QED
    BY <1>1, <2>1 DEF Consistent, SocketsTrue
<1>4. AvatarsTrue'
  BY DEF AvatarsTrue
<1>5. ViewsTrue'
  <2>1. Owed' = g.out /\ OwedNext' = g.then
    BY <1>1 DEF Owed, OwedNext
  <2>2. ASSUME NEW s \in Sessions PROVE Expected(s)' = ActualView(s)'
    BY <1>1 DEF Expected
  <2>3. ASSUME NEW s \in Sessions, s \in open
        PROVE  Told(s, Told(s, view[s], Owed), OwedNext)' = Expected(s)'
    <3> DEFINE v == IF g.out = Nil \/ parts'[g.c][s] = Nil \/ s = g.out.x THEN view'[s]
                                                          ELSE Applied(s, view'[s], g.out)
    <3>1. Told(s, view[s], Owed)' = v
      BY <1>1, <2>1 DEF Told
    <3>2. Told(s, Told(s, view[s], Owed), OwedNext)'
            = IF g.then = Nil \/ parts'[g.c][s] = Nil \/ s = g.then.x THEN v
                                                          ELSE Applied(s, v, g.then)
      BY <1>1, <2>1, <3>1 DEF Told
    <3> QED
      BY <2>2, <2>3, <3>2
  <2> QED
    BY <2>3 DEF ViewsTrue
<1> QED
  BY <1>2, <1>3, <1>4, <1>5 DEF Consistent

\* Where no event is owed, every client shows its room as it is.
LEMMA NothingOwedThen ==
  ASSUME \A s \in Sessions : IF s \in open' THEN view'[s] = ActualView(s)' ELSE view'[s] = NoView,
         Running' => /\ flight'[1].pc # "Broadcast"
                     /\ ~ (flight'[1].op = "join" /\ flight'[1].pc \in Snapping)
                     /\ ~ (flight'[1].op = "avatar" /\ flight'[1].pc \in {"ReadRoom", "CommitOwnerAvatar"})
  PROVE  ViewsTrue'
<1>1. Owed' = Nil /\ OwedNext' = Nil
  BY DEF Owed, OwedNext
<1>2. ASSUME NEW s \in Sessions PROVE Expected(s)' = ActualView(s)'
  BY DEF Expected
<1> QED
  BY <1>1, <1>2 DEF ViewsTrue, Told

\* Reading disturbs nothing.
LEMMA ReadsConsistent ==
  ASSUME TypeOK, SerialInv, Consistent, ReadMove, UNCHANGED <<keys, sockets, view>>
  PROVE  Consistent'
<1> DEFINE h == flight[1]
           g == flight'[1]
<1>0. UNCHANGED <<meta, parts, order, sess, open, wsRoom, view>> /\ Running /\ Running'
  BY DEF ReadMove, keys, sockets
<1>1. ServedTrue'
  BY <1>0 DEF Consistent, ServedTrue, ReadMove
<1>2. SocketsTrue'
  <2>1. \A s \in Sessions : Unsettled(s)' <=> Unsettled(s)
    BY <1>0, <1>1 DEF Consistent, ServedTrue, ReadMove, Unsettled, Snapping
  <2> QED
    BY <1>0, <2>1 DEF Consistent, SocketsTrue
<1>3. CASE g.pc # "Broadcast" \/ h.op # "avatar"
  <2>1. g.op = h.op /\ g.s = h.s /\ g.pc # "Broadcast" /\ h.pc # "Broadcast"
    BY <1>3 DEF ReadMove
  <2>2. h.op = "avatar" =>
          /\ g.pc \in {"ReadParticipant", "CommitParticipantAvatar"}
               <=> h.pc \in {"ReadParticipant", "CommitParticipantAvatar"}
          /\ g.pc \in {"ReadRoom", "CommitOwnerAvatar"} <=> h.pc \in {"ReadRoom", "CommitOwnerAvatar"}
          /\ g.pc \in {"ReadRoom", "CommitOwnerAvatar"} => g.c = h.c /\ g.a = h.a
    BY <2>1 DEF ReadMove, AvatarUpdated, Started
  <2>3. h.op = "join" => /\ g.pc \in Snapping <=> h.pc \in Snapping
                         /\ g.pc \in Snapping => g.c = h.c
    BY <2>1 DEF ReadMove
  <2>4. AvatarsTrue'
    <3>1. \A s \in Sessions :
            /\ Changing(s, {"ReadParticipant", "CommitParticipantAvatar"})'
                 <=> Changing(s, {"ReadParticipant", "CommitParticipantAvatar"})
            /\ Changing(s, {"ReadParticipant", "CommitParticipantAvatar", "ReadRoom", "CommitOwnerAvatar"})'
                 <=> Changing(s, {"ReadParticipant", "CommitParticipantAvatar", "ReadRoom", "CommitOwnerAvatar"})
      BY <1>0, <2>1, <2>2 DEF Changing
    <3> QED
      BY <1>0, <3>1 DEF Consistent, AvatarsTrue, TypeOK
  <2>5. ViewsTrue'
    <3>1. Owed' = Owed /\ OwedNext' = Nil /\ OwedNext = Nil
      BY <1>0, <2>1, <2>2, <2>3 DEF Owed, OwedNext
    <3>2. Owed # Nil => g.c = h.c
      BY <1>0, <2>1, <2>2, <2>3 DEF Owed
    <3>3. ASSUME NEW s \in Sessions PROVE Expected(s)' = Expected(s)
      BY <1>0, <2>1, <2>2 DEF Expected, ActualView
    <3>4. ASSUME NEW s \in Sessions PROVE Told(s, view[s], Owed)' = Told(s, view[s], Owed)
      BY <1>0, <3>1, <3>2 DEF Told
    <3>5. ASSUME NEW s \in Sessions
          PROVE /\ Told(s, Told(s, view[s], Owed), OwedNext)' = Told(s, view[s], Owed)'
                /\ Told(s, Told(s, view[s], Owed), OwedNext) = Told(s, view[s], Owed)
      BY <3>1 DEF Told
    <3>6. ASSUME NEW s \in Sessions, s \notin open' PROVE view'[s] = NoView
      BY <1>0, <3>6 DEF Consistent, ViewsTrue
    <3>7. ASSUME NEW s \in Sessions, s \in open',
                 ~ (s = g.s /\ g.op = "join" /\ g.pc \in Snapping)
          PROVE Told(s, Told(s, view[s], Owed), OwedNext)' = Expected(s)'
      <4>1. ~ (s = h.s /\ h.op = "join" /\ h.pc \in Snapping)
        BY <2>1, <2>3, <3>7
      <4>2. Told(s, Told(s, view[s], Owed), OwedNext) = Expected(s)
        BY <1>0, <3>7, <4>1 DEF Consistent, ViewsTrue
      <4> QED
        BY <3>3, <3>4, <3>5, <4>2
    <3> QED
      BY <1>0, <3>6, <3>7 DEF ViewsTrue
  <2> QED
    BY <1>1, <1>2, <2>4, <2>5 DEF Consistent
<1>4. CASE g.pc = "Broadcast" /\ h.op = "avatar"
  <2>1. h.pc = "ReadRoom" /\ g = AvatarUpdated(h) /\ meta[h.c].owner # h.s
    BY <1>4 DEF ReadMove
  <2>2. /\ g.op = "avatar" /\ g.s = h.s /\ g.c = h.c /\ g.pc = "Broadcast" /\ g.then = Nil
        /\ g.out = [Event("avatar", h.c, h.s, Nil) EXCEPT !.a = h.a]
    BY <1>4, <2>1 DEF AvatarUpdated, Started
  <2> HIDE DEF g
  <2>3. AvatarsTrue'
    <3>1. \A s \in Sessions : ~ Changing(s, {"ReadParticipant", "CommitParticipantAvatar"})
      BY <1>4, <2>1 DEF Changing
    <3>2. ASSUME NEW c \in Codes, NEW s \in open, parts[c][s] # Nil, meta[c].owner = s
          PROVE  ~ Changing(s, {"ReadParticipant", "CommitParticipantAvatar", "ReadRoom", "CommitOwnerAvatar"})
      <4>1. 1 \in DOMAIN flight /\ h \in Handler /\ HandlerOK(h) /\ HandlerTrue(h)
        BY <1>0, LoneHandler
      <4>2. sess[h.s].room = h.c
        BY <1>4, <2>1, <4>1 DEF HandlerTrue
      <4>3. sess[s].room = c
        BY <3>2 DEF SerialInv, Exact, SessionsMatchSeats, Present, TypeOK
      <4> QED
        BY <2>1, <3>2, <4>2, <4>3 DEF Changing
    <3> QED
      BY <1>0, <3>1, <3>2 DEF Consistent, AvatarsTrue, TypeOK
  <2>4. ViewsTrue'
    <3>1. Owed = g.out /\ Owed' = g.out /\ OwedNext' = Nil /\ OwedNext = Nil
      BY <1>0, <1>4, <2>1, <2>2 DEF Owed, OwedNext, g, Snapping
    <3>3. ASSUME NEW s \in Sessions PROVE Expected(s)' = Expected(s)
      BY <1>0, <2>1, <2>2 DEF Expected, ActualView, g
    <3>4. ASSUME NEW s \in Sessions PROVE Told(s, view[s], Owed)' = Told(s, view[s], Owed)
      BY <1>0, <2>2, <3>1 DEF Told, g
    <3>5. ASSUME NEW s \in Sessions
          PROVE /\ Told(s, Told(s, view[s], Owed), OwedNext)' = Told(s, view[s], Owed)'
                /\ Told(s, Told(s, view[s], Owed), OwedNext) = Told(s, view[s], Owed)
      BY <3>1 DEF Told
    <3>6. ASSUME NEW s \in Sessions, s \in open'
          PROVE Told(s, Told(s, view[s], Owed), OwedNext)' = Expected(s)'
      <4>1. Told(s, Told(s, view[s], Owed), OwedNext) = Expected(s)
        BY <1>0, <1>4, <3>6 DEF Consistent, ViewsTrue
      <4> QED
        BY <3>3, <3>4, <3>5, <4>1
    <3> QED
      BY <1>0, <3>6 DEF Consistent, ViewsTrue
  <2> QED
    BY <1>1, <1>2, <2>3, <2>4 DEF Consistent
<1> QED
  BY <1>3, <1>4

\* A list with one member is not empty.
LEMMA SomeRuns == ASSUME NEW q, Len(q) = 1 PROVE q # <<>>
  OBVIOUS

\* A request finds no handler, and its handler has written nothing.
LEMMA StartsConsistent ==
  ASSUME TypeOK, Consistent, MaxInFlight = 1, NEW g, Start(g), g.s \in open, g.op # "disconnect",
         g.pc = IF g.op \in {"create", "join"} THEN "EnsureNotInRoom" ELSE "RequireSession", UNCHANGED <<keys, sockets, view>>
  PROVE  Consistent'
<1>0. UNCHANGED <<meta, parts, order, sess, open, wsRoom, view>>
  BY DEF keys, sockets
<1>1. flight = <<>> /\ Len(flight') = 1 /\ flight'[1] = g
  BY AloneStarts
<1>2. ~ Running /\ Running'
  <2>1. flight' # <<>>
    BY <1>1, SomeRuns
  <2> QED
    BY <1>1, <2>1 DEF Running
<1>3. ServedTrue'
  BY <1>0, <1>1 DEF ServedTrue
<1>4. SocketsTrue'
  BY <1>0, <1>2 DEF Consistent, SocketsTrue, Unsettled
<1>5. AvatarsTrue'
  BY <1>0, <1>2 DEF Consistent, AvatarsTrue, Changing
<1>6. ViewsTrue'
  <2>1. \A s \in Sessions : ActualView(s)' = ActualView(s)
    BY <1>0 DEF ActualView
  <2>2. \A s \in open : s \in Sessions => view[s] = ActualView(s)
    BY <1>2, NothingOwed DEF Consistent
  <2>3. \A s \in Sessions \ open : view[s] = NoView
    BY DEF Consistent, ViewsTrue
  <2> QED
    BY <1>0, <1>1, <2>1, <2>2, <2>3, NothingOwedThen DEF Snapping
<1> QED
  BY <1>3, <1>4, <1>5, <1>6 DEF Consistent

\* The session of a new socket is in no room, and nobody tells it anything.
LEMMA HelloConsistent ==
  ASSUME TypeOK, SerialInv, Consistent, NEW s \in Sessions, NEW n, handleHello(s, n)
  PROVE  Consistent'
<1>0. /\ UNCHANGED <<meta, parts, order, sess, flight, view>> /\ open' = open \cup {s}
      /\ s \notin open /\ sess[s] = NoSession /\ \A c \in Codes : parts[c][s] = Nil
      /\ \A k \in DOMAIN flight : flight[k].s # s
  BY DEF handleHello, keys, Unused
<1>1. wsRoom'[s] = Nil /\ \A t \in Sessions : t # s => wsRoom'[t] = wsRoom[t]
  BY DEF handleHello, TypeOK
<1>2. Running' = Running /\ (Running => 1 \in DOMAIN flight /\ flight[1].s # s /\ flight'[1] = flight[1])
  BY <1>0, LoneHandler DEF Running
<1>3. ServedTrue'
  BY <1>0, <1>2 DEF Consistent, ServedTrue
<1>4. SocketsTrue'
  <2>1. \A t \in Sessions : Unsettled(t)' <=> Unsettled(t)
    BY <1>2 DEF Unsettled
  <2> QED
    BY <1>0, <1>1, <2>1 DEF Consistent, SocketsTrue, NoSession
<1>5. AvatarsTrue'
  BY <1>0, <1>2 DEF Consistent, AvatarsTrue, Changing
<1>6. ViewsTrue'
  <2>1. Owed' = Owed /\ OwedNext' = OwedNext
    BY <1>0, <1>2 DEF Owed, OwedNext
  <2>2. \A t \in Sessions : Expected(t)' = Expected(t)
    BY <1>0, <1>2 DEF Expected, ActualView
  <2>3. \A t \in Sessions :
          Told(t, Told(t, view[t], Owed), OwedNext)' = Told(t, Told(t, view[t], Owed), OwedNext)
    BY <1>0, <1>2, <2>1 DEF Told
  <2>4. Told(s, Told(s, view[s], Owed), OwedNext) = Expected(s)
    <3>1. view[s] = NoView /\ ActualView(s) = NoView
      BY <1>0 DEF Consistent, ViewsTrue, ActualView, NoSession
    <3>2. CASE Owed = Nil /\ OwedNext = Nil
      <4>1. Running /\ flight[1].op = "avatar" /\ flight[1].pc \in {"ReadRoom", "CommitOwnerAvatar"}
              => flight[1].c \in Codes
        BY LoneHandler, LocatedFacts DEF Located, Pcs
      <4> QED
        BY <1>0, <3>1, <3>2, <4>1 DEF Told, Expected
    <3>3. CASE Owed # Nil \/ OwedNext # Nil
      <4>1. Running /\ flight[1].pc \in Located
        BY <3>3 DEF Owed, OwedNext, Located, Pcs, Snapping
      <4>2. flight[1].c \in Codes
        BY <4>1, LoneHandler, LocatedFacts
      <4> QED
        BY <1>0, <3>1, <4>2 DEF Told, Expected
    <3> QED
      BY <3>2, <3>3
  <2> QED
    BY <1>0, <1>2, <2>2, <2>3, <2>4 DEF Consistent, ViewsTrue
<1> QED
  BY <1>3, <1>4, <1>5, <1>6 DEF Consistent

\* A socket closes while nothing runs: if its session is in a room, the handler
\* that takes the session out starts.
LEMMA CloseConsistent ==
  ASSUME TypeOK, Consistent, MaxInFlight = 1, NEW s \in Sessions, Close(s)
  PROVE  Consistent'
<1>0. /\ UNCHANGED <<meta, parts, order, sess, wsRoom>> /\ open' = open \ {s} /\ s \in open
      /\ view'[s] = NoView /\ \A t \in Sessions : t # s => view'[t] = view[t]
  BY DEF Close, keys, TypeOK
<1>1. ~ Running /\ (wsRoom[s] = Nil => ~ Running')
  <2>1. CASE wsRoom[s] = Nil
    <3>1. Len(flight) < 1 /\ flight' = flight /\ flight \in Seq(Handler)
      BY <2>1 DEF Close, TypeOK, FlightOK
    <3>2. Len(flight) = 0
      BY <3>1, LenProperties
    <3> QED
      BY <3>1, <3>2, EmptySeq DEF Running
  <2>2. CASE wsRoom[s] # Nil
    <3>1. Start(Started("disconnect", s, "RequireSession"))
      BY <2>2 DEF Close
    <3> QED
      BY <2>2, <3>1, AloneStarts DEF Running
  <2> QED
    BY <2>1, <2>2
<1>2. wsRoom[s] # Nil => /\ Running' /\ flight'[1].op = "disconnect" /\ flight'[1].s = s
                         /\ flight'[1].pc = "RequireSession"
  <2> DEFINE g == Started("disconnect", s, "RequireSession")
  <2>1. g.op = "disconnect" /\ g.s = s /\ g.pc = "RequireSession"
    BY DEF Started
  <2>2. wsRoom[s] # Nil => Start(g)
    BY DEF Close
  <2> HIDE DEF g
  <2>3. wsRoom[s] # Nil => Len(flight') = 1 /\ flight'[1] = g
    BY <2>2, AloneStarts
  <2> QED
    BY <2>1, <2>3 DEF Running
<1>3. sess[s].room = wsRoom[s] /\ \A t \in Sessions : (t \in open \/ "stop" \notin Workload)
                                    => sess[t].room = IF t \in open THEN wsRoom[t] ELSE Nil
  BY <1>0, <1>1 DEF Consistent, SocketsTrue, Unsettled
<1>4. ServedTrue'
  BY <1>0, <1>1, <1>2, <1>3 DEF ServedTrue
<1>5. SocketsTrue'
  BY <1>0, <1>1, <1>2, <1>3 DEF SocketsTrue, Unsettled
<1>6. AvatarsTrue'
  BY <1>0, <1>1 DEF Consistent, AvatarsTrue, Changing
<1>7. ViewsTrue'
  <2>1. \A t \in Sessions : ActualView(t)' = ActualView(t)
    BY <1>0 DEF ActualView
  <2>2. \A t \in open : t \in Sessions => view[t] = ActualView(t)
    BY <1>1, NothingOwed DEF Consistent
  <2>3. \A t \in Sessions \ open : view[t] = NoView
    BY DEF Consistent, ViewsTrue
  <2>4. \A t \in Sessions : IF t \in open' THEN view'[t] = ActualView(t)' ELSE view'[t] = NoView
    BY <1>0, <2>1, <2>2, <2>3
  <2> QED
    BY <1>1, <1>2, <2>4, NothingOwedThen DEF Snapping
<1> QED
  BY <1>4, <1>5, <1>6, <1>7 DEF Consistent

\* A handler ends without an answer to the others: what it owed is nothing.
LEMMA EndsConsistent ==
  ASSUME TypeOK, Consistent, flight' = <<>>, UNCHANGED <<keys, sockets, view>>,
         Running => /\ flight[1].pc # "Broadcast" /\ flight[1].op # "disconnect"
                    /\ ~ (flight[1].op = "join" /\ flight[1].pc \in Snapping)
                    /\ ~ (flight[1].op = "avatar" /\ flight[1].pc # "RequireSession")
  PROVE  Consistent'
<1>0. UNCHANGED <<meta, parts, order, sess, open, wsRoom, view>> /\ ~ Running'
  BY DEF keys, sockets, Running
<1>1. ServedTrue'
  BY <1>0 DEF ServedTrue
<1>2. SocketsTrue'
  BY <1>0 DEF Consistent, SocketsTrue, Unsettled
<1>3. AvatarsTrue'
  BY <1>0 DEF Consistent, AvatarsTrue, Changing
<1>4. ViewsTrue'
  <2>1. \A s \in Sessions : ActualView(s)' = ActualView(s)
    BY <1>0 DEF ActualView
  <2>2. \A s \in open : s \in Sessions => view[s] = ActualView(s)
    BY NothingOwed DEF Consistent
  <2>3. \A s \in Sessions \ open : view[s] = NoView
    BY DEF Consistent, ViewsTrue
  <2> QED
    BY <1>0, <2>1, <2>2, <2>3, NothingOwedThen
<1> QED
  BY <1>1, <1>2, <1>3, <1>4 DEF Consistent

\* Only a handler that has written nothing is refused, never a disconnect.
LEMMA RefuseConsistent ==
  ASSUME TypeOK, SerialInv, Consistent, NEW k, Refuse(k)
  PROVE  Consistent'
<1> DEFINE h == flight[1]
<1>1. k \in DOMAIN flight /\ Refused(flight[k]) /\ Return(k) /\ UNCHANGED <<keys, sockets, view>>
  BY DEF Refuse
<1>2. flight' = <<>> /\ h = flight[k] /\ Running
  BY <1>1, AloneReturns, AloneRuns DEF SerialInv
<1>3. h \in Handler /\ HandlerOK(h) /\ HandlerTrue(h) /\ KeysTypeOK /\ Exact
  BY <1>2, LoneHandler DEF TypeOK, SerialInv
<1>4. h.pc # "Broadcast" /\ (h.op = "avatar" => h.pc = "RequireSession")
  BY <1>1, <1>2 DEF Refused, Consistent, ServedTrue, Leaving
<1>5. ASSUME h.op = "join", h.pc \in Snapping PROVE FALSE
  <2>1. h.c \in Codes /\ sess[h.s].room = h.c /\ h.s \in Sessions
    BY <1>3, <1>5, LocatedFacts DEF HandlerTrue, Entering, Snapping, Handler
  <2>2. meta[h.c].code
    BY <1>3, <2>1, MemberFacts DEF Exact, SessionsMatchSeats, Present
  <2> QED
    BY <1>1, <1>2, <1>5, <2>2 DEF Refused, Snapping
<1>6. ASSUME h.op = "disconnect" PROVE FALSE
  <2>1. sess[h.s].room # Nil
    BY <1>2, <1>4, <1>6 DEF Consistent, ServedTrue
  <2>2. h.pc \in {"ReadParticipant", "ReadKeys"}
    BY <1>1, <1>2, <1>6, <2>1 DEF Refused, Consistent, ServedTrue
  <2>3. h.c \in Codes /\ sess[h.s].room = h.c /\ parts[h.c][h.s] # Nil /\ h.s \in Sessions
    BY <1>3, <1>6, <2>2, InRoomFacts DEF Located, Pcs, Handler
  <2>4. h.pc = "ReadKeys" /\ \A r \in Present(h.c) \ {h.s} : h.q[r] = 0
    BY <1>1, <1>2, <1>6, <2>2, <2>3 DEF Refused
  <2>5. h.q = order[h.c] /\ h.m.count = meta[h.c].count - 1 /\ h.m.count # 0
    BY <1>3, <1>6, <2>4 DEF HandlerTrue, Departing, Leaving
  <2>6. /\ meta[h.c].count = Cardinality(In(parts[h.c])) /\ meta[h.c].count \in Nat
        /\ \A t \in Sessions : order[h.c][t] # 0 <=> parts[h.c][t] # Nil
    BY <1>3, <2>3, MemberFacts
  <2>7. h.s \in In(parts[h.c]) /\ In(parts[h.c]) \in SUBSET Sessions
    BY <2>3 DEF In
  <2>8. In(parts[h.c]) \ {h.s} = {}
    BY <2>4, <2>5, <2>6 DEF Present, In
  <2>9. Cardinality(In(parts[h.c]) \ {h.s}) = Cardinality(In(parts[h.c])) - 1
    BY <2>7, Counted
  <2>10. Cardinality(In(parts[h.c]) \ {h.s}) = 0
    BY <2>8, Counted
  <2> QED
    BY <2>5, <2>6, <2>9, <2>10
<1> QED
  BY <1>1, <1>2, <1>4, <1>5, <1>6, EndsConsistent

\* A broadcast tells every member of the room what it is owed.
LEMMA BroadcastConsistent ==
  ASSUME TypeOK, SerialInv, Consistent, NEW k, Broadcast(k)
  PROVE  Consistent'
<1> DEFINE h == flight[1]
           g == [h EXCEPT !.out = h.then, !.then = Nil]
<1>1. k \in DOMAIN flight /\ h = flight[k] /\ Running /\ h.pc = "Broadcast"
  BY AloneRuns DEF Broadcast
<1>2. h \in Handler /\ h.out # Nil
  BY <1>1, LoneHandler DEF HandlerOK
<1>3. UNCHANGED <<meta, parts, order, sess, open, wsRoom>>
  BY DEF Broadcast, keys, sockets
<1>4. CASE h.then = Nil
  <2>1. flight' = <<>> /\ ~ Running'
    BY <1>1, <1>4, AloneReturns DEF Broadcast, SerialInv, Running
  <2>2. \A s \in Sessions :
          view'[s] = IF s \in open /\ parts[h.c][s] # Nil /\ s # h.out.x
                     THEN Applied(s, view[s], h.out) ELSE view[s]
    BY <1>1 DEF Broadcast
  <2>3. Owed = h.out /\ OwedNext = Nil
    BY <1>1, <1>4 DEF Owed, OwedNext
  <2>4. \A s \in Sessions : Told(s, Told(s, view[s], Owed), OwedNext)
                              = IF parts[h.c][s] = Nil \/ s = h.out.x THEN view[s]
                                ELSE Applied(s, view[s], h.out)
    BY <1>2, <2>3 DEF Told
  <2>5. \A s \in Sessions : Expected(s) = ActualView(s) /\ ActualView(s)' = ActualView(s)
    BY <1>1, <1>3 DEF Expected, ActualView
  <2>6. \A s \in Sessions : IF s \in open THEN Told(s, Told(s, view[s], Owed), OwedNext) = ActualView(s)
                                          ELSE view[s] = NoView
    BY <1>1, <2>5 DEF Consistent, ViewsTrue, Snapping
  <2>7. \A s \in Sessions : IF s \in open' THEN view'[s] = ActualView(s)' ELSE view'[s] = NoView
    BY <1>3, <2>2, <2>4, <2>5, <2>6
  <2>8. ViewsTrue'
    BY <2>1, <2>7, NothingOwedThen
  <2> QED
    BY <1>1, <1>3, <2>1, <2>8 DEF Consistent, ServedTrue, SocketsTrue, Unsettled, AvatarsTrue,
       Changing, Snapping
<1>5. CASE h.then # Nil
  <2>1. Wait(k, g)
    BY <1>1, <1>5 DEF Broadcast
  <2>2. g.op = h.op /\ g.s = h.s /\ g.c = h.c /\ g.pc = "Broadcast" /\ g.out = h.then /\ g.then = Nil
    BY <1>1, <1>2 DEF Handler
  <2> HIDE DEF g
  <2>3. flight'[1] = g /\ Running'
    BY <1>1, <2>1, AloneMoves
  <2>4. \A s \in Sessions :
          view'[s] = IF s \in open /\ parts[h.c][s] # Nil /\ s # h.out.x
                     THEN Applied(s, view[s], h.out) ELSE view[s]
    BY <1>1 DEF Broadcast
  <2>5. Owed = h.out /\ OwedNext = h.then /\ Owed' = h.then /\ OwedNext' = Nil
    BY <1>1, <2>2, <2>3 DEF Owed, OwedNext
  <2>6. \A s \in open : s \in Sessions => view'[s] = Told(s, view[s], Owed)
    BY <1>2, <2>4, <2>5 DEF Told
  <2>7. \A s \in open : s \in Sessions => Told(s, view[s], Owed)' = Told(s, Told(s, view[s], Owed), OwedNext)
    BY <1>3, <2>2, <2>3, <2>5, <2>6 DEF Told
  <2>8. \A s \in Sessions : Told(s, Told(s, view[s], Owed), OwedNext)' = Told(s, view[s], Owed)'
    BY <2>5 DEF Told
  <2>9. \A s \in Sessions : Expected(s)' = Expected(s)
    BY <1>1, <1>3, <2>2, <2>3 DEF Expected, ActualView
  <2>10. ViewsTrue'
    <3>1. \A s \in Sessions : s \notin open' => view'[s] = NoView
      BY <1>3, <2>4 DEF Consistent, ViewsTrue
    <3>2. \A s \in Sessions : s \in open' => Told(s, Told(s, view[s], Owed), OwedNext)' = Expected(s)'
      BY <1>1, <1>3, <2>7, <2>8, <2>9 DEF Consistent, ViewsTrue, Snapping
    <3> QED
      BY <3>1, <3>2 DEF ViewsTrue
  <2> QED
    BY <1>1, <1>3, <2>2, <2>3, <2>10 DEF Consistent, ServedTrue, SocketsTrue, Unsettled, AvatarsTrue,
       Changing, Snapping
<1> QED
  BY <1>4, <1>5

\* updateDisplayName: every member is told the name that was written.
LEMMA RenameConsistent ==
  ASSUME TypeOK, SerialInv, Consistent, NEW k, CommitRename(k)
  PROVE  Consistent'
<1> DEFINE h == flight[k]
<1>1. At(k, {"rename"}, "CommitRename")
  BY DEF CommitRename
<1>2. /\ k \in DOMAIN flight /\ KeysTypeOK /\ Exact /\ h \in Handler /\ h.s \in Sessions
      /\ h.op \in {"rename"} /\ h.pc = "CommitRename" /\ HandlerOK(h) /\ HandlerTrue(h)
  BY <1>1, RunFacts
<1>3. flight[1] = h /\ Running
  BY <1>2, AloneRuns
<1>4. \A s \in open : s \in Sessions => view[s] = ActualView(s)
  BY <1>2, <1>3, NothingOwed DEF Consistent, Snapping, Leaving
<1>5. \A s \in Sessions \ open : view[s] = NoView
  BY DEF Consistent, ViewsTrue
<1>6. h.c \in Codes /\ sess[h.s].room = h.c /\ parts[h.c][h.s] # Nil
  BY <1>2, InRoomFacts DEF Located, Pcs, Leaving
<1>7. /\ parts' = [parts EXCEPT ![h.c][h.s] = [name |-> h.n, avatar |-> h.a]]
      /\ UNCHANGED <<meta, sess, open, wsRoom, view>>
      /\ h.a = parts[h.c][h.s].avatar /\ h.n \in Names
  BY <1>2 DEF CommitRename, WriteName, HandlerTrue, Renaming, Leaving, HandlerOK, Handler
<1> DEFINE m == [Event("name", h.c, h.s, Nil) EXCEPT !.n = h.n]
           g == [Started(h.op, h.s, "Broadcast") EXCEPT !.c = h.c, !.out = m]
<1>8. Wait(k, g)
  BY DEF CommitRename
<1>9. g.op = h.op /\ g.s = h.s /\ g.c = h.c /\ g.pc = "Broadcast" /\ g.out = m /\ g.then = Nil
  BY DEF Started
<1>10. m \in Message /\ m.type = "name" /\ m.c = h.c /\ m.s = h.s /\ m.n = h.n /\ m.x = Nil
  BY <1>2, <1>6, EventTyped DEF Event, Message, Handler, HandlerOK
<1> HIDE DEF m, g
<1>11. \A c \in Codes, s \in open : parts[c][s] # Nil =>
         /\ parts[c][s].avatar = sess[s].avatar
         /\ meta[c].owner = s => meta[c].avatar = sess[s].avatar
  BY <1>2, <1>3 DEF Consistent, AvatarsTrue, Changing, Leaving
<1>12. h.s \in open \/ "stop" \notin Workload
         => sess[h.s].room = IF h.s \in open THEN wsRoom[h.s] ELSE Nil
  BY <1>2, <1>3 DEF Consistent, SocketsTrue, Unsettled, Snapping
<1>13. \A s \in Sessions, c \in Codes : sess[s].room = c <=> parts[c][s] # Nil
  BY <1>2 DEF Exact, SessionsMatchSeats, Present
<1>14. parts[h.c] \in [Sessions -> Participant \cup {Nil}] /\ Nil \notin Sessions
  BY <1>2, <1>6, SessionsAssumption DEF KeysTypeOK
<1>15. /\ parts'[h.c] = [parts[h.c] EXCEPT ![h.s] = [name |-> h.n, avatar |-> parts[h.c][h.s].avatar]]
       /\ \A d \in Codes : d # h.c => parts'[d] = parts[d]
  BY <1>2, <1>6, <1>7 DEF KeysTypeOK
<1>16. ASSUME NEW c \in Codes, NEW s \in open, parts'[c][s] # Nil
       PROVE  /\ parts'[c][s].avatar = sess'[s].avatar
              /\ meta'[c].owner = s => meta'[c].avatar = sess'[s].avatar
  <2>1. parts[c][s] # Nil /\ parts'[c][s].avatar = parts[c][s].avatar
    BY <1>2, <1>6, <1>14, <1>15, <1>16 DEF TypeOK
  <2> QED
    BY <1>7, <1>11, <2>1
<1>17. ASSUME NEW s \in Sessions \cap open
       PROVE  ActualView(s)' = IF parts'[h.c][s] = Nil THEN view'[s] ELSE Applied(s, view'[s], m)
  <2>1. CASE sess[s].room = h.c
    <3>1. ActualView(s)' = applyRoomJoined(h.c, meta[h.c].owner, parts'[h.c], meta[h.c].takeover, meta[h.c].avatar)
      BY <1>6, <1>7, <2>1, CodesAssumption DEF ActualView
    <3>2. view[s] = applyRoomJoined(h.c, meta[h.c].owner, parts[h.c], meta[h.c].takeover, meta[h.c].avatar)
      BY <1>4, <1>6, <2>1, CodesAssumption DEF ActualView
    <3>3. Applied(s, view[s], m) = ActualView(s)'
      BY <1>6, <1>10, <1>14, <1>15, <3>1, <3>2, TellName
    <3>4. parts'[h.c][s] # Nil
      BY <1>6, <1>7, <1>13, <1>14, <1>15, <2>1, ParticipantReal DEF Participant, KeysTypeOK
    <3> QED
      BY <1>7, <3>3, <3>4
  <2>2. CASE sess[s].room # h.c
    <3>1. ActualView(s)' = ActualView(s)
      BY <1>2, <1>7, <1>15, <2>2, Elsewhere
    <3>2. parts'[h.c][s] = Nil
      BY <1>6, <1>13, <1>14, <1>15, <2>2
    <3> QED
      BY <1>4, <1>7, <3>1, <3>2
  <2> QED
    BY <2>1, <2>2
<1> QED
  BY <1>2, <1>5, <1>7, <1>8, <1>9, <1>10, <1>12, <1>14, <1>16, <1>17, MessageReal, Announces


\* takeOwner: every member is told the new owner, whose avatar id they know.
LEMMA TakeConsistent ==
  ASSUME TypeOK, SerialInv, Consistent, NEW k, CommitOwner(k)
  PROVE  Consistent'
<1> DEFINE h == flight[k]
<1>1. At(k, {"take"}, "CommitOwner")
  BY DEF CommitOwner
<1>2. /\ k \in DOMAIN flight /\ KeysTypeOK /\ Exact /\ h \in Handler /\ h.s \in Sessions
      /\ h.op \in {"take"} /\ h.pc = "CommitOwner" /\ HandlerOK(h) /\ HandlerTrue(h)
  BY <1>1, RunFacts
<1>3. flight[1] = h /\ Running
  BY <1>2, AloneRuns
<1>4. \A s \in open : s \in Sessions => view[s] = ActualView(s)
  BY <1>2, <1>3, NothingOwed DEF Consistent, Snapping, Leaving
<1>5. \A s \in Sessions \ open : view[s] = NoView
  BY DEF Consistent, ViewsTrue
<1>6. h.c \in Codes /\ sess[h.s].room = h.c /\ parts[h.c][h.s] # Nil
  BY <1>2, InRoomFacts DEF Located, Pcs, Leaving
<1>7. /\ parts' = parts /\ sess' = sess
      /\ open' = open /\ wsRoom' = wsRoom /\ view' = view
  BY DEF CommitOwner, WriteOwner, sockets
<1>15. /\ meta'[h.c].owner = h.s /\ meta'[h.c].takeover = meta[h.c].takeover /\ meta'[h.c].avatar = h.a
       /\ \A d \in Codes : d # h.c => meta'[d] = meta[d]
  BY <1>2, <1>6 DEF CommitOwner, WriteOwner, KeysTypeOK, Room
<1> DEFINE m == Event("owner", h.c, h.s, Nil)
           g == [Started(h.op, h.s, "Broadcast") EXCEPT !.c = h.c, !.out = m]
<1>8. Wait(k, g)
  BY DEF CommitOwner
<1>9. g.op = h.op /\ g.s = h.s /\ g.c = h.c /\ g.pc = "Broadcast" /\ g.out = m /\ g.then = Nil
  BY DEF Started
<1>10. m \in Message /\ m.type = "owner" /\ m.c = h.c /\ m.s = h.s /\ m.x = Nil
  BY <1>2, <1>6, EventTyped DEF Event, Message
<1> HIDE DEF m, g
<1>11. \A c \in Codes, s \in open : parts[c][s] # Nil =>
         /\ parts[c][s].avatar = sess[s].avatar
         /\ meta[c].owner = s => meta[c].avatar = sess[s].avatar
  BY <1>2, <1>3 DEF Consistent, AvatarsTrue, Changing, Leaving
<1>12. h.s \in open \/ "stop" \notin Workload
         => sess[h.s].room = IF h.s \in open THEN wsRoom[h.s] ELSE Nil
  BY <1>2, <1>3 DEF Consistent, SocketsTrue, Unsettled, Snapping
<1>13. \A s \in Sessions, c \in Codes : sess[s].room = c <=> parts[c][s] # Nil
  BY <1>2 DEF Exact, SessionsMatchSeats, Present
<1>14. parts[h.c] \in [Sessions -> Participant \cup {Nil}] /\ Nil \notin Sessions
  BY <1>2, <1>6, SessionsAssumption DEF KeysTypeOK
<1>18. h.a = parts[h.c][h.s].avatar /\ h.a = sess[h.s].avatar
  <2>1. h.a = sess[h.s].avatar
    BY <1>2 DEF HandlerTrue, Taking, Leaving
  <2>2. h.s \in open
    BY <1>2, <1>3 DEF Consistent, ServedTrue
  <2> QED
    BY <1>6, <1>11, <2>1, <2>2
<1>16. ASSUME NEW c \in Codes, NEW s \in open, parts'[c][s] # Nil
       PROVE  /\ parts'[c][s].avatar = sess'[s].avatar
              /\ meta'[c].owner = s => meta'[c].avatar = sess'[s].avatar
  BY <1>7, <1>11, <1>15, <1>16, <1>18
<1>17. ASSUME NEW s \in Sessions \cap open
       PROVE  ActualView(s)' = IF parts'[h.c][s] = Nil \/ s = m.x THEN view'[s] ELSE Applied(s, view'[s], m)
  <2>1. CASE sess[s].room = h.c
    <3>1. ActualView(s)' = applyRoomJoined(h.c, meta'[h.c].owner, parts[h.c], meta'[h.c].takeover, meta'[h.c].avatar)
      BY <1>6, <1>7, <2>1, CodesAssumption DEF ActualView
    <3>2. view[s] = applyRoomJoined(h.c, meta[h.c].owner, parts[h.c], meta[h.c].takeover, meta[h.c].avatar)
      BY <1>4, <1>6, <2>1, CodesAssumption DEF ActualView
    <3>3. Applied(s, view[s], m) = ActualView(s)'
      <4>1. parts[h.c][m.s] # Nil
        BY <1>6, <1>10
      <4>2. Applied(s, view[s], m)
              = applyRoomJoined(h.c, m.s, parts[h.c], meta[h.c].takeover, parts[h.c][m.s].avatar)
        BY <1>10, <1>14, <3>2, <4>1, TellOwner
      <4> QED
        BY <1>10, <1>15, <1>18, <3>1, <4>2
    <3>4. parts'[h.c][s] # Nil
      BY <1>6, <1>7, <1>13, <2>1
    <3> QED
      BY <1>7, <1>10, <1>14, <3>3, <3>4
  <2>2. CASE sess[s].room # h.c
    <3>1. ActualView(s)' = ActualView(s)
      BY <1>2, <1>7, <1>15, <2>2, Elsewhere
    <3> QED
      BY <1>4, <1>6, <1>7, <1>13, <2>2, <3>1
  <2> QED
    BY <2>1, <2>2
<1> QED
  BY <1>2, <1>5, <1>7, <1>8, <1>9, <1>10, <1>12, <1>14, <1>16, <1>17, MessageReal, Announces


\* updateRoomSettings: every member is told the setting that was written.
LEMMA SettingsConsistent ==
  ASSUME TypeOK, SerialInv, Consistent, NEW k, CommitSettings(k)
  PROVE  Consistent'
<1> DEFINE h == flight[k]
<1>1. At(k, {"settings"}, "CommitSettings")
  BY DEF CommitSettings
<1>2. /\ k \in DOMAIN flight /\ KeysTypeOK /\ Exact /\ h \in Handler /\ h.s \in Sessions
      /\ h.op \in {"settings"} /\ h.pc = "CommitSettings" /\ HandlerOK(h) /\ HandlerTrue(h)
  BY <1>1, RunFacts
<1>3. flight[1] = h /\ Running
  BY <1>2, AloneRuns
<1>4. \A s \in open : s \in Sessions => view[s] = ActualView(s)
  BY <1>2, <1>3, NothingOwed DEF Consistent, Snapping, Leaving
<1>5. \A s \in Sessions \ open : view[s] = NoView
  BY DEF Consistent, ViewsTrue
<1>6. h.c \in Codes /\ sess[h.s].room = h.c /\ parts[h.c][h.s] # Nil
  BY <1>2, InRoomFacts DEF Located, Pcs, Leaving
<1>7. /\ parts' = parts /\ sess' = sess
      /\ open' = open /\ wsRoom' = wsRoom /\ view' = view
  BY DEF CommitSettings, WriteTakeover, sockets
<1>15. /\ meta'[h.c].owner = meta[h.c].owner /\ meta'[h.c].takeover = h.b
     /\ meta'[h.c].avatar = meta[h.c].avatar
       /\ \A d \in Codes : d # h.c => meta'[d] = meta[d]
  BY <1>2, <1>6 DEF CommitSettings, WriteTakeover, KeysTypeOK, Room
<1> DEFINE m == [Event("settings", h.c, h.s, Nil) EXCEPT !.b = h.b]
           g == [Started(h.op, h.s, "Broadcast") EXCEPT !.c = h.c, !.out = m]
<1>8. Wait(k, g)
  BY DEF CommitSettings
<1>9. g.op = h.op /\ g.s = h.s /\ g.c = h.c /\ g.pc = "Broadcast" /\ g.out = m /\ g.then = Nil
  BY DEF Started
<1>10. m \in Message /\ m.type = "settings" /\ m.c = h.c /\ m.s = h.s /\ m.b = h.b /\ m.x = Nil
  BY <1>2, <1>6, EventTyped DEF Event, Message, Handler
<1> HIDE DEF m, g
<1>11. \A c \in Codes, s \in open : parts[c][s] # Nil =>
         /\ parts[c][s].avatar = sess[s].avatar
         /\ meta[c].owner = s => meta[c].avatar = sess[s].avatar
  BY <1>2, <1>3 DEF Consistent, AvatarsTrue, Changing, Leaving
<1>12. h.s \in open \/ "stop" \notin Workload
         => sess[h.s].room = IF h.s \in open THEN wsRoom[h.s] ELSE Nil
  BY <1>2, <1>3 DEF Consistent, SocketsTrue, Unsettled, Snapping
<1>13. \A s \in Sessions, c \in Codes : sess[s].room = c <=> parts[c][s] # Nil
  BY <1>2 DEF Exact, SessionsMatchSeats, Present
<1>14. parts[h.c] \in [Sessions -> Participant \cup {Nil}] /\ Nil \notin Sessions
  BY <1>2, <1>6, SessionsAssumption DEF KeysTypeOK
<1>16. ASSUME NEW c \in Codes, NEW s \in open, parts'[c][s] # Nil
       PROVE  /\ parts'[c][s].avatar = sess'[s].avatar
              /\ meta'[c].owner = s => meta'[c].avatar = sess'[s].avatar
  BY <1>7, <1>11, <1>15, <1>16
<1>17. ASSUME NEW s \in Sessions \cap open
       PROVE  ActualView(s)' = IF parts'[h.c][s] = Nil \/ s = m.x THEN view'[s] ELSE Applied(s, view'[s], m)
  <2>1. CASE sess[s].room = h.c
    <3>1. ActualView(s)' = applyRoomJoined(h.c, meta'[h.c].owner, parts[h.c], meta'[h.c].takeover, meta'[h.c].avatar)
      BY <1>6, <1>7, <2>1, CodesAssumption DEF ActualView
    <3>2. view[s] = applyRoomJoined(h.c, meta[h.c].owner, parts[h.c], meta[h.c].takeover, meta[h.c].avatar)
      BY <1>4, <1>6, <2>1, CodesAssumption DEF ActualView
    <3>3. Applied(s, view[s], m) = ActualView(s)'
      BY <1>6, <1>10, <1>14, <1>15, <3>1, <3>2, TellSettings
    <3>4. parts'[h.c][s] # Nil
      BY <1>6, <1>7, <1>13, <2>1
    <3> QED
      BY <1>7, <1>10, <1>14, <3>3, <3>4
  <2>2. CASE sess[s].room # h.c
    <3>1. ActualView(s)' = ActualView(s)
      BY <1>2, <1>7, <1>15, <2>2, Elsewhere
    <3> QED
      BY <1>4, <1>6, <1>7, <1>13, <2>2, <3>1
  <2> QED
    BY <2>1, <2>2
<1> QED
  BY <1>2, <1>5, <1>7, <1>8, <1>9, <1>10, <1>12, <1>14, <1>16, <1>17, MessageReal, Announces


\* handleParamBatch: parameters are no part of what is compared.
LEMMA StateConsistent ==
  ASSUME TypeOK, SerialInv, Consistent, NEW k, CommitState(k)
  PROVE  Consistent'
<1> DEFINE h == flight[k]
<1>1. At(k, {"params"}, "CommitState")
  BY DEF CommitState
<1>2. /\ k \in DOMAIN flight /\ KeysTypeOK /\ Exact /\ h \in Handler /\ h.s \in Sessions
      /\ h.op \in {"params"} /\ h.pc = "CommitState" /\ HandlerOK(h) /\ HandlerTrue(h)
  BY <1>1, RunFacts
<1>3. flight[1] = h /\ Running
  BY <1>2, AloneRuns
<1>4. \A s \in open : s \in Sessions => view[s] = ActualView(s)
  BY <1>2, <1>3, NothingOwed DEF Consistent, Snapping, Leaving
<1>5. \A s \in Sessions \ open : view[s] = NoView
  BY DEF Consistent, ViewsTrue
<1>6. h.c \in Codes /\ sess[h.s].room = h.c /\ parts[h.c][h.s] # Nil
  BY <1>2, InRoomFacts DEF Located, Pcs, Leaving
<1>7. /\ parts' = parts /\ sess' = sess
      /\ open' = open /\ wsRoom' = wsRoom /\ view' = view
  BY DEF CommitState, WriteState, sockets
<1>15. /\ meta'[h.c] = meta[h.c]
       /\ \A d \in Codes : d # h.c => meta'[d] = meta[d]
  BY <1>2, <1>6 DEF CommitState, WriteState, KeysTypeOK, Room
<1> DEFINE m == Event("params", h.c, h.s, h.s)
           g == [Started(h.op, h.s, "Broadcast") EXCEPT !.c = h.c, !.out = m]
<1>8. Wait(k, g)
  BY DEF CommitState
<1>9. g.op = h.op /\ g.s = h.s /\ g.c = h.c /\ g.pc = "Broadcast" /\ g.out = m /\ g.then = Nil
  BY DEF Started
<1>10. m \in Message /\ m.type = "params" /\ m.c = h.c /\ m.s = h.s /\ m.x = h.s
  BY <1>2, <1>6, EventTyped DEF Event, Message
<1> HIDE DEF m, g
<1>11. \A c \in Codes, s \in open : parts[c][s] # Nil =>
         /\ parts[c][s].avatar = sess[s].avatar
         /\ meta[c].owner = s => meta[c].avatar = sess[s].avatar
  BY <1>2, <1>3 DEF Consistent, AvatarsTrue, Changing, Leaving
<1>12. h.s \in open \/ "stop" \notin Workload
         => sess[h.s].room = IF h.s \in open THEN wsRoom[h.s] ELSE Nil
  BY <1>2, <1>3 DEF Consistent, SocketsTrue, Unsettled, Snapping
<1>13. \A s \in Sessions, c \in Codes : sess[s].room = c <=> parts[c][s] # Nil
  BY <1>2 DEF Exact, SessionsMatchSeats, Present
<1>14. parts[h.c] \in [Sessions -> Participant \cup {Nil}] /\ Nil \notin Sessions
  BY <1>2, <1>6, SessionsAssumption DEF KeysTypeOK
<1>16. ASSUME NEW c \in Codes, NEW s \in open, parts'[c][s] # Nil
       PROVE  /\ parts'[c][s].avatar = sess'[s].avatar
              /\ meta'[c].owner = s => meta'[c].avatar = sess'[s].avatar
  BY <1>7, <1>11, <1>15, <1>16
<1>17. ASSUME NEW s \in Sessions \cap open
       PROVE  ActualView(s)' = IF parts'[h.c][s] = Nil \/ s = m.x THEN view'[s] ELSE Applied(s, view'[s], m)
  <2>1. CASE sess[s].room = h.c
    <3>1. ActualView(s)' = applyRoomJoined(h.c, meta'[h.c].owner, parts[h.c], meta'[h.c].takeover, meta'[h.c].avatar)
      BY <1>6, <1>7, <2>1, CodesAssumption DEF ActualView
    <3>2. view[s] = applyRoomJoined(h.c, meta[h.c].owner, parts[h.c], meta[h.c].takeover, meta[h.c].avatar)
      BY <1>4, <1>6, <2>1, CodesAssumption DEF ActualView
    <3>3. Applied(s, view[s], m) = ActualView(s)'
      BY <1>6, <1>10, <1>14, <1>15, <3>1, <3>2, TellParams
    <3>4. parts'[h.c][s] # Nil
      BY <1>6, <1>7, <1>13, <2>1
    <3> QED
      BY <1>7, <1>10, <1>14, <3>3, <3>4, TellParams
  <2>2. CASE sess[s].room # h.c
    <3>1. ActualView(s)' = ActualView(s)
      BY <1>2, <1>7, <1>15, <2>2, Elsewhere
    <3> QED
      BY <1>4, <1>6, <1>7, <1>13, <2>2, <3>1
  <2> QED
    BY <2>1, <2>2
<1> QED
  BY <1>2, <1>5, <1>7, <1>8, <1>9, <1>10, <1>12, <1>14, <1>16, <1>17, MessageReal, Announces

\* leaveRoom: those who stay are told who left and, if the room changes hands, to whom.
LEMMA LeaveConsistent ==
  ASSUME TypeOK, SerialInv, Consistent, NEW k, CommitLeave(k)
  PROVE  Consistent'
<1> DEFINE h == flight[k]
<1>1. At(k, Leaving, "CommitLeave")
  BY DEF CommitLeave
<1>2. /\ k \in DOMAIN flight /\ KeysTypeOK /\ Exact /\ h \in Handler /\ h.s \in Sessions
      /\ h.op \in Leaving /\ h.pc = "CommitLeave" /\ HandlerOK(h) /\ HandlerTrue(h)
  BY <1>1, RunFacts
<1>3. flight[1] = h /\ Running
  BY <1>2, AloneRuns
<1>4. \A s \in open : s \in Sessions => view[s] = ActualView(s)
  BY <1>2, <1>3, NothingOwed DEF Consistent, Snapping, Leaving
<1>5. \A s \in Sessions \ open : view[s] = NoView
  BY DEF Consistent, ViewsTrue
<1>6. h.c \in Codes /\ sess[h.s].room = h.c /\ parts[h.c][h.s] # Nil
  BY <1>2, InRoomFacts DEF Located, Pcs, Leaving
<1> DEFINE m1 == Event("left", h.c, h.s, h.s)
           m2 == IF h.o = Nil THEN Nil ELSE Event("owner", h.c, h.o, Nil)
           g  == [Started(h.op, h.s, "Broadcast") EXCEPT !.c = h.c, !.out = m1, !.then = m2]
<1>8. Wait(k, g)
  BY DEF CommitLeave
<1>9. g.op = h.op /\ g.s = h.s /\ g.c = h.c /\ g.pc = "Broadcast" /\ g.out = m1 /\ g.then = m2
  BY DEF Started
<1>10. /\ m1 \in Message /\ m1.type = "left" /\ m1.c = h.c /\ m1.s = h.s /\ m1.x = h.s
       /\ h.o = Nil => m2 = Nil
       /\ h.o \in Sessions => /\ m2 \in Message /\ m2.type = "owner" /\ m2.c = h.c
                              /\ m2.s = h.o /\ m2.x = Nil
  BY <1>2, <1>6, EventTyped, SessionsAssumption DEF Event
<1> HIDE DEF m1, m2, g
<1>11. \A c \in Codes, s \in open : parts[c][s] # Nil =>
         /\ parts[c][s].avatar = sess[s].avatar
         /\ meta[c].owner = s => meta[c].avatar = sess[s].avatar
  BY <1>2, <1>3 DEF Consistent, AvatarsTrue, Changing, Leaving
<1>13. \A s \in Sessions, c \in Codes : sess[s].room = c <=> parts[c][s] # Nil
  BY <1>2 DEF Exact, SessionsMatchSeats, Present
<1>14. parts[h.c] \in [Sessions -> Participant \cup {Nil}] /\ Nil \notin Sessions
  BY <1>2, <1>6, SessionsAssumption DEF KeysTypeOK
<1>15. /\ h.old = parts[h.c][h.s].name /\ h.m.count = meta[h.c].count - 1
       /\ \/ h.o = Nil /\ h.np = Nil /\ (h.m.count = 0 \/ meta[h.c].owner # h.s)
          \/ /\ h.m.count # 0 /\ meta[h.c].owner = h.s
             /\ Heir(h.c, h.s, h.o) /\ h.np = parts[h.c][h.o]
  BY <1>2 DEF HandlerTrue, Departing, Leaving
<1>16. open' = open /\ \A s \in Sessions : s # h.s => wsRoom'[s] = wsRoom[s] /\ view'[s] = view[s]
  BY <1>2 DEF CommitLeave, TypeOK, Deliver
<1>17. h.op = "leave" => h.s \in open /\ wsRoom'[h.s] = Nil /\ view'[h.s] = NoView
  <2>1. h.op = "leave" => h.s \in open
    BY <1>2, <1>3 DEF Consistent, ServedTrue
  <2> QED
    BY <1>2, <2>1 DEF CommitLeave, TypeOK, Deliver
<1>18. h.op # "leave" => h.s \notin open /\ view'[h.s] = NoView
  <2>1. h.op # "leave" => h.s \notin open /\ view' = view
    BY <1>2, <1>3 DEF Consistent, ServedTrue, Leaving, CommitLeave
  <2> QED
    BY <1>2, <1>5, <2>1
<1>19. sess'[h.s] = NoSession /\ \A s \in Sessions : s # h.s => sess'[s] = sess[s]
  BY <1>2 DEF CommitLeave, DeleteRoom, RemoveParticipant, KeysTypeOK
<1>20. \A d \in Codes : d # h.c => parts'[d] = parts[d] /\ meta'[d] = meta[d]
  BY <1>2, <1>6 DEF CommitLeave, DeleteRoom, RemoveParticipant, KeysTypeOK
<1>21. CASE h.m.count = 0
  <2>1. In(parts[h.c]) = {h.s}
    <3>1. meta[h.c].count \in Nat /\ (meta[h.c].count = 1 => In(parts[h.c]) = {h.s})
      BY <1>2, <1>6, MemberFacts
    <3> QED
      BY <1>15, <1>21, <3>1
  <2>2. \A s \in Sessions : s # h.s => parts[h.c][s] = Nil
    BY <2>1 DEF In
  <2>3. parts'[h.c] = NoParts
    BY <1>2, <1>6, <1>21 DEF CommitLeave, DeleteRoom, KeysTypeOK
  <2>4. \A s \in Sessions : parts'[h.c][s] = Nil
    BY <2>3 DEF NoParts
  <2>5. ASSUME NEW c \in Codes, NEW s \in open, parts'[c][s] # Nil
        PROVE  /\ parts'[c][s].avatar = sess'[s].avatar
               /\ meta'[c].owner = s => meta'[c].avatar = sess'[s].avatar
    <3>1. c # h.c /\ s \in Sessions
      BY <2>4, <2>5 DEF TypeOK
    <3>2. parts[c][s] # Nil /\ parts'[c] = parts[c] /\ meta'[c] = meta[c]
      BY <1>20, <2>5, <3>1
    <3>3. s # h.s
      BY <1>6, <1>13, <3>1, <3>2
    <3> QED
      BY <1>11, <1>19, <3>1, <3>2, <3>3
  <2>6. ASSUME NEW s \in Sessions \cap open PROVE ActualView(s)' = view'[s]
    <3>1. CASE s = h.s
      BY <1>17, <1>18, <1>19, <3>1 DEF ActualView, NoSession
    <3>2. CASE s # h.s
      <4>1. sess[s].room # h.c /\ sess'[s].room = sess[s].room
        BY <1>6, <1>13, <1>19, <2>2, <3>2
      <4>2. ActualView(s)' = ActualView(s)
        BY <1>2, <1>20, <4>1, Elsewhere
      <4> QED
        BY <1>4, <1>16, <3>2, <4>2
    <3> QED
      BY <3>1, <3>2
  <2>7. \A s \in Sessions \ open : view'[s] = NoView
    BY <1>5, <1>16, <1>17, <1>18
  <2>8. \A s \in Sessions : s # g.s => sess'[s].room = sess[s].room /\ wsRoom'[s] = wsRoom[s]
    BY <1>9, <1>16, <1>19
  <2>9. sess'[g.s].room = IF g.s \in open THEN wsRoom'[g.s] ELSE Nil
    BY <1>9, <1>17, <1>18, <1>19 DEF NoSession
  <2> QED
    BY <1>2, <1>8, <1>9, <1>16, <2>4, <2>5, <2>6, <2>7, <2>8, <2>9, Announces
<1>22. CASE h.m.count # 0
  <2>1. RemoveParticipant(h.s, h.old, h.c, h.m.count, h.o, h.np)
    BY <1>22 DEF CommitLeave
  <2>2. parts'[h.c] = [parts[h.c] EXCEPT ![h.s] = Nil]
    BY <1>2, <1>6, <2>1 DEF RemoveParticipant, KeysTypeOK
  <2>3. meta'[h.c] = Continued(meta[h.c], h.m.count, h.o, h.np)
    BY <1>2, <1>6, <2>1 DEF RemoveParticipant, KeysTypeOK
  <2>4. /\ meta'[h.c].takeover = meta[h.c].takeover
        /\ meta'[h.c].owner = IF h.o = Nil THEN meta[h.c].owner ELSE h.o
        /\ meta'[h.c].avatar = IF h.np = Nil THEN meta[h.c].avatar ELSE h.np.avatar
    BY <1>2, <1>6, <2>3 DEF Continued, KeysTypeOK, Room
  <2>5. parts'[h.c][h.s] = Nil /\ \A s \in Sessions : s # h.s => parts'[h.c][s] = parts[h.c][s]
    BY <1>2, <1>14, <2>2
  <2>6. h.o # Nil => /\ h.o \in Sessions /\ h.o # h.s /\ parts'[h.c][h.o] = parts[h.c][h.o]
                     /\ parts[h.c][h.o] # Nil /\ meta'[h.c].owner = h.o
                     /\ meta'[h.c].avatar = parts[h.c][h.o].avatar
    BY <1>15, <2>4, <2>5 DEF Heir, Present
  <2>7. h.o = Nil => meta'[h.c].owner = meta[h.c].owner /\ meta'[h.c].avatar = meta[h.c].avatar
    BY <1>14, <1>15, <2>4 DEF Heir, Present
  <2>8. ASSUME NEW c \in Codes, NEW s \in open, parts'[c][s] # Nil
        PROVE  /\ parts'[c][s].avatar = sess'[s].avatar
               /\ meta'[c].owner = s => meta'[c].avatar = sess'[s].avatar
    <3>1. s \in Sessions
      BY DEF TypeOK
    <3>2. s # h.s /\ parts'[c][s] = parts[c][s] /\ parts[c][s] # Nil
      BY <1>6, <1>13, <1>20, <2>5, <2>8, <3>1
    <3>3. CASE c = h.c
      <4>1. CASE h.o = Nil
        BY <1>11, <1>19, <2>7, <3>1, <3>2, <3>3, <4>1
      <4>2. CASE h.o # Nil
        BY <1>11, <1>19, <2>6, <3>1, <3>2, <3>3, <4>2
      <4> QED
        BY <4>1, <4>2
    <3>4. CASE c # h.c
      BY <1>11, <1>19, <1>20, <3>1, <3>2, <3>4
    <3> QED
      BY <3>3, <3>4
  <2>9. ASSUME NEW s \in Sessions \cap open
        PROVE  LET v == IF m1 = Nil \/ parts'[h.c][s] = Nil \/ s = m1.x THEN view'[s]
                                                              ELSE Applied(s, view'[s], m1)
               IN ActualView(s)' = IF m2 = Nil \/ parts'[h.c][s] = Nil \/ s = m2.x THEN v
                                                              ELSE Applied(s, v, m2)
    <3>1. CASE s = h.s
      <4>1. ActualView(s)' = view'[s] /\ parts'[h.c][s] = Nil
        BY <1>17, <1>18, <1>19, <2>5, <3>1 DEF ActualView, NoSession
      <4> QED
        BY <4>1
    <3>2. CASE s # h.s /\ sess[s].room # h.c
      <4>1. ActualView(s)' = ActualView(s)
        BY <1>2, <1>19, <1>20, <3>2, Elsewhere
      <4>2. parts'[h.c][s] = Nil
        BY <1>6, <1>13, <2>5, <3>2
      <4> QED
        BY <1>4, <1>16, <3>2, <4>1, <4>2
    <3>3. CASE s # h.s /\ sess[s].room = h.c
      <4>1. ActualView(s)' = applyRoomJoined(h.c, meta'[h.c].owner, parts'[h.c], meta[h.c].takeover, meta'[h.c].avatar)
        BY <1>6, <1>19, <2>4, <3>3, CodesAssumption DEF ActualView
      <4>2. view'[s] = applyRoomJoined(h.c, meta[h.c].owner, parts[h.c], meta[h.c].takeover, meta[h.c].avatar)
        BY <1>4, <1>6, <1>16, <3>3, CodesAssumption DEF ActualView
      <4> DEFINE v == applyRoomJoined(h.c, meta[h.c].owner, parts'[h.c], meta[h.c].takeover, meta[h.c].avatar)
      <4>3. Applied(s, view'[s], m1) = v
        BY <1>10, <1>14, <2>2, <3>3, <4>2, TellLeft
      <4>4. parts'[h.c][s] # Nil /\ s # m1.x /\ m1 # Nil
        BY <1>6, <1>10, <1>13, <2>5, <3>3, MessageReal
      <4>5. ASSUME h.o = Nil PROVE ActualView(s)' = v /\ m2 = Nil
        BY <1>10, <2>7, <4>1, <4>5
      <4>6. ASSUME h.o # Nil PROVE ActualView(s)' = Applied(s, v, m2) /\ m2 # Nil /\ s # m2.x
        <5>1. parts'[h.c] \in [Sessions -> Participant \cup {Nil}]
          BY <1>14, <2>2
        <5>2. m2 \in Message /\ m2.type = "owner" /\ m2.c = h.c /\ m2.s = h.o /\ m2.x = Nil
          BY <1>10, <2>6, <4>6
        <5>3. parts'[h.c][m2.s] # Nil
          BY <2>6, <4>6, <5>2
        <5>4. Applied(s, v, m2)
                = applyRoomJoined(h.c, m2.s, parts'[h.c], meta[h.c].takeover, parts'[h.c][m2.s].avatar)
          BY <5>1, <5>2, <5>3, TellOwner
        <5>5. Applied(s, v, m2) = ActualView(s)'
          BY <2>6, <4>1, <4>6, <5>2, <5>4
        <5> QED
          BY <1>14, <5>2, <5>5, MessageReal
      <4> HIDE DEF v
      <4>7. CASE h.o = Nil
        BY <4>3, <4>4, <4>5, <4>7
      <4>8. CASE h.o # Nil
        BY <4>3, <4>4, <4>6, <4>8
      <4> QED
        BY <4>7, <4>8
    <3> QED
      BY <3>1, <3>2, <3>3
  <2>10. \A s \in Sessions \ open : view'[s] = NoView
    BY <1>5, <1>16, <1>17, <1>18
  <2>11. \A s \in Sessions : s # g.s => sess'[s].room = sess[s].room /\ wsRoom'[s] = wsRoom[s]
    BY <1>9, <1>16, <1>19
  <2>12. sess'[g.s].room = IF g.s \in open THEN wsRoom'[g.s] ELSE Nil
    BY <1>9, <1>17, <1>18, <1>19 DEF NoSession
  <2> QED
    BY <1>2, <1>8, <1>9, <1>16, <2>8, <2>9, <2>10, <2>11, <2>12, Announces
<1> QED
  BY <1>21, <1>22

\* joinRoom, at its end: the joiner shows the room it has read, the others are told of it.
LEMMA SnapConsistent ==
  ASSUME TypeOK, SerialInv, Consistent, NEW k, SnapState(k)
  PROVE  Consistent'
<1> DEFINE h == flight[k]
<1>1. At(k, {"join"}, "SnapState")
  BY DEF SnapState
<1>2. /\ k \in DOMAIN flight /\ KeysTypeOK /\ Exact /\ h \in Handler /\ h.s \in Sessions
      /\ h.op \in {"join"} /\ h.pc = "SnapState" /\ HandlerOK(h) /\ HandlerTrue(h)
  BY <1>1, RunFacts
<1>3. flight[1] = h /\ Running
  BY <1>2, AloneRuns
<1>5. \A s \in Sessions \ open : view[s] = NoView
  BY DEF Consistent, ViewsTrue
<1>6. h.c \in Codes /\ sess[h.s].room = h.c /\ parts[h.c][h.s] # Nil
  <2>1. h.c \in Codes
    BY <1>2, LocatedFacts DEF Located, Pcs
  <2>2. sess[h.s].room = h.c
    BY <1>2 DEF HandlerTrue, Entering
  <2> QED
    BY <1>2, <2>1, <2>2 DEF Exact, SessionsMatchSeats, Present
<1>7. h.m = meta[h.c] /\ h.p = parts[h.c]
  BY <1>2 DEF HandlerTrue, Entering
<1> DEFINE m == [Event("joined", h.c, h.s, h.s) EXCEPT !.n = h.p[h.s].name, !.a = h.p[h.s].avatar]
           g == [Started(h.op, h.s, "Broadcast") EXCEPT !.c = h.c, !.out = m]
<1>8. Wait(k, g)
  BY <1>6, <1>7 DEF SnapState
<1>9. g.op = h.op /\ g.s = h.s /\ g.c = h.c /\ g.pc = "Broadcast" /\ g.out = m /\ g.then = Nil
  BY DEF Started
<1>10. Owed = m /\ OwedNext = Nil /\ m.x = h.s
  BY <1>2, <1>3, <1>7 DEF Owed, OwedNext, Snapping, Event
<1> HIDE DEF m, g
<1>11. /\ UNCHANGED <<meta, parts, sess, open>> /\ h.s \in open
       /\ wsRoom'[h.s] = h.c /\ \A s \in Sessions : s # h.s => wsRoom'[s] = wsRoom[s]
       /\ \A s \in Sessions : s # h.s => view'[s] = view[s]
       /\ view'[h.s] = applyRoomJoined(h.c, h.m.owner, h.p, h.m.takeover, h.m.avatar)
  BY <1>2, <1>3 DEF SnapState, keys, TypeOK, Deliver, Consistent, ServedTrue
<1>12. \A s \in Sessions : ActualView(s)' = ActualView(s)
  BY <1>11 DEF ActualView
<1>13. \A c \in Codes, s \in open : parts[c][s] # Nil =>
         /\ parts[c][s].avatar = sess[s].avatar
         /\ meta[c].owner = s => meta[c].avatar = sess[s].avatar
  BY <1>2, <1>3 DEF Consistent, AvatarsTrue, Changing
<1>14. ASSUME NEW s \in Sessions \cap open
       PROVE  ActualView(s)' = IF m = Nil \/ parts'[h.c][s] = Nil \/ s = m.x THEN view'[s]
                                                             ELSE Applied(s, view'[s], m)
  <2>1. CASE s = h.s
    <3>1. ActualView(s) = view'[s]
      BY <1>6, <1>7, <1>11, <2>1, CodesAssumption DEF ActualView
    <3> QED
      BY <1>10, <1>12, <2>1, <3>1
  <2>2. CASE s # h.s
    <3>1. Told(s, Told(s, view[s], Owed), OwedNext) = Expected(s)
      BY <1>3, <2>2 DEF Consistent, ViewsTrue
    <3>2. Expected(s) = ActualView(s)
      BY <1>2, <1>3 DEF Expected
    <3>3. Told(s, Told(s, view[s], Owed), OwedNext)
            = IF m = Nil \/ parts[h.c][s] = Nil \/ s = m.x THEN view[s] ELSE Applied(s, view[s], m)
      BY <1>3, <1>10 DEF Told
    <3> QED
      BY <1>11, <1>12, <2>2, <3>1, <3>2, <3>3
  <2> QED
    BY <2>1, <2>2
<1>15. \A s \in Sessions \ open : view'[s] = NoView
  BY <1>5, <1>11
<1> QED
  BY <1>2, <1>6, <1>8, <1>9, <1>11, <1>13, <1>14, <1>15, Announces


\* updateAvatarId, its third write: the room has the owner's new avatar id, as the members will be told.
LEMMA OwnerAvatarConsistent ==
  ASSUME TypeOK, SerialInv, Consistent, NEW k, CommitOwnerAvatar(k)
  PROVE  Consistent'
<1> DEFINE h == flight[k]
<1>1. At(k, {"avatar"}, "CommitOwnerAvatar")
  BY DEF CommitOwnerAvatar
<1>2. /\ k \in DOMAIN flight /\ KeysTypeOK /\ Exact /\ h \in Handler /\ h.s \in Sessions
      /\ h.op \in {"avatar"} /\ h.pc = "CommitOwnerAvatar" /\ HandlerOK(h) /\ HandlerTrue(h)
  BY <1>1, RunFacts
<1>3. flight[1] = h /\ Running
  BY <1>2, AloneRuns
<1>5. \A s \in Sessions \ open : view[s] = NoView
  BY DEF Consistent, ViewsTrue
<1>6. h.c \in Codes /\ sess[h.s].room = h.c /\ parts[h.c][h.s] # Nil
  BY <1>2, InRoomFacts DEF Located, Pcs, Leaving
<1>7. parts' = parts /\ sess' = sess /\ open' = open /\ wsRoom' = wsRoom /\ view' = view
  BY DEF CommitOwnerAvatar, WriteOwnerAvatar, sockets
<1>8. Wait(k, AvatarUpdated(h))
  BY DEF CommitOwnerAvatar
<1> DEFINE m == [Event("avatar", h.c, h.s, Nil) EXCEPT !.a = h.a]
           g == AvatarUpdated(h)
<1>9. g.op = h.op /\ g.s = h.s /\ g.c = h.c /\ g.pc = "Broadcast" /\ g.out = m /\ g.then = Nil
  BY DEF Started, AvatarUpdated
<1>10. Owed = m /\ OwedNext = Nil
  BY <1>2, <1>3 DEF Owed, OwedNext, Snapping
<1> HIDE DEF m, g
<1>11. /\ meta'[h.c].owner = meta[h.c].owner /\ meta'[h.c].takeover = meta[h.c].takeover
       /\ meta'[h.c].avatar = h.a /\ \A d \in Codes : d # h.c => meta'[d] = meta[d]
  BY <1>2, <1>6 DEF CommitOwnerAvatar, WriteOwnerAvatar, KeysTypeOK, Room
<1>12. meta[h.c].owner = h.s /\ h.a = sess[h.s].avatar
  BY <1>2 DEF HandlerTrue, Updating, Leaving
<1>18. h.s \in open \/ "stop" \notin Workload
         => sess[h.s].room = IF h.s \in open THEN wsRoom[h.s] ELSE Nil
  BY <1>2, <1>3 DEF Consistent, SocketsTrue, Unsettled, Snapping
<1>13. \A s \in Sessions, c \in Codes : sess[s].room = c <=> parts[c][s] # Nil
  BY <1>2 DEF Exact, SessionsMatchSeats, Present
<1>14. parts[h.c] \in [Sessions -> Participant \cup {Nil}] /\ Nil \notin Sessions
  BY <1>2, <1>6, SessionsAssumption DEF KeysTypeOK
<1>15. \A c \in Codes, s \in open : parts[c][s] # Nil =>
         /\ parts[c][s].avatar = sess[s].avatar
         /\ meta[c].owner = s /\ s # h.s => meta[c].avatar = sess[s].avatar
  BY <1>2, <1>3 DEF Consistent, AvatarsTrue, Changing
<1>16. ASSUME NEW c \in Codes, NEW s \in open, parts'[c][s] # Nil
       PROVE  /\ parts'[c][s].avatar = sess'[s].avatar
              /\ meta'[c].owner = s => meta'[c].avatar = sess'[s].avatar
  <2>1. s \in Sessions /\ parts[c][s] # Nil
    BY <1>7, <1>16 DEF TypeOK
  <2>2. CASE c = h.c
    BY <1>7, <1>11, <1>12, <1>15, <2>1, <2>2
  <2>3. CASE c # h.c
    <3>1. s # h.s
      BY <1>6, <1>13, <2>1, <2>3
    <3> QED
      BY <1>7, <1>11, <1>15, <2>1, <2>3, <3>1
  <2> QED
    BY <2>2, <2>3
<1>17. ASSUME NEW s \in Sessions \cap open
       PROVE  ActualView(s)' = IF m = Nil \/ parts'[h.c][s] = Nil \/ s = m.x THEN view'[s]
                                                             ELSE Applied(s, view'[s], m)
  <2>1. Told(s, Told(s, view[s], Owed), OwedNext) = Expected(s)
    BY <1>2, <1>3 DEF Consistent, ViewsTrue
  <2>2. Told(s, Told(s, view[s], Owed), OwedNext)
          = IF m = Nil \/ parts[h.c][s] = Nil \/ s = m.x THEN view[s] ELSE Applied(s, view[s], m)
    BY <1>3, <1>10 DEF Told
  <2>3. Expected(s) = ActualView(s)'
    <3>1. CASE sess[s].room = h.c
      <4>1. Expected(s) = [ActualView(s) EXCEPT !.avatar = h.a]
        BY <1>2, <1>3, <1>6, <1>12, <1>13, <3>1 DEF Expected
      <4>2. ActualView(s) = applyRoomJoined(h.c, meta[h.c].owner, parts[h.c], meta[h.c].takeover, meta[h.c].avatar)
        BY <1>6, <3>1, CodesAssumption DEF ActualView
      <4>3. ActualView(s)' = applyRoomJoined(h.c, meta[h.c].owner, parts[h.c], meta[h.c].takeover, h.a)
        BY <1>6, <1>7, <1>11, <3>1, CodesAssumption DEF ActualView
      <4> QED
        BY <4>1, <4>2, <4>3 DEF applyRoomJoined
    <3>2. CASE sess[s].room # h.c
      <4>1. Expected(s) = ActualView(s)
        BY <1>3, <1>6, <1>13, <3>2 DEF Expected
      <4> QED
        BY <1>2, <1>7, <1>11, <3>2, <4>1, Elsewhere
    <3> QED
      BY <3>1, <3>2
  <2> QED
    BY <1>7, <2>1, <2>2, <2>3
<1>19. Wait(k, g)
  BY <1>8 DEF g
<1> QED
  BY <1>2, <1>5, <1>7, <1>9, <1>16, <1>17, <1>18, <1>19, Announces

\* createRoom: its session is alone in the room it shows.
LEMMA CreateConsistent ==
  ASSUME TypeOK, SerialInv, Consistent, NEW k, CommitCreate(k)
  PROVE  Consistent'
<1> DEFINE h == flight[k]
<1>1. At(k, {"create"}, "CommitCreate")
  BY DEF CommitCreate
<1>2. /\ k \in DOMAIN flight /\ KeysTypeOK /\ Exact /\ h \in Handler /\ h.s \in Sessions
      /\ h.op \in {"create"} /\ h.pc = "CommitCreate" /\ HandlerOK(h) /\ HandlerTrue(h)
  BY <1>1, RunFacts
<1>3. flight[1] = h /\ Running
  BY <1>2, AloneRuns
<1>4. \A s \in open : s \in Sessions => view[s] = ActualView(s)
  BY <1>2, <1>3, NothingOwed DEF Consistent, Snapping, Leaving
<1>5. \A s \in Sessions \ open : view[s] = NoView
  BY DEF Consistent, ViewsTrue
<1>6. h.c \in Codes /\ h.n \in Names /\ h.b \in BOOLEAN
  BY <1>2, LocatedFacts DEF Located, Pcs, HandlerOK, Handler
<1>7. ~ meta[h.c].code /\ sess[h.s].room = Nil
  BY <1>2 DEF HandlerTrue, Entering
<1>8. AddRoom(h.s, h.n, h.c, h.b) /\ Return(k) /\ open' = open
  BY DEF CommitCreate
<1>9. flight' = <<>> /\ ~ Running'
  BY <1>2, <1>8, AloneReturns DEF SerialInv, Running
<1>10. /\ h.s \in open
       /\ wsRoom'[h.s] = h.c /\ \A s \in Sessions : s # h.s => wsRoom'[s] = wsRoom[s]
       /\ \A s \in Sessions : s # h.s => view'[s] = view[s]
       /\ view'[h.s] = applyRoomJoined(h.c, h.s, [NoParts EXCEPT ![h.s] = [name |-> h.n, avatar |-> Nil]], h.b, Nil)
  BY <1>2, <1>3 DEF CommitCreate, TypeOK, Deliver, Consistent, ServedTrue
<1>11. /\ sess'[h.s].room = h.c /\ sess'[h.s].avatar = Nil
       /\ \A s \in Sessions : s # h.s => sess'[s] = sess[s]
       /\ \A d \in Codes : d # h.c => parts'[d] = parts[d] /\ meta'[d] = meta[d]
       /\ parts'[h.c] = [parts[h.c] EXCEPT ![h.s] = [name |-> h.n, avatar |-> Nil]]
  <2>1. sess[h.s].avatar = Nil
    BY <1>2, <1>7 DEF Exact, NoSession
  <2> QED
    BY <1>2, <1>6, <1>8, <2>1 DEF AddRoom, Seat, KeysTypeOK, Session
<1>12. /\ meta'[h.c].owner = h.s /\ meta'[h.c].takeover = h.b /\ meta'[h.c].avatar = Nil
  BY <1>2, <1>6, <1>8 DEF AddRoom, KeysTypeOK
<1>13. \A s \in Sessions, c \in Codes : sess[s].room = c <=> parts[c][s] # Nil
  BY <1>2 DEF Exact, SessionsMatchSeats, Present
<1>14. \A s \in Sessions : parts[h.c][s] = Nil /\ sess[s].room # h.c
  BY <1>2, <1>6, <1>7, <1>13 DEF Exact, NothingLeftBehind, Present
<1>15. parts[h.c] = NoParts
  BY <1>2, <1>6, <1>14 DEF KeysTypeOK, NoParts
<1>16. /\ \A s \in Sessions : s # h.s => parts'[h.c][s] = Nil
       /\ parts'[h.c][h.s].avatar = Nil
  BY <1>2, <1>6, <1>11, <1>14, <1>15 DEF NoParts
<1>17. ServedTrue'
  BY <1>9 DEF ServedTrue
<1>18. SocketsTrue'
  <2>1. \A s \in Sessions : s # h.s => ~ Unsettled(s)
    BY <1>3 DEF Unsettled
  <2> QED
    BY <1>8, <1>10, <1>11, <2>1 DEF Consistent, SocketsTrue
<1>19. AvatarsTrue'
  <2>1. ASSUME NEW c \in Codes, NEW s \in open, parts'[c][s] # Nil
        PROVE  /\ parts'[c][s].avatar = sess'[s].avatar
               /\ meta'[c].owner = s => meta'[c].avatar = sess'[s].avatar
    <3>1. s \in Sessions
      BY DEF TypeOK
    <3>2. CASE c = h.c
      BY <1>11, <1>12, <1>16, <2>1, <3>1, <3>2
    <3>3. CASE c # h.c
      <4>1. parts[c][s] # Nil /\ parts'[c] = parts[c] /\ meta'[c] = meta[c]
        BY <1>11, <2>1, <3>3
      <4>2. s # h.s
        BY <1>7, <1>13, <3>1, <4>1, CodesAssumption
      <4> QED
        BY <1>2, <1>3, <1>11, <3>1, <4>1, <4>2 DEF Consistent, AvatarsTrue, Changing
    <3> QED
      BY <3>2, <3>3
  <2> QED
    BY <1>8, <2>1 DEF AvatarsTrue
<1>20. ViewsTrue'
  <2>1. ASSUME NEW s \in Sessions
        PROVE  IF s \in open' THEN view'[s] = ActualView(s)' ELSE view'[s] = NoView
    <3>1. CASE s = h.s
      <4>1. ActualView(s)' = applyRoomJoined(h.c, h.s, [NoParts EXCEPT ![h.s] = [name |-> h.n, avatar |-> Nil]], h.b, Nil)
        BY <1>6, <1>11, <1>12, <1>15, <3>1, CodesAssumption DEF ActualView
      <4> QED
        BY <1>8, <1>10, <3>1, <4>1
    <3>2. CASE s # h.s
      <4>1. ActualView(s)' = ActualView(s)
        BY <1>2, <1>11, <1>14, <3>2, Elsewhere
      <4> QED
        BY <1>4, <1>5, <1>8, <1>10, <3>2, <4>1
    <3> QED
      BY <3>1, <3>2
  <2> QED
    BY <1>9, <2>1, NothingOwedThen
<1> QED
  BY <1>17, <1>18, <1>19, <1>20 DEF Consistent


\* joinRoom, its write: the members are owed the event, the joiner its snapshot.
LEMMA JoinConsistent ==
  ASSUME TypeOK, SerialInv, Consistent, NEW k, CommitJoin(k)
  PROVE  Consistent'
<1> DEFINE h == flight[k]
<1>1. At(k, {"join"}, "CommitJoin")
  BY DEF CommitJoin
<1>2. /\ k \in DOMAIN flight /\ KeysTypeOK /\ Exact /\ h \in Handler /\ h.s \in Sessions
      /\ h.op \in {"join"} /\ h.pc = "CommitJoin" /\ HandlerOK(h) /\ HandlerTrue(h)
  BY <1>1, RunFacts
<1>3. flight[1] = h /\ Running
  BY <1>2, AloneRuns
<1>4. \A s \in open : s \in Sessions => view[s] = ActualView(s)
  BY <1>2, <1>3, NothingOwed DEF Consistent, Snapping, Leaving
<1>5. \A s \in Sessions \ open : view[s] = NoView
  BY DEF Consistent, ViewsTrue
<1>6. h.c \in Codes /\ h.n \in Names
  BY <1>2, LocatedFacts DEF Located, Pcs, HandlerOK, Handler
<1>7. meta[h.c].code /\ sess[h.s].room = Nil
  BY <1>2 DEF HandlerTrue, Entering
<1> DEFINE g == [h EXCEPT !.pc = "SnapRoom", !.m = NoRoom]
<1>8. /\ AddParticipant(h.s, h.n, h.c, h.m.count) /\ Wait(k, g)
      /\ open' = open /\ wsRoom' = wsRoom /\ view' = view
  BY DEF CommitJoin, sockets
<1>9. g.op = "join" /\ g.s = h.s /\ g.c = h.c /\ g.pc = "SnapRoom"
  BY <1>2 DEF Handler
<1> HIDE DEF g
<1>10. flight'[1] = g /\ Running'
  BY <1>2, <1>8, AloneMoves
<1>11. /\ sess'[h.s].room = h.c /\ sess'[h.s].avatar = Nil
       /\ \A s \in Sessions : s # h.s => sess'[s] = sess[s]
       /\ \A d \in Codes : d # h.c => parts'[d] = parts[d] /\ meta'[d] = meta[d]
       /\ parts'[h.c] = [parts[h.c] EXCEPT ![h.s] = [name |-> h.n, avatar |-> Nil]]
  <2>1. sess[h.s].avatar = Nil
    BY <1>2, <1>7 DEF Exact, NoSession
  <2> QED
    BY <1>2, <1>6, <1>8, <2>1 DEF AddParticipant, Seat, KeysTypeOK, Session
<1>12. /\ meta'[h.c].owner = meta[h.c].owner /\ meta'[h.c].takeover = meta[h.c].takeover
       /\ meta'[h.c].avatar = meta[h.c].avatar
  BY <1>2, <1>6, <1>8 DEF AddParticipant, KeysTypeOK, Room
<1>13. \A s \in Sessions, c \in Codes : sess[s].room = c <=> parts[c][s] # Nil
  BY <1>2 DEF Exact, SessionsMatchSeats, Present
<1>14. parts[h.c] \in [Sessions -> Participant \cup {Nil}] /\ h.s \in open
  BY <1>2, <1>3, <1>6 DEF KeysTypeOK, Consistent, ServedTrue
<1>15. parts[h.c][h.s] = Nil /\ meta[h.c].owner # h.s
  <2>1. parts[h.c][h.s] = Nil
    BY <1>2, <1>6, <1>7, <1>13, CodesAssumption
  <2>2. meta[h.c].owner \in Present(h.c)
    BY <1>2, <1>6, <1>7 DEF Exact, RoomsAccountedFor
  <2> QED
    BY <2>1, <2>2 DEF Present
<1>16. /\ \A s \in Sessions : s # h.s => parts'[h.c][s] = parts[h.c][s]
       /\ parts'[h.c][h.s].avatar = Nil /\ parts'[h.c][h.s].name = h.n
  BY <1>2, <1>11, <1>14
<1>17. ServedTrue'
  BY <1>8, <1>9, <1>10, <1>14 DEF ServedTrue
<1>18. SocketsTrue'
  <2>1. \A s \in Sessions : s # h.s => ~ Unsettled(s)
    BY <1>3 DEF Unsettled
  <2>2. \A s \in Sessions : s = h.s => Unsettled(s)'
    BY <1>9, <1>10 DEF Unsettled, Snapping
  <2> QED
    BY <1>8, <1>11, <2>1, <2>2 DEF Consistent, SocketsTrue
<1>19. AvatarsTrue'
  <2>1. ASSUME NEW c \in Codes, NEW s \in open, parts'[c][s] # Nil
        PROVE  /\ parts'[c][s].avatar = sess'[s].avatar
               /\ meta'[c].owner = s => meta'[c].avatar = sess'[s].avatar
    <3>1. s \in Sessions
      BY DEF TypeOK
    <3>2. CASE c = h.c /\ s = h.s
      BY <1>11, <1>12, <1>15, <1>16, <3>2
    <3>3. CASE ~ (c = h.c /\ s = h.s)
      <4>1. /\ parts[c][s] # Nil /\ parts'[c][s] = parts[c][s] /\ meta'[c].owner = meta[c].owner
            /\ meta'[c].avatar = meta[c].avatar
        BY <1>11, <1>12, <1>16, <2>1, <3>1, <3>3
      <4>2. s # h.s
        BY <1>7, <1>13, <3>1, <4>1, CodesAssumption
      <4> QED
        BY <1>2, <1>3, <1>11, <3>1, <4>1, <4>2 DEF Consistent, AvatarsTrue, Changing
    <3> QED
      BY <3>2, <3>3
  <2> QED
    BY <1>8, <2>1 DEF AvatarsTrue
<1>20. ViewsTrue'
  <2> DEFINE m == [Event("joined", h.c, h.s, h.s) EXCEPT !.n = parts'[h.c][h.s].name,
                                                        !.a = parts'[h.c][h.s].avatar]
  <2>1. Owed' = m /\ OwedNext' = Nil
    BY <1>9, <1>10 DEF Owed, OwedNext, Snapping
  <2>2. /\ m \in Message /\ m.type = "joined" /\ m.c = h.c /\ m.s = h.s /\ m.n = h.n /\ m.a = Nil
        /\ m.x = h.s
    <3> DEFINE e == Event("joined", h.c, h.s, h.s)
    <3>1. /\ e \in Message /\ e.type = "joined" /\ e.c = h.c /\ e.s = h.s /\ e.x = h.s
      BY <1>2, <1>6, EventTyped DEF Event
    <3>2. m = [e EXCEPT !.n = h.n, !.a = Nil]
      BY <1>16
    <3> HIDE DEF e, m
    <3> QED
      BY <1>6, <3>1, <3>2 DEF Message
  <2> HIDE DEF m
  <2>3. ASSUME NEW s \in Sessions, s \in open, s # h.s
        PROVE  Told(s, Told(s, view[s], Owed), OwedNext)' = Expected(s)'
    <3>1. Told(s, Told(s, view[s], Owed), OwedNext)'
            = IF parts'[h.c][s] = Nil THEN view[s] ELSE Applied(s, view[s], m)
      BY <1>8, <1>9, <1>10, <2>1, <2>2, <2>3, MessageReal DEF Told
    <3>2. Expected(s)' = ActualView(s)'
      BY <1>9, <1>10 DEF Expected
    <3>3. CASE sess[s].room = h.c
      <4>1. ActualView(s)' = applyRoomJoined(h.c, meta[h.c].owner, parts'[h.c], meta[h.c].takeover, meta[h.c].avatar)
        BY <1>6, <1>11, <1>12, <2>3, <3>3, CodesAssumption DEF ActualView
      <4>2. view[s] = applyRoomJoined(h.c, meta[h.c].owner, parts[h.c], meta[h.c].takeover, meta[h.c].avatar)
        BY <1>4, <1>6, <2>3, <3>3, CodesAssumption DEF ActualView
      <4>3. Applied(s, view[s], m) = ActualView(s)'
        BY <1>11, <1>14, <2>2, <4>1, <4>2, TellJoined
      <4>4. parts'[h.c][s] # Nil
        BY <1>6, <1>13, <1>16, <2>3, <3>3
      <4> QED
        BY <3>1, <3>2, <4>3, <4>4
    <3>4. CASE sess[s].room # h.c
      <4>3. sess'[s].room = sess[s].room
        BY <1>11, <2>3
      <4>1. ActualView(s)' = ActualView(s)
        BY <1>2, <1>11, <3>4, <4>3, Elsewhere
      <4>2. parts'[h.c][s] = Nil
        BY <1>6, <1>13, <1>16, <2>3, <3>4
      <4> QED
        BY <1>4, <2>3, <3>1, <3>2, <4>1, <4>2
    <3> QED
      BY <3>3, <3>4
  <2> QED
    BY <1>5, <1>8, <1>9, <1>10, <2>3 DEF ViewsTrue, Snapping
<1> QED
  BY <1>17, <1>18, <1>19, <1>20 DEF Consistent


\* updateAvatarId, its first write: only the session knows the new avatar id.
LEMMA SessionAvatarConsistent ==
  ASSUME TypeOK, SerialInv, Consistent, NEW k, CommitSessionAvatar(k)
  PROVE  Consistent'
<1> DEFINE h == flight[k]
<1>1. At(k, {"avatar"}, "CommitSessionAvatar")
  BY DEF CommitSessionAvatar
<1>2. /\ k \in DOMAIN flight /\ KeysTypeOK /\ Exact /\ h \in Handler /\ h.s \in Sessions
      /\ h.op \in {"avatar"} /\ h.pc = "CommitSessionAvatar" /\ HandlerOK(h) /\ HandlerTrue(h)
  BY <1>1, RunFacts
<1>3. flight[1] = h /\ Running
  BY <1>2, AloneRuns
<1>4. \A s \in open : s \in Sessions => view[s] = ActualView(s)
  BY <1>2, <1>3, NothingOwed DEF Consistent, Snapping, Leaving
<1>5. \A s \in Sessions \ open : view[s] = NoView
  BY DEF Consistent, ViewsTrue
<1>6. h.c \in Codes /\ sess[h.s].room = h.c /\ parts[h.c][h.s] # Nil
  BY <1>2, InRoomFacts DEF Located, Pcs, Leaving
<1> DEFINE g == [h EXCEPT !.pc = "ReadParticipant"]
<1>8. /\ WriteSessionAvatar(h.s, h.a) /\ Wait(k, g)
      /\ open' = open /\ wsRoom' = wsRoom /\ view' = view
  BY DEF CommitSessionAvatar, sockets
<1>9. g.op = "avatar" /\ g.s = h.s /\ g.c = h.c /\ g.a = h.a /\ g.pc = "ReadParticipant"
  BY <1>2 DEF Handler
<1> HIDE DEF g
<1>10. flight'[1] = g /\ Running'
  BY <1>2, <1>8, AloneMoves
<1>11. /\ parts' = parts /\ meta' = meta
       /\ \A s \in Sessions : sess'[s].room = sess[s].room /\ (s # h.s => sess'[s] = sess[s])
  BY <1>2, <1>8 DEF WriteSessionAvatar, KeysTypeOK, Session
<1>12. \A s \in Sessions : ~ Unsettled(s)
  BY <1>2, <1>3 DEF Unsettled
<1>17. ServedTrue'
  BY <1>2, <1>3, <1>8, <1>9, <1>10 DEF Consistent, ServedTrue
<1>18. SocketsTrue'
  BY <1>8, <1>11, <1>12 DEF Consistent, SocketsTrue
<1>19. AvatarsTrue'
  <2>1. ASSUME NEW c \in Codes, NEW s \in open, parts[c][s] # Nil, s # h.s
        PROVE  /\ parts[c][s].avatar = sess'[s].avatar
               /\ meta[c].owner = s => meta[c].avatar = sess'[s].avatar
    <3>1. s \in Sessions
      BY DEF TypeOK
    <3> QED
      BY <1>3, <1>11, <2>1, <3>1 DEF Consistent, AvatarsTrue, Changing
  <2> QED
    BY <1>8, <1>9, <1>10, <1>11, <2>1 DEF AvatarsTrue, Changing
<1>20. ViewsTrue'
  <2>1. \A s \in Sessions : ActualView(s)' = ActualView(s)
    BY <1>11 DEF ActualView
  <2>2. \A s \in Sessions : IF s \in open' THEN view'[s] = ActualView(s)' ELSE view'[s] = NoView
    BY <1>4, <1>5, <1>8, <2>1
  <2> QED
    BY <1>9, <1>10, <2>2, NothingOwedThen DEF Snapping
<1> QED
  BY <1>17, <1>18, <1>19, <1>20 DEF Consistent


\* updateAvatarId, its second write: the members are owed the event, and so is the room if the owner changes it.
LEMMA ParticipantAvatarConsistent ==
  ASSUME TypeOK, SerialInv, Consistent, NEW k, CommitParticipantAvatar(k)
  PROVE  Consistent'
<1> DEFINE h == flight[k]
<1>1. At(k, {"avatar"}, "CommitParticipantAvatar")
  BY DEF CommitParticipantAvatar
<1>2. /\ k \in DOMAIN flight /\ KeysTypeOK /\ Exact /\ h \in Handler /\ h.s \in Sessions
      /\ h.op \in {"avatar"} /\ h.pc = "CommitParticipantAvatar" /\ HandlerOK(h) /\ HandlerTrue(h)
  BY <1>1, RunFacts
<1>3. flight[1] = h /\ Running
  BY <1>2, AloneRuns
<1>4. \A s \in open : s \in Sessions => view[s] = ActualView(s)
  BY <1>2, <1>3, NothingOwed DEF Consistent, Snapping, Leaving
<1>5. \A s \in Sessions \ open : view[s] = NoView
  BY DEF Consistent, ViewsTrue
<1>6. h.c \in Codes /\ sess[h.s].room = h.c /\ parts[h.c][h.s] # Nil
  BY <1>2, InRoomFacts DEF Located, Pcs, Leaving
<1> DEFINE g == [h EXCEPT !.pc = "ReadRoom", !.old = Nil]
<1>8. /\ WriteParticipant(h.s, h.c, h.old, h.a) /\ Wait(k, g)
      /\ open' = open /\ wsRoom' = wsRoom /\ view' = view
  BY DEF CommitParticipantAvatar, sockets
<1>9. g.op = "avatar" /\ g.s = h.s /\ g.c = h.c /\ g.a = h.a /\ g.pc = "ReadRoom"
  BY <1>2 DEF Handler
<1> HIDE DEF g
<1>10. flight'[1] = g /\ Running'
  BY <1>2, <1>8, AloneMoves
<1>11. sess' = sess /\ meta' = meta /\ h.old = parts[h.c][h.s].name /\ h.a = sess[h.s].avatar
  BY <1>2, <1>8 DEF WriteParticipant, HandlerTrue, Updating, Leaving
<1>13. \A s \in Sessions, c \in Codes : sess[s].room = c <=> parts[c][s] # Nil
  BY <1>2 DEF Exact, SessionsMatchSeats, Present
<1>14. parts[h.c] \in [Sessions -> Participant \cup {Nil}] /\ Nil \notin Sessions
  BY <1>2, <1>6, SessionsAssumption DEF KeysTypeOK
<1>15. /\ parts'[h.c] = [parts[h.c] EXCEPT ![h.s] = [name |-> parts[h.c][h.s].name, avatar |-> h.a]]
       /\ \A d \in Codes : d # h.c => parts'[d] = parts[d]
  BY <1>2, <1>6, <1>8, <1>11 DEF WriteParticipant, KeysTypeOK
<1>16. /\ \A s \in Sessions : s # h.s => parts'[h.c][s] = parts[h.c][s]
       /\ parts'[h.c][h.s].avatar = h.a /\ parts'[h.c][h.s] # Nil
  BY <1>2, <1>6, <1>14, <1>15, ParticipantReal DEF Participant, Handler
<1>17. ServedTrue'
  BY <1>2, <1>3, <1>8, <1>9, <1>10 DEF Consistent, ServedTrue
<1>18. SocketsTrue'
  <2>1. \A s \in Sessions : ~ Unsettled(s)
    BY <1>2, <1>3 DEF Unsettled
  <2> QED
    BY <1>8, <1>11, <2>1 DEF Consistent, SocketsTrue
<1>19. AvatarsTrue'
  <2>1. ASSUME NEW c \in Codes, NEW s \in open, parts'[c][s] # Nil
        PROVE  /\ parts'[c][s].avatar = sess[s].avatar
               /\ s # h.s /\ meta[c].owner = s => meta[c].avatar = sess[s].avatar
    <3>1. s \in Sessions /\ parts[c][s] # Nil
      BY <1>6, <1>15, <1>16, <2>1 DEF TypeOK
    <3>2. CASE s = h.s
      <4>1. c = h.c
        BY <1>6, <1>13, <3>1, <3>2
      <4> QED
        BY <1>11, <1>16, <3>2, <4>1
    <3>3. CASE s # h.s
      <4>1. parts'[c][s] = parts[c][s]
        BY <1>15, <1>16, <3>1, <3>3
      <4> QED
        BY <1>3, <3>1, <3>3, <4>1 DEF Consistent, AvatarsTrue, Changing
    <3> QED
      BY <3>2, <3>3
  <2> QED
    BY <1>8, <1>9, <1>10, <1>11, <2>1 DEF AvatarsTrue, Changing
<1>20. ViewsTrue'
  <2> DEFINE m == [Event("avatar", h.c, h.s, Nil) EXCEPT !.a = h.a]
  <2>1. Owed' = m /\ OwedNext' = Nil
    BY <1>9, <1>10 DEF Owed, OwedNext, Snapping
  <2>2. m \in Message /\ m.type = "avatar" /\ m.c = h.c /\ m.s = h.s /\ m.a = h.a /\ m.x = Nil
    BY <1>2, <1>6, EventTyped DEF Event, Message, Handler
  <2> HIDE DEF m
  <2>3. ASSUME NEW s \in Sessions, s \in open
        PROVE  Told(s, Told(s, view[s], Owed), OwedNext)' = Expected(s)'
    <3>1. Told(s, Told(s, view[s], Owed), OwedNext)'
            = IF parts'[h.c][s] = Nil THEN view[s] ELSE Applied(s, view[s], m)
      BY <1>8, <1>9, <1>10, <1>14, <2>1, <2>2, <2>3, MessageReal DEF Told
    <3>3. CASE sess[s].room = h.c
      <4> DEFINE a == IF h.s = meta[h.c].owner THEN h.a ELSE meta[h.c].avatar
      <4>1. ActualView(s)' = applyRoomJoined(h.c, meta[h.c].owner, parts'[h.c], meta[h.c].takeover, meta[h.c].avatar)
        BY <1>6, <1>11, <3>3, CodesAssumption DEF ActualView
      <4>2. view[s] = applyRoomJoined(h.c, meta[h.c].owner, parts[h.c], meta[h.c].takeover, meta[h.c].avatar)
        BY <1>4, <1>6, <2>3, <3>3, CodesAssumption DEF ActualView
      <4>3. Applied(s, view[s], m) = applyRoomJoined(h.c, meta[h.c].owner, parts'[h.c], meta[h.c].takeover, a)
        <5>1. parts[h.c][m.s] # Nil /\ a = IF m.s = meta[h.c].owner THEN m.a ELSE meta[h.c].avatar
          BY <1>6, <2>2
        <5> HIDE DEF a
        <5>2. /\ parts'[h.c] \in [Sessions -> Participant \cup {Nil}]
              /\ parts'[h.c][m.s] = [name |-> parts[h.c][m.s].name, avatar |-> m.a]
              /\ \A r \in Sessions : r # m.s => parts'[h.c][r] = parts[h.c][r]
          BY <1>2, <1>6, <1>14, <1>15, <2>2 DEF Participant, Handler
        <5> DEFINE c == h.c
                   f == parts[h.c]
                   f2 == parts'[h.c]
                   o == meta[h.c].owner
                   t == meta[h.c].takeover
                   b == meta[h.c].avatar
        <5>3. /\ c \in Codes /\ f \in [Sessions -> Participant \cup {Nil}] /\ f[m.s] # Nil
              /\ a = IF m.s = o THEN m.a ELSE b
              /\ f2 \in [Sessions -> Participant \cup {Nil}]
              /\ f2[m.s] = [name |-> f[m.s].name, avatar |-> m.a]
              /\ \A r \in Sessions : r # m.s => f2[r] = f[r]
              /\ view[s] = applyRoomJoined(c, o, f, t, b)
          BY <1>6, <1>14, <4>2, <5>1, <5>2
        <5> HIDE DEF c, f, f2, o, t, b
        <5>4. Applied(s, applyRoomJoined(c, o, f, t, b), m) = applyRoomJoined(c, o, f2, t, a)
          BY ONLY <2>2, <5>3, TellAvatar
        <5> QED
          BY <5>3, <5>4 DEF c, f, f2, o, t, b
      <4>4. parts'[h.c][s] # Nil
        BY <1>6, <1>13, <1>16, <2>3, <3>3
      <4>5. Expected(s)' = IF meta[h.c].owner = h.s THEN [ActualView(s)' EXCEPT !.avatar = h.a] ELSE ActualView(s)'
        BY <1>9, <1>10, <1>11, <4>4 DEF Expected
      <4>6. Expected(s)' = applyRoomJoined(h.c, meta[h.c].owner, parts'[h.c], meta[h.c].takeover, a)
        BY <4>1, <4>5 DEF applyRoomJoined
      <4> QED
        BY <3>1, <4>3, <4>4, <4>6
    <3>4. CASE sess[s].room # h.c
      <4>1. ActualView(s)' = ActualView(s)
        BY <1>2, <1>11, <1>15, <2>3, <3>4, Elsewhere
      <4>2. parts'[h.c][s] = Nil
        BY <1>6, <1>13, <1>16, <2>3, <3>4
      <4>3. Expected(s)' = ActualView(s)'
        BY <1>9, <1>10, <4>2 DEF Expected
      <4> QED
        BY <1>4, <2>3, <3>1, <4>1, <4>2, <4>3
    <3> QED
      BY <3>3, <3>4
  <2> QED
    BY <1>5, <1>8, <1>9, <1>10, <2>3 DEF ViewsTrue
<1> QED
  BY <1>17, <1>18, <1>19, <1>20 DEF Consistent

\* A request of any kind disturbs nothing yet.
LEMMA RequestsConsistent ==
  ASSUME TypeOK, Consistent, MaxInFlight = 1, NEW s \in Sessions,
         \/ RequestCreate(s) \/ RequestJoin(s) \/ RequestRename(s)
         \/ RequestSettings(s) \/ RequestAvatar(s) \/ RequestPlain(s)
  PROVE  Consistent'
<1>1. CASE RequestCreate(s)
  <2>1. PICK b \in BOOLEAN : Request(s, "create", [Started("create", s, "EnsureNotInRoom") EXCEPT !.n = wsName[s], !.b = b])
    BY <1>1, TakeoverAssumption DEF RequestCreate
  <2> DEFINE g == [Started("create", s, "EnsureNotInRoom") EXCEPT !.n = wsName[s], !.b = b]
  <2>2. g.op = "create" /\ g.s = s /\ g.pc = "EnsureNotInRoom"
    BY DEF Started
  <2>3. s \in open /\ Start(g) /\ UNCHANGED <<keys, sockets, view>>
    BY <2>1 DEF Request
  <2> HIDE DEF g
  <2> QED
    BY <2>2, <2>3, StartsConsistent
<1>2. CASE RequestJoin(s)
  <2>1. PICK c \in Codes : Request(s, "join", [Started("join", s, "EnsureNotInRoom") EXCEPT !.n = wsName[s], !.c = c])
    BY <1>2 DEF RequestJoin
  <2> DEFINE g == [Started("join", s, "EnsureNotInRoom") EXCEPT !.n = wsName[s], !.c = c]
  <2>2. g.op = "join" /\ g.s = s /\ g.pc = "EnsureNotInRoom"
    BY DEF Started
  <2>3. s \in open /\ Start(g) /\ UNCHANGED <<keys, sockets, view>>
    BY <2>1 DEF Request
  <2> HIDE DEF g
  <2> QED
    BY <2>2, <2>3, StartsConsistent
<1>3. CASE RequestRename(s)
  <2>1. PICK n \in Names : Request(s, "rename", [Started("rename", s, "RequireSession") EXCEPT !.n = n])
    BY <1>3 DEF RequestRename
  <2> DEFINE g == [Started("rename", s, "RequireSession") EXCEPT !.n = n]
  <2>2. g.op = "rename" /\ g.s = s /\ g.pc = "RequireSession"
    BY DEF Started
  <2>3. s \in open /\ Start(g) /\ UNCHANGED <<keys, sockets, view>>
    BY <2>1 DEF Request
  <2> HIDE DEF g
  <2> QED
    BY <2>2, <2>3, StartsConsistent
<1>4. CASE RequestSettings(s)
  <2>1. PICK b \in BOOLEAN : Request(s, "settings", [Started("settings", s, "RequireSession") EXCEPT !.b = b])
    BY <1>4 DEF RequestSettings
  <2> DEFINE g == [Started("settings", s, "RequireSession") EXCEPT !.b = b]
  <2>2. g.op = "settings" /\ g.s = s /\ g.pc = "RequireSession"
    BY DEF Started
  <2>3. s \in open /\ Start(g) /\ UNCHANGED <<keys, sockets, view>>
    BY <2>1 DEF Request
  <2> HIDE DEF g
  <2> QED
    BY <2>2, <2>3, StartsConsistent
<1>5. CASE RequestAvatar(s)
  <2>1. PICK a \in Avatars : Request(s, "avatar", [Started("avatar", s, "RequireSession") EXCEPT !.a = a])
    BY <1>5 DEF RequestAvatar
  <2> DEFINE g == [Started("avatar", s, "RequireSession") EXCEPT !.a = a]
  <2>2. g.op = "avatar" /\ g.s = s /\ g.pc = "RequireSession"
    BY DEF Started
  <2>3. s \in open /\ Start(g) /\ UNCHANGED <<keys, sockets, view>>
    BY <2>1 DEF Request
  <2> HIDE DEF g
  <2> QED
    BY <2>2, <2>3, StartsConsistent
<1>6. CASE RequestPlain(s)
  <2>1. PICK op \in {"leave", "take", "params"} : Request(s, op, Started(op, s, "RequireSession"))
    BY <1>6 DEF RequestPlain
  <2> DEFINE g == Started(op, s, "RequireSession")
  <2>2. g.op = op /\ g.s = s /\ g.pc = "RequireSession"
    BY DEF Started
  <2>3. s \in open /\ Start(g) /\ UNCHANGED <<keys, sockets, view>>
    BY <2>1 DEF Request
  <2> HIDE DEF g
  <2> QED
    BY <2>2, <2>3, StartsConsistent
<1> QED
  BY <1>1, <1>2, <1>3, <1>4, <1>5, <1>6

\* A stopped server has no sockets.
LEMMA StopConsistent == ASSUME TypeOK, Consistent, Stop PROVE Consistent'
<1>1. /\ UNCHANGED keys /\ open' = {} /\ flight' = <<>> /\ "stop" \in Workload
      /\ \A s \in Sessions : view'[s] = NoView
  BY DEF Stop
<1>2. ~ Running'
  BY <1>1 DEF Running
<1> QED
  BY <1>1, <1>2, NothingOwedThen DEF Consistent, ServedTrue, SocketsTrue, AvatarsTrue

\* Sockets, avatar ids and views are consistent after every step.
LEMMA StepConsistent ==
  ASSUME TypeOK, SerialInv, Consistent, MaxInFlight = 1, [Next]_vars
  PROVE  Consistent'
<1>1. ASSUME NEW s \in Sessions,
             \/ \E n \in Names : handleHello(s, n)
             \/ RequestCreate(s) \/ RequestJoin(s) \/ RequestRename(s)
             \/ RequestSettings(s) \/ RequestAvatar(s) \/ RequestPlain(s)
             \/ Close(s)
      PROVE  Consistent'
  BY <1>1, HelloConsistent, RequestsConsistent, CloseConsistent
<1>2. CASE Stop
  BY <1>2, StopConsistent
<1>3. ASSUME NEW k \in 1..MaxInFlight, Resume(k) PROVE Consistent'
  <2>1. CASE Refuse(k)
    BY <2>1, RefuseConsistent
  <2>2. CASE Broadcast(k)
    BY <2>2, BroadcastConsistent
  <2>3. CASE \/ CommitCreate(k) \/ CommitJoin(k) \/ SnapState(k) \/ CommitLeave(k)
             \/ CommitRename(k) \/ CommitOwner(k) \/ CommitSettings(k) \/ CommitState(k)
    BY <2>3, CreateConsistent, JoinConsistent, SnapConsistent, LeaveConsistent, RenameConsistent,
       TakeConsistent, SettingsConsistent, StateConsistent
  <2>4. CASE CommitSessionAvatar(k) \/ CommitParticipantAvatar(k) \/ CommitOwnerAvatar(k)
    BY <2>4, SessionAvatarConsistent, ParticipantAvatarConsistent, OwnerAvatarConsistent
  <2>5. CASE \/ EnsureNotInRoom(k) \/ PickCode(k)
             \/ JoinReadRoom(k) \/ JoinReadHolder(k)
             \/ SnapRoom(k) \/ SnapOrder(k) \/ SnapParticipants(k)
             \/ RequireSession(k)
             \/ LeaveReadParticipant(k) \/ LeaveReadRoom(k) \/ LeaveReadOrder(k)
             \/ LeaveReadKeys(k) \/ LeaveReadNewOwner(k)
             \/ RenameReadHolder(k) \/ RenameReadParticipant(k)
             \/ TakeReadRoom(k) \/ TakeReadAvatar(k)
             \/ SettingsReadRoom(k) \/ ParamsReadRoom(k)
             \/ AvatarReadParticipant(k) \/ AvatarReadRoom(k)
    <3>1. ReadMove
      BY <2>5, ReadsExact
    <3>2. UNCHANGED <<keys, sockets, view>>
      BY <2>5 DEF EnsureNotInRoom, PickCode, JoinReadRoom, JoinReadHolder, SnapRoom, SnapOrder,
         SnapParticipants, RequireSession, LeaveReadParticipant, LeaveReadRoom, LeaveReadOrder,
         LeaveReadKeys, LeaveReadNewOwner, RenameReadHolder, RenameReadParticipant, TakeReadRoom,
         TakeReadAvatar, SettingsReadRoom, ParamsReadRoom, AvatarReadParticipant, AvatarReadRoom
    <3> QED
      BY <3>1, <3>2, ReadsConsistent
  <2> QED
    BY <1>3, <2>1, <2>2, <2>3, <2>4, <2>5 DEF Resume
<1>4. CASE UNCHANGED vars
  <2>1. UNCHANGED <<meta, parts, order, sess, open, wsRoom, flight, view>>
    BY <1>4 DEF vars, keys, sockets
  <2>2. Running' = Running /\ Owed' = Owed /\ OwedNext' = OwedNext
    BY <2>1 DEF Running, Owed, OwedNext
  <2>3. ServedTrue'
    BY <2>1, <2>2 DEF Consistent, ServedTrue
  <2>4. SocketsTrue'
    BY <2>1, <2>2 DEF Consistent, SocketsTrue, Unsettled
  <2>5. AvatarsTrue'
    BY <2>1, <2>2 DEF Consistent, AvatarsTrue, Changing
  <2>6. ViewsTrue'
    <3>1. ASSUME NEW s \in Sessions
          PROVE  /\ Expected(s)' = Expected(s)
                 /\ Told(s, Told(s, view[s], Owed), OwedNext)' = Told(s, Told(s, view[s], Owed), OwedNext)
      BY <2>1, <2>2 DEF Expected, ActualView, Told
    <3> QED
      BY <2>1, <2>2, <3>1 DEF Consistent, ViewsTrue
  <2> QED
    BY <2>3, <2>4, <2>5, <2>6 DEF Consistent
<1> QED
  BY <1>1, <1>2, <1>3, <1>4 DEF Next

\* At first no socket is open and no handler runs.
LEMMA InitConsistent == Init => Consistent
<1> SUFFICES ASSUME Init PROVE Consistent
  OBVIOUS
<1>1. /\ open = {} /\ ~ Running /\ \A s \in Sessions : sess[s].room = Nil /\ view[s] = NoView
  BY DEF Init, NoKeys, NoSession, Running
<1> QED
  BY <1>1 DEF Consistent, ServedTrue, SocketsTrue, AvatarsTrue, ViewsTrue

\* Both invariants hold as long as handlers do not overlap.
LEMMA AlwaysConsistent == MaxInFlight = 1 => (Spec => [](TypeOK /\ SerialInv /\ Consistent))
<1> SUFFICES ASSUME MaxInFlight = 1 PROVE Spec => [](TypeOK /\ SerialInv /\ Consistent)
  OBVIOUS
<1>1. Init => TypeOK /\ SerialInv /\ Consistent
  BY InitTyped, InitExact, InitConsistent
<1>2. TypeOK /\ SerialInv /\ Consistent /\ [Next]_vars => (TypeOK /\ SerialInv /\ Consistent)'
  BY StepTyped, StepExact, StepConsistent
<1> QED
  BY <1>1, <1>2, PTL DEF Spec

\* While handlers do not overlap and the server does not stop, the participants
\* are, when no handler runs, the sessions whose open socket is in the room.
THEOREM SeatsKeepSockets ==
  MaxInFlight = 1 /\ "stop" \notin Workload => (Spec => []SeatsHaveSockets)
<1> SUFFICES ASSUME MaxInFlight = 1, "stop" \notin Workload PROVE Spec => []SeatsHaveSockets
  OBVIOUS
<1>1. TypeOK /\ SerialInv /\ Consistent => SeatsHaveSockets
  <2> SUFFICES ASSUME SerialInv, Consistent, Quiet, NEW s \in Sessions, NEW c \in Codes
               PROVE  s \in Present(c) <=> s \in open /\ wsRoom[s] = c
    BY DEF SeatsHaveSockets
  <2>1. sess[s].room = IF s \in open THEN wsRoom[s] ELSE Nil
    BY DEF Consistent, SocketsTrue, Unsettled, Quiet, Running
  <2>2. sess[s].room = c <=> s \in Present(c)
    BY DEF SerialInv, Exact, SessionsMatchSeats
  <2> QED
    BY <2>1, <2>2, CodesAssumption
<1> QED
  BY <1>1, AlwaysConsistent, PTL

\* While handlers do not overlap, the three copies of a connected member's
\* avatar id agree when no handler runs.
THEOREM AvatarsStayAgreed == MaxInFlight = 1 => (Spec => []AvatarsAgree)
<1> SUFFICES ASSUME MaxInFlight = 1 PROVE Spec => []AvatarsAgree
  OBVIOUS
<1>1. Consistent => AvatarsAgree
  BY DEF Consistent, AvatarsTrue, Changing, Running, Quiet, AvatarsAgree, Present
<1> QED
  BY <1>1, AlwaysConsistent, PTL

\* While handlers do not overlap, every client shows its room as it is when no
\* handler runs: its snapshot and the events since add up, through departures,
\* promotions, renames, takeovers, settings and avatar ids.
THEOREM ViewsStayTrue == MaxInFlight = 1 => (Spec => []ViewsConverge)
<1> SUFFICES ASSUME MaxInFlight = 1 PROVE Spec => []ViewsConverge
  OBVIOUS
<1>1. TypeOK /\ Consistent => ViewsConverge
  <2> SUFFICES ASSUME TypeOK, Consistent, Quiet, NEW s \in open PROVE view[s] = ActualView(s)
    BY DEF ViewsConverge
  <2>1. s \in Sessions /\ ~ Running
    BY DEF TypeOK, Quiet, Running
  <2> QED
    BY <2>1, NothingOwed DEF Consistent
<1> QED
  BY <1>1, AlwaysConsistent, PTL

-----------------------------------------------------------------------------
(* Without overlap: the server implements Rooms.                           *)

\* The rooms that the keys say there are, one session or one room at a time.
RoomOf(s)     == sess[s].room
NameOf(s)     == IF sess[s].room = Nil THEN Nil ELSE parts[sess[s].room][s].name
SinceOf(s)    == IF sess[s].room = Nil THEN 0 ELSE order[sess[s].room][s]
TakeoverOf(c) == IF meta[c].code THEN meta[c].takeover ELSE DefaultTakeover

\* Sessions that a write does not concern keep their place in the abstract rooms.
LEMMA PlaceKept ==
  ASSUME KeysTypeOK, NEW t \in Sessions, sess'[t] = sess[t],
         \A d \in Codes : parts'[d][t] = parts[d][t] /\ order'[d][t] = order[d][t]
  PROVE  RoomOf(t)' = RoomOf(t) /\ NameOf(t)' = NameOf(t) /\ SinceOf(t)' = SinceOf(t)
<1>1. sess[t].room \in Codes \cup {Nil}
  BY DEF KeysTypeOK, Session
<1> QED
  BY <1>1 DEF RoomOf, NameOf, SinceOf

\* A member of the abstract room c is a participant of the room c.
LEMMA MembersAre ==
  ASSUME KeysTypeOK, Exact, NEW c \in Codes
  PROVE  /\ Abs!Members(c) = In(parts[c])
         /\ \A t \in In(parts[c]) : /\ RoomOf(t) = c /\ NameOf(t) = parts[c][t].name
                                    /\ SinceOf(t) = order[c][t] /\ SinceOf(t) \in Nat
<1>1. \A t \in Sessions : sess[t].room = c <=> parts[c][t] # Nil
  BY DEF Exact, SessionsMatchSeats, Present
<1>2. Abs!Members(c) = In(parts[c])
  BY <1>1 DEF Abs!Members, In
<1>3. \A t \in In(parts[c]) : /\ RoomOf(t) = c /\ NameOf(t) = parts[c][t].name
                              /\ SinceOf(t) = order[c][t]
  BY <1>1, CodesAssumption DEF RoomOf, NameOf, SinceOf, In
<1>4. \A t \in In(parts[c]) : order[c][t] \in Nat
  BY DEF KeysTypeOK, In
<1> QED
  BY <1>2, <1>3, <1>4

\* What createRoom and joinRoom do to the session that enters.
LEMMA SeatMaps ==
  ASSUME KeysTypeOK, Exact, NEW s \in Sessions, NEW n \in Names, NEW c \in Codes, Seat(s, n, c),
         sess[s].room = Nil
  PROVE  Abs!Enter(s, c, n)
<1>1. /\ parts'[c][s].name = n /\ order'[c][s] = now' /\ now' \in Nat /\ now' >= now /\ now \in Nat
      /\ sess'[s].room = c
      /\ \A t \in Sessions : t # s => /\ parts'[c][t] = parts[c][t] /\ order'[c][t] = order[c][t]
                                      /\ sess'[t] = sess[t]
      /\ \A d \in Codes : d # c => parts'[d] = parts[d] /\ order'[d] = order[d]
  BY SeatFacts
<1>2. RoomOf(s)' = c /\ NameOf(s)' = n /\ SinceOf(s)' = now'
  BY <1>1, CodesAssumption DEF RoomOf, NameOf, SinceOf
<1>3. ASSUME NEW t \in Sessions, t # s
      PROVE  RoomOf(t)' = RoomOf(t) /\ NameOf(t)' = NameOf(t) /\ SinceOf(t)' = SinceOf(t)
  <2>1. \A d \in Codes : parts'[d][t] = parts[d][t] /\ order'[d][t] = order[d][t]
    BY <1>1, <1>3
  <2> QED
    BY <1>1, <1>3, <2>1, PlaceKept
<1>4. \A m \in Abs!Members(c) : SinceOf(m) <= now'
  <2>1. \A t \in In(parts[c]) : SinceOf(t) \in Nat /\ SinceOf(t) <= now
    BY MembersAre DEF Exact, In
  <2> QED
    BY <1>1, <2>1, MembersAre
<1>5. [t \in Sessions |-> RoomOf(t)]' = [[t \in Sessions |-> RoomOf(t)] EXCEPT ![s] = c]
  BY <1>2, <1>3
<1>6. [t \in Sessions |-> NameOf(t)]' = [[t \in Sessions |-> NameOf(t)] EXCEPT ![s] = n]
  BY <1>2, <1>3
<1>7. [t \in Sessions |-> SinceOf(t)]' = [[t \in Sessions |-> SinceOf(t)] EXCEPT ![s] = SinceOf(s)']
  BY <1>2, <1>3
<1>8. Abs!Members(c) \subseteq Sessions
  BY DEF Abs!Members
<1> QED
  BY <1>1, <1>2, <1>4, <1>5, <1>6, <1>7, <1>8 DEF Abs!Enter, RoomOf, NameOf, SinceOf

\* createRoom, at its MULTI block.
LEMMA CreateMaps ==
  ASSUME KeysTypeOK, Exact, NEW s \in Sessions, NEW n \in Names, NEW c \in Codes,
         NEW b \in BOOLEAN, AddRoom(s, n, c, b), ~ meta[c].code, sess[s].room = Nil
  PROVE  Abs!Next
<1>1. Seat(s, n, c) /\ Abs!Enter(s, c, n)
  BY SeatMaps DEF AddRoom
<1>2. meta[c].owner = Nil
  BY DEF Exact, NothingLeftBehind, NoRoom
<1>3. /\ meta'[c].owner = s /\ meta'[c].code /\ meta'[c].takeover = b
      /\ \A d \in Codes : d # c => meta'[d] = meta[d]
  BY DEF AddRoom, KeysTypeOK
<1>4. [d \in Codes |-> meta'[d].owner] = [[d \in Codes |-> meta[d].owner] EXCEPT ![c] = s]
  BY <1>3
<1>5. TakeoverOf(c)' = b /\ \A d \in Codes : d # c => TakeoverOf(d)' = TakeoverOf(d)
  BY <1>3 DEF TakeoverOf
<1>6. [d \in Codes |-> TakeoverOf(d)]' = [[d \in Codes |-> TakeoverOf(d)] EXCEPT ![c] = b]
  BY <1>5
<1>7. Abs!Create(s, c, n, b)
  BY <1>1, <1>2, <1>4, <1>6 DEF Abs!Create, TakeoverOf
<1> QED
  BY <1>7 DEF Abs!Next

\* Rooms counts members as this module does.
LEMMA SameCardinality == ASSUME NEW S PROVE Abs!Cardinality(S) = Cardinality(S)
  BY DEF Abs!Cardinality, Cardinality

\* joinRoom, at its MULTI block.
LEMMA JoinMaps ==
  ASSUME KeysTypeOK, Exact, NEW s \in Sessions, NEW n \in Names, NEW c \in Codes,
         AddParticipant(s, n, c, meta[c].count), meta[c].code, sess[s].room = Nil,
         names[c][LowerCase[n]] = Nil, meta[c].count < RoomMax
  PROVE  Abs!Next
<1>1. Seat(s, n, c) /\ Abs!Enter(s, c, n)
  BY SeatMaps DEF AddParticipant
<1>2. meta[c].owner \in Sessions /\ meta[c].count = Cardinality(In(parts[c]))
  BY DEF Exact, RoomsAccountedFor, Present, In
<1>3. \A d \in Codes : /\ meta'[d].owner = meta[d].owner /\ meta'[d].code = meta[d].code
                       /\ meta'[d].takeover = meta[d].takeover
  <2>1. meta' = [meta EXCEPT ![c].count = Plus(meta[c].count, 1)]
    BY DEF AddParticipant
  <2> QED
    BY <2>1 DEF KeysTypeOK, Room
<1>4. ~ Abs!Taken(c, n)
  <2> SUFFICES ASSUME NEW t \in In(parts[c]), LowerCase[NameOf(t)] = LowerCase[n] PROVE FALSE
    <3>1. Abs!Members(c) = In(parts[c]) /\ In(parts[c]) \subseteq Sessions
      BY MembersAre DEF In
    <3> QED
      BY <3>1 DEF Abs!Taken, NameOf
  <2>1. t \in Sessions /\ parts[c][t] # Nil /\ NameOf(t) = parts[c][t].name
    BY MembersAre DEF In
  <2>2. LowerCase[n] \in Names
    BY LowerCaseAssumption
  <2>3. names[c][LowerCase[n]] = t
    BY <2>1, <2>2 DEF Exact, NameKeysExact, Present
  <2> QED
    BY <2>1, <2>3, SessionsAssumption
<1>5. /\ [d \in Codes |-> meta'[d].owner] = [d \in Codes |-> meta[d].owner]
      /\ [d \in Codes |-> TakeoverOf(d)]' = [d \in Codes |-> TakeoverOf(d)]
  BY <1>3 DEF TakeoverOf
<1>6. Cardinality(Abs!Members(c)) < RoomMax
  BY <1>2, MembersAre
<1>7. meta[c].owner # Nil
  BY <1>2, SessionsAssumption
<1>8. Abs!Join(s, c, n)
  BY <1>1, <1>4, <1>5, <1>6, <1>7, SameCardinality DEF Abs!Join, TakeoverOf
<1> QED
  BY <1>8 DEF Abs!Next

\* What both of leaveRoom's branches do to the session that leaves.
LEMMA GoneMaps ==
  ASSUME KeysTypeOK, Exact, NEW s \in Sessions, NEW c \in Codes, parts[c][s] # Nil,
         sess' = [sess EXCEPT ![s] = NoSession],
         \A t \in Sessions, d \in Codes : t # s /\ parts[d][t] # Nil =>
            parts'[d][t] = parts[d][t] /\ order'[d][t] = order[d][t]
  PROVE  /\ [t \in Sessions |-> RoomOf(t)]' = [[t \in Sessions |-> RoomOf(t)] EXCEPT ![s] = Nil]
         /\ [t \in Sessions |-> NameOf(t)]' = [[t \in Sessions |-> NameOf(t)] EXCEPT ![s] = Nil]
         /\ [t \in Sessions |-> SinceOf(t)]' = [[t \in Sessions |-> SinceOf(t)] EXCEPT ![s] = 0]
<1>1. sess'[s].room = Nil /\ \A t \in Sessions : t # s => sess'[t] = sess[t]
  BY DEF KeysTypeOK, NoSession
<1>2. RoomOf(s)' = Nil /\ NameOf(s)' = Nil /\ SinceOf(s)' = 0
  BY <1>1 DEF RoomOf, NameOf, SinceOf
<1>3. ASSUME NEW t \in Sessions, t # s
      PROVE  RoomOf(t)' = RoomOf(t) /\ NameOf(t)' = NameOf(t) /\ SinceOf(t)' = SinceOf(t)
  <2>1. sess'[t] = sess[t] /\ sess[t].room \in Codes \cup {Nil}
    BY <1>1, <1>3 DEF KeysTypeOK, Session
  <2>2. CASE sess[t].room = Nil
    BY <2>1, <2>2 DEF RoomOf, NameOf, SinceOf
  <2>3. CASE sess[t].room \in Codes
    <3>1. parts[sess[t].room][t] # Nil
      BY <2>3 DEF Exact, SessionsMatchSeats, Present
    <3>2. /\ parts'[sess[t].room][t] = parts[sess[t].room][t]
          /\ order'[sess[t].room][t] = order[sess[t].room][t]
      BY <1>3, <2>3, <3>1
    <3> QED
      BY <2>1, <3>2 DEF RoomOf, NameOf, SinceOf
  <2> QED
    BY <2>1, <2>2, <2>3
<1> QED
  BY <1>2, <1>3

\* leaveRoom of the last participant.
LEMMA LastLeaveMaps ==
  ASSUME KeysTypeOK, Exact, NEW s \in Sessions, NEW c \in Codes, parts[c][s] # Nil,
         meta[c].count = 1, DeleteRoom(s, parts[c][s].name, c)
  PROVE  Abs!Next
<1>1. In(parts[c]) = {s} /\ sess[s].room = c
  BY MemberFacts
<1>2. /\ \A d \in Codes : d # c => meta'[d] = meta[d] /\ parts'[d] = parts[d] /\ order'[d] = order[d]
      /\ meta'[c] = NoRoom /\ sess' = [sess EXCEPT ![s] = NoSession]
  BY DEF DeleteRoom, KeysTypeOK
<1>3. \A t \in Sessions, d \in Codes : t # s /\ parts[d][t] # Nil =>
        parts'[d][t] = parts[d][t] /\ order'[d][t] = order[d][t]
  BY <1>1, <1>2 DEF In
<1>4. /\ [t \in Sessions |-> RoomOf(t)]' = [[t \in Sessions |-> RoomOf(t)] EXCEPT ![s] = Nil]
      /\ [t \in Sessions |-> NameOf(t)]' = [[t \in Sessions |-> NameOf(t)] EXCEPT ![s] = Nil]
      /\ [t \in Sessions |-> SinceOf(t)]' = [[t \in Sessions |-> SinceOf(t)] EXCEPT ![s] = 0]
  BY <1>2, <1>3, GoneMaps
<1>5. meta'[c].owner = Nil /\ ~ meta'[c].code
  BY <1>2 DEF NoRoom
<1>6. /\ [d \in Codes |-> meta'[d].owner] = [[d \in Codes |-> meta[d].owner] EXCEPT ![c] = Nil]
      /\ [d \in Codes |-> TakeoverOf(d)]' = [[d \in Codes |-> TakeoverOf(d)] EXCEPT ![c] = DefaultTakeover]
  BY <1>2, <1>5 DEF TakeoverOf
<1>7. Abs!Members(c) \ {s} = {}
  BY <1>1, MembersAre
<1>8. Abs!Leave(s)
  BY <1>1, <1>4, <1>6, <1>7, CodesAssumption DEF Abs!Leave, RoomOf, NameOf, SinceOf, TakeoverOf
<1> QED
  BY <1>8 DEF Abs!Next

\* leaveRoom of a participant that leaves others behind.
LEMMA OthersStayMaps ==
  ASSUME KeysTypeOK, Exact, NEW s \in Sessions, NEW c \in Codes, parts[c][s] # Nil,
         NEW o \in Sessions \cup {Nil}, NEW p \in Participant \cup {Nil}, meta[c].count # 1,
         RemoveParticipant(s, parts[c][s].name, c, meta[c].count - 1, o, p),
         IF o = Nil THEN meta[c].owner # s ELSE meta[c].owner = s /\ Heir(c, s, o)
  PROVE  Abs!Next
<1>1. /\ sess[s].room = c /\ meta[c].count = Cardinality(In(parts[c])) /\ s \in In(parts[c])
      /\ meta[c].count \in Nat /\ In(parts[c]) \in SUBSET Sessions
  BY MemberFacts DEF In
<1>2. /\ \A d \in Codes : d # c => parts'[d] = parts[d] /\ order'[d] = order[d]
      /\ \A t \in Sessions : t # s => parts'[c][t] = parts[c][t] /\ order'[c][t] = order[c][t]
      /\ sess' = [sess EXCEPT ![s] = NoSession]
  BY DEF RemoveParticipant, KeysTypeOK
<1>3. \A t \in Sessions, d \in Codes : t # s /\ parts[d][t] # Nil =>
        parts'[d][t] = parts[d][t] /\ order'[d][t] = order[d][t]
  BY <1>2
<1>4. /\ [t \in Sessions |-> RoomOf(t)]' = [[t \in Sessions |-> RoomOf(t)] EXCEPT ![s] = Nil]
      /\ [t \in Sessions |-> NameOf(t)]' = [[t \in Sessions |-> NameOf(t)] EXCEPT ![s] = Nil]
      /\ [t \in Sessions |-> SinceOf(t)]' = [[t \in Sessions |-> SinceOf(t)] EXCEPT ![s] = 0]
  BY <1>2, <1>3, GoneMaps
<1>5. IF o = Nil THEN meta[c].owner # s ELSE o # s /\ parts[c][o] # Nil
  BY DEF Heir, Present
<1>6. /\ \A d \in Codes : meta'[d].owner = IF d = c /\ o # Nil THEN o ELSE meta[d].owner
      /\ \A d \in Codes : meta'[d].code = meta[d].code /\ meta'[d].takeover = meta[d].takeover
  BY <1>5, RemoveParticipantExact
<1>7. [d \in Codes |-> TakeoverOf(d)]' = [d \in Codes |-> TakeoverOf(d)]
  BY <1>6 DEF TakeoverOf
<1>8. Abs!Members(c) = In(parts[c])
  BY MembersAre
<1>9. ASSUME o = Nil PROVE Abs!Leave(s)
  <2>1. [d \in Codes |-> meta'[d].owner] = [d \in Codes |-> meta[d].owner] /\ meta[c].owner # s
    BY <1>6, <1>9
  <2>2. Abs!Members(c) \ {s} # {}
    <3>1. meta[c].owner \in Sessions /\ parts[c][meta[c].owner] # Nil
      BY MemberFacts
    <3> QED
      BY <1>8, <2>1, <3>1 DEF In
  <2> QED
    BY <1>1, <1>4, <1>7, <2>1, <2>2, CodesAssumption
       DEF Abs!Leave, RoomOf, NameOf, SinceOf, TakeoverOf
<1>10. ASSUME o # Nil PROVE Abs!Leave(s)
  <2>1. meta[c].owner = s /\ Heir(c, s, o)
    BY <1>10
  <2>2. [d \in Codes |-> meta'[d].owner] = [[d \in Codes |-> meta[d].owner] EXCEPT ![c] = o]
    BY <1>6, <1>10
  <2>3. Present(c) = In(parts[c])
    BY DEF Present, In
  <2>4. o \in Abs!Members(c) \ {s} /\ \A m \in Abs!Members(c) \ {s} : SinceOf(o) <= SinceOf(m)
    BY <1>8, <2>1, <2>3, MembersAre DEF Heir
  <2>5. Abs!Oldest(c, Abs!Members(c) \ {s}, o)
    BY <2>4 DEF Abs!Oldest, SinceOf, Abs!Members
  <2> QED
    BY <1>1, <1>4, <1>7, <2>1, <2>2, <2>4, <2>5, CodesAssumption
       DEF Abs!Leave, RoomOf, NameOf, SinceOf, TakeoverOf
<1>11. Abs!Leave(s)
  BY <1>9, <1>10
<1> QED
  BY <1>11 DEF Abs!Next

\* updateDisplayName, at its MULTI block.
LEMMA RenameMaps ==
  ASSUME KeysTypeOK, Exact, NEW s \in Sessions, NEW c \in Codes, parts[c][s] # Nil,
         NEW n \in Names, NEW a \in Avatars \cup {Nil}, names[c][LowerCase[n]] \in {Nil, s},
         WriteName(s, parts[c][s].name, n, c, a)
  PROVE  Abs!Next
<1>1. sess[s].room = c
  BY MemberFacts
<1>2. /\ parts'[c][s].name = n
      /\ \A d \in Codes, t \in Sessions : d # c \/ t # s => parts'[d][t] = parts[d][t]
      /\ UNCHANGED <<meta, order, state, sess, now>>
  BY WriteNameExact
<1>3. NameOf(s)' = n
  BY <1>1, <1>2, CodesAssumption DEF NameOf
<1>4. ASSUME NEW t \in Sessions, t # s PROVE NameOf(t)' = NameOf(t)
  <2>1. sess[t].room \in Codes \cup {Nil}
    BY DEF KeysTypeOK, Session
  <2> QED
    BY <1>2, <1>4, <2>1 DEF NameOf
<1>5. [t \in Sessions |-> NameOf(t)]' = [[t \in Sessions |-> NameOf(t)] EXCEPT ![s] = n]
  BY <1>3, <1>4
<1>6. \A m \in Abs!Members(c) \ {s} : LowerCase[NameOf(m)] # LowerCase[n]
  <2> SUFFICES ASSUME NEW t \in In(parts[c]) \ {s}, LowerCase[NameOf(t)] = LowerCase[n] PROVE FALSE
    BY MembersAre
  <2>1. t \in Sessions /\ parts[c][t] # Nil /\ NameOf(t) = parts[c][t].name
    BY MembersAre DEF In
  <2>2. LowerCase[n] \in Names
    BY LowerCaseAssumption
  <2>3. names[c][LowerCase[n]] = t
    BY <2>1, <2>2 DEF Exact, NameKeysExact, Present
  <2> QED
    BY <2>1, <2>3, SessionsAssumption
<1>7. Abs!Members(c) \subseteq Sessions
  BY DEF Abs!Members
<1>8. Abs!Rename(s, n)
  BY <1>1, <1>2, <1>5, <1>6, <1>7, CodesAssumption DEF Abs!Rename, NameOf
<1> QED
  BY <1>8 DEF Abs!Next

\* takeOwner, at its write.
LEMMA OwnerMaps ==
  ASSUME KeysTypeOK, Exact, NEW s \in Sessions, NEW c \in Codes, parts[c][s] # Nil,
         meta[c].takeover, NEW a, WriteOwner(s, c, a)
  PROVE  Abs!Next
<1>1. sess[s].room = c /\ meta[c].code
  BY MemberFacts
<1>2. /\ meta'[c].owner = s /\ meta'[c].code = meta[c].code /\ meta'[c].takeover = meta[c].takeover
      /\ \A d \in Codes : d # c => meta'[d] = meta[d]
      /\ parts' = parts /\ order' = order /\ sess' = sess
  BY DEF WriteOwner, KeysTypeOK, Room
<1>3. /\ [d \in Codes |-> meta'[d].owner] = [[d \in Codes |-> meta[d].owner] EXCEPT ![c] = s]
      /\ [d \in Codes |-> TakeoverOf(d)]' = [d \in Codes |-> TakeoverOf(d)]
  BY <1>2 DEF TakeoverOf
<1>4. Abs!TakeOwner(s)
  BY <1>1, <1>2, <1>3, CodesAssumption DEF Abs!TakeOwner, TakeoverOf
<1> QED
  BY <1>4 DEF Abs!Next

\* updateRoomSettings, at its write.
LEMMA SettingsMaps ==
  ASSUME KeysTypeOK, Exact, NEW s \in Sessions, NEW c \in Codes, parts[c][s] # Nil,
         meta[c].owner = s, NEW b \in BOOLEAN, WriteTakeover(c, b)
  PROVE  Abs!Next
<1>1. sess[s].room = c /\ meta[c].code
  BY MemberFacts
<1>2. /\ meta'[c].owner = meta[c].owner /\ meta'[c].code = meta[c].code /\ meta'[c].takeover = b
      /\ \A d \in Codes : d # c => meta'[d] = meta[d]
      /\ parts' = parts /\ order' = order /\ sess' = sess
  BY DEF WriteTakeover, KeysTypeOK, Room
<1>3. /\ [d \in Codes |-> meta'[d].owner] = [d \in Codes |-> meta[d].owner]
      /\ [d \in Codes |-> TakeoverOf(d)]' = [[d \in Codes |-> TakeoverOf(d)] EXCEPT ![c] = b]
  BY <1>1, <1>2 DEF TakeoverOf
<1>4. Abs!SetTakeover(s, b)
  BY <1>1, <1>2, <1>3, CodesAssumption DEF Abs!SetTakeover, TakeoverOf
<1> QED
  BY <1>4 DEF Abs!Next

\* A write that changes neither members, names, stamps, owner nor settings.
LEMMA StutterMaps ==
  ASSUME KeysTypeOK, Exact,
         \A t \in Sessions : sess'[t].room = sess[t].room,
         \A t \in Sessions, d \in Codes : parts[d][t] # Nil => parts'[d][t].name = parts[d][t].name,
         order' = order,
         \A d \in Codes : /\ meta'[d].owner = meta[d].owner /\ meta'[d].code = meta[d].code
                          /\ meta'[d].takeover = meta[d].takeover
  PROVE  UNCHANGED Abs!vars
<1>1. ASSUME NEW t \in Sessions
      PROVE  RoomOf(t)' = RoomOf(t) /\ NameOf(t)' = NameOf(t) /\ SinceOf(t)' = SinceOf(t)
  <2>1. sess'[t].room = sess[t].room /\ sess[t].room \in Codes \cup {Nil}
    BY DEF KeysTypeOK, Session
  <2>2. CASE sess[t].room = Nil
    BY <2>1, <2>2 DEF RoomOf, NameOf, SinceOf
  <2>3. CASE sess[t].room \in Codes
    <3>1. parts[sess[t].room][t] # Nil
      BY <2>3 DEF Exact, SessionsMatchSeats, Present
    <3> QED
      BY <2>1, <2>3, <3>1 DEF RoomOf, NameOf, SinceOf
  <2> QED
    BY <2>1, <2>2, <2>3
<1>2. \A d \in Codes : TakeoverOf(d)' = TakeoverOf(d)
  BY DEF TakeoverOf
<1> QED
  BY <1>1, <1>2 DEF Abs!vars, RoomOf, NameOf, SinceOf, TakeoverOf

\* What Next keeps of the abstract rooms when it writes no key.
LEMMA KeysMaps == ASSUME UNCHANGED keys PROVE UNCHANGED Abs!vars
  BY DEF keys, Abs!vars

\* Every write of a handler is a step of Rooms, or changes nothing that Rooms has.
LEMMA CommitsMap ==
  ASSUME TypeOK, SerialInv, NEW k,
         \/ CommitCreate(k) \/ CommitJoin(k) \/ CommitLeave(k)
         \/ CommitRename(k) \/ CommitOwner(k) \/ CommitSettings(k) \/ CommitState(k)
         \/ CommitSessionAvatar(k) \/ CommitParticipantAvatar(k) \/ CommitOwnerAvatar(k)
  PROVE  Abs!Next \/ UNCHANGED Abs!vars
<1> DEFINE h == flight[k]
<1>1. CASE CommitCreate(k)
  <2>1. At(k, {"create"}, "CommitCreate")
    BY <1>1 DEF CommitCreate
  <2>2. /\ k \in DOMAIN flight /\ KeysTypeOK /\ Exact /\ h \in Handler /\ h.s \in Sessions
        /\ h.op \in {"create"} /\ h.pc = "CommitCreate" /\ HandlerOK(h) /\ HandlerTrue(h) /\ ~ Refused(h)
    BY <2>1, RunFacts
  <2>3. h.c \in Codes
    BY <2>2, LocatedFacts DEF Located, Pcs
  <2>4. AddRoom(h.s, h.n, h.c, h.b)
    BY <1>1 DEF CommitCreate
  <2>5. ~ meta[h.c].code /\ sess[h.s].room = Nil
    BY <2>2 DEF HandlerTrue, Entering
  <2>6. h.n \in Names /\ h.b \in BOOLEAN
    BY <2>2 DEF HandlerOK, Handler
  <2> QED
    BY <2>2, <2>3, <2>4, <2>5, <2>6, CreateMaps
<1>2. CASE CommitJoin(k)
  <2>1. At(k, {"join"}, "CommitJoin")
    BY <1>2 DEF CommitJoin
  <2>2. /\ k \in DOMAIN flight /\ KeysTypeOK /\ Exact /\ h \in Handler /\ h.s \in Sessions
        /\ h.op \in {"join"} /\ h.pc = "CommitJoin" /\ HandlerOK(h) /\ HandlerTrue(h) /\ ~ Refused(h)
    BY <2>1, RunFacts
  <2>3. h.c \in Codes
    BY <2>2, LocatedFacts DEF Located, Pcs
  <2>4. AddParticipant(h.s, h.n, h.c, h.m.count)
    BY <1>2 DEF CommitJoin
  <2>5. /\ meta[h.c].code /\ h.m.count = meta[h.c].count /\ sess[h.s].room = Nil
        /\ names[h.c][LowerCase[h.n]] = Nil /\ meta[h.c].count < RoomMax
    BY <2>2 DEF HandlerTrue, Entering
  <2>6. h.n \in Names
    BY <2>2 DEF HandlerOK, Handler
  <2> QED
    BY <2>2, <2>3, <2>4, <2>5, <2>6, JoinMaps
<1>3. CASE CommitLeave(k)
  <2>1. At(k, Leaving, "CommitLeave")
    BY <1>3 DEF CommitLeave
  <2>2. /\ k \in DOMAIN flight /\ KeysTypeOK /\ Exact /\ h \in Handler /\ h.s \in Sessions
        /\ h.op \in Leaving /\ h.pc = "CommitLeave" /\ HandlerOK(h) /\ HandlerTrue(h) /\ ~ Refused(h)
    BY <2>1, RunFacts
  <2>3. h.c \in Codes /\ sess[h.s].room = h.c /\ parts[h.c][h.s] # Nil
    BY <2>2, InRoomFacts DEF Located, Pcs, Leaving
  <2>6. h.old = parts[h.c][h.s].name /\ h.m.count = meta[h.c].count - 1
    BY <2>2 DEF HandlerTrue, Departing, Leaving
  <2>7. \/ h.o = Nil /\ h.np = Nil /\ (h.m.count = 0 \/ meta[h.c].owner # h.s)
        \/ /\ h.m.count # 0 /\ meta[h.c].owner = h.s
           /\ Heir(h.c, h.s, h.o) /\ h.np = parts[h.c][h.o]
    BY <2>2 DEF HandlerTrue, Departing, Leaving
  <2>8. meta[h.c].count \in Nat \ {0}
    BY <2>2, <2>3, MemberFacts
  <2>9. Abs!Next
    <3>1. CASE h.m.count = 0
      <4>1. DeleteRoom(h.s, parts[h.c][h.s].name, h.c)
        BY <1>3, <2>6, <3>1 DEF CommitLeave
      <4>2. meta[h.c].count = 1
        BY <2>6, <2>8, <3>1
      <4> QED
        BY <2>2, <2>3, <4>1, <4>2, LastLeaveMaps
    <3>2. CASE h.m.count # 0
      <4>1. RemoveParticipant(h.s, parts[h.c][h.s].name, h.c, meta[h.c].count - 1, h.o, h.np)
        BY <1>3, <2>6, <3>2 DEF CommitLeave
      <4>2. h.o \in Sessions \cup {Nil} /\ h.np \in Participant \cup {Nil} /\ meta[h.c].count # 1
        BY <2>2, <2>6, <2>8, <3>2 DEF Handler
      <4>3. IF h.o = Nil THEN meta[h.c].owner # h.s ELSE meta[h.c].owner = h.s /\ Heir(h.c, h.s, h.o)
        BY <2>7, <3>2, SessionsAssumption DEF Heir, Present
      <4> QED
        BY <2>2, <2>3, <4>1, <4>2, <4>3, OthersStayMaps
    <3> QED
      BY <3>1, <3>2
  <2> QED
    BY <2>9
<1>4. CASE CommitRename(k)
  <2>1. At(k, {"rename"}, "CommitRename")
    BY <1>4 DEF CommitRename
  <2>2. /\ k \in DOMAIN flight /\ KeysTypeOK /\ Exact /\ h \in Handler /\ h.s \in Sessions
        /\ h.op \in {"rename"} /\ h.pc = "CommitRename" /\ HandlerOK(h) /\ HandlerTrue(h) /\ ~ Refused(h)
    BY <2>1, RunFacts
  <2>3. h.c \in Codes /\ sess[h.s].room = h.c /\ parts[h.c][h.s] # Nil
    BY <2>2, InRoomFacts DEF Located, Pcs, Leaving
  <2>4. WriteName(h.s, h.old, h.n, h.c, h.a)
    BY <1>4 DEF CommitRename
  <2>5. /\ h.old = parts[h.c][h.s].name /\ names[h.c][LowerCase[h.n]] \in {Nil, h.s}
    BY <2>2 DEF HandlerTrue, Renaming, Leaving
  <2>6. h.n \in Names /\ h.a \in Avatars \cup {Nil}
    BY <2>2 DEF HandlerOK, Handler
  <2> QED
    BY <2>2, <2>3, <2>4, <2>5, <2>6, RenameMaps
<1>5. CASE CommitOwner(k)
  <2>1. At(k, {"take"}, "CommitOwner")
    BY <1>5 DEF CommitOwner
  <2>2. /\ k \in DOMAIN flight /\ KeysTypeOK /\ Exact /\ h \in Handler /\ h.s \in Sessions
        /\ h.op \in {"take"} /\ h.pc = "CommitOwner" /\ HandlerOK(h) /\ HandlerTrue(h) /\ ~ Refused(h)
    BY <2>1, RunFacts
  <2>3. h.c \in Codes /\ sess[h.s].room = h.c /\ parts[h.c][h.s] # Nil
    BY <2>2, InRoomFacts DEF Located, Pcs, Leaving
  <2>4. WriteOwner(h.s, h.c, h.a)
    BY <1>5 DEF CommitOwner
  <2>5. meta[h.c].takeover
    BY <2>2 DEF HandlerTrue, Taking, Leaving
  <2> QED
    BY <2>2, <2>3, <2>4, <2>5, OwnerMaps
<1>6. CASE CommitSettings(k)
  <2>1. At(k, {"settings"}, "CommitSettings")
    BY <1>6 DEF CommitSettings
  <2>2. /\ k \in DOMAIN flight /\ KeysTypeOK /\ Exact /\ h \in Handler /\ h.s \in Sessions
        /\ h.op \in {"settings"} /\ h.pc = "CommitSettings" /\ HandlerOK(h) /\ HandlerTrue(h) /\ ~ Refused(h)
    BY <2>1, RunFacts
  <2>3. h.c \in Codes /\ sess[h.s].room = h.c /\ parts[h.c][h.s] # Nil
    BY <2>2, InRoomFacts DEF Located, Pcs, Leaving
  <2>4. WriteTakeover(h.c, h.b)
    BY <1>6 DEF CommitSettings
  <2>5. meta[h.c].owner = h.s /\ h.b \in BOOLEAN
    BY <2>2 DEF HandlerTrue, Leaving, Handler
  <2> QED
    BY <2>2, <2>3, <2>4, <2>5, SettingsMaps
<1>7. CASE CommitState(k)
  <2>1. At(k, {"params"}, "CommitState")
    BY <1>7 DEF CommitState
  <2>2. /\ k \in DOMAIN flight /\ KeysTypeOK /\ Exact /\ h \in Handler /\ h.s \in Sessions
        /\ h.op \in {"params"} /\ h.pc = "CommitState" /\ HandlerOK(h) /\ HandlerTrue(h) /\ ~ Refused(h)
    BY <2>1, RunFacts
  <2>3. h.c \in Codes /\ sess[h.s].room = h.c /\ parts[h.c][h.s] # Nil
    BY <2>2, InRoomFacts DEF Located, Pcs, Leaving
  <2>4. UNCHANGED <<meta, parts, order, sess>>
    BY <1>7 DEF CommitState, WriteState
  <2>5. /\ \A t \in Sessions : sess'[t].room = sess[t].room
        /\ \A t \in Sessions, d \in Codes : parts[d][t] # Nil => parts'[d][t].name = parts[d][t].name
        /\ order' = order
        /\ \A d \in Codes : /\ meta'[d].owner = meta[d].owner /\ meta'[d].code = meta[d].code
                            /\ meta'[d].takeover = meta[d].takeover
    BY <2>4
  <2> QED
    BY <2>2, <2>5, StutterMaps
<1>8. CASE CommitSessionAvatar(k)
  <2>1. At(k, {"avatar"}, "CommitSessionAvatar")
    BY <1>8 DEF CommitSessionAvatar
  <2>2. /\ k \in DOMAIN flight /\ KeysTypeOK /\ Exact /\ h \in Handler /\ h.s \in Sessions
        /\ h.op \in {"avatar"} /\ h.pc = "CommitSessionAvatar" /\ HandlerOK(h) /\ HandlerTrue(h)
        /\ ~ Refused(h)
    BY <2>1, RunFacts
  <2>3. h.c \in Codes /\ sess[h.s].room = h.c /\ parts[h.c][h.s] # Nil
    BY <2>2, InRoomFacts DEF Located, Pcs, Leaving
  <2>4. /\ UNCHANGED <<meta, parts, order>> /\ \A t \in Sessions : sess'[t].room = sess[t].room
    BY <1>8, <2>2 DEF CommitSessionAvatar, WriteSessionAvatar, KeysTypeOK, Session
  <2>5. /\ \A t \in Sessions : sess'[t].room = sess[t].room
        /\ \A t \in Sessions, d \in Codes : parts[d][t] # Nil => parts'[d][t].name = parts[d][t].name
        /\ order' = order
        /\ \A d \in Codes : /\ meta'[d].owner = meta[d].owner /\ meta'[d].code = meta[d].code
                            /\ meta'[d].takeover = meta[d].takeover
    BY <2>4
  <2> QED
    BY <2>2, <2>5, StutterMaps
<1>9. CASE CommitParticipantAvatar(k)
  <2>1. At(k, {"avatar"}, "CommitParticipantAvatar")
    BY <1>9 DEF CommitParticipantAvatar
  <2>2. /\ k \in DOMAIN flight /\ KeysTypeOK /\ Exact /\ h \in Handler /\ h.s \in Sessions
        /\ h.op \in {"avatar"} /\ h.pc = "CommitParticipantAvatar" /\ HandlerOK(h) /\ HandlerTrue(h)
        /\ ~ Refused(h)
    BY <2>1, RunFacts
  <2>3. h.c \in Codes /\ sess[h.s].room = h.c /\ parts[h.c][h.s] # Nil
    BY <2>2, InRoomFacts DEF Located, Pcs, Leaving
  <2>6. WriteParticipant(h.s, h.c, parts[h.c][h.s].name, h.a) /\ h.a \in Avatars \cup {Nil}
    BY <1>9, <2>2 DEF CommitParticipantAvatar, HandlerTrue, Updating, Leaving, Handler
  <2>4. /\ UNCHANGED <<meta, order, sess>>
        /\ parts'[h.c][h.s].name = parts[h.c][h.s].name
        /\ \A d \in Codes, t \in Sessions : d # h.c \/ t # h.s => parts'[d][t] = parts[d][t]
    BY <2>2, <2>3, <2>6, WriteParticipantExact
  <2>5. /\ \A t \in Sessions : sess'[t].room = sess[t].room
        /\ \A t \in Sessions, d \in Codes : parts[d][t] # Nil => parts'[d][t].name = parts[d][t].name
        /\ order' = order
        /\ \A d \in Codes : /\ meta'[d].owner = meta[d].owner /\ meta'[d].code = meta[d].code
                            /\ meta'[d].takeover = meta[d].takeover
    BY <2>4
  <2> QED
    BY <2>2, <2>5, StutterMaps
<1>10. CASE CommitOwnerAvatar(k)
  <2>1. At(k, {"avatar"}, "CommitOwnerAvatar")
    BY <1>10 DEF CommitOwnerAvatar
  <2>2. /\ k \in DOMAIN flight /\ KeysTypeOK /\ Exact /\ h \in Handler /\ h.s \in Sessions
        /\ h.op \in {"avatar"} /\ h.pc = "CommitOwnerAvatar" /\ HandlerOK(h) /\ HandlerTrue(h) /\ ~ Refused(h)
    BY <2>1, RunFacts
  <2>3. h.c \in Codes /\ sess[h.s].room = h.c /\ parts[h.c][h.s] # Nil
    BY <2>2, InRoomFacts DEF Located, Pcs, Leaving
  <2>4. /\ UNCHANGED <<parts, order, sess>>
        /\ \A d \in Codes : /\ meta'[d].owner = meta[d].owner /\ meta'[d].code = meta[d].code
                            /\ meta'[d].takeover = meta[d].takeover
    BY <1>10, <2>2, <2>3 DEF CommitOwnerAvatar, WriteOwnerAvatar, KeysTypeOK, Room
  <2>5. /\ \A t \in Sessions : sess'[t].room = sess[t].room
        /\ \A t \in Sessions, d \in Codes : parts[d][t] # Nil => parts'[d][t].name = parts[d][t].name
        /\ order' = order
        /\ \A d \in Codes : /\ meta'[d].owner = meta[d].owner /\ meta'[d].code = meta[d].code
                            /\ meta'[d].takeover = meta[d].takeover
    BY <2>4
  <2> QED
    BY <2>2, <2>5, StutterMaps
<1> QED
  BY <1>1, <1>2, <1>3, <1>4, <1>5, <1>6, <1>7, <1>8, <1>9, <1>10

\* Every step is one of Rooms, or leaves its rooms alone.
LEMMA StepMaps ==
  ASSUME TypeOK, SerialInv, MaxInFlight = 1, [Next]_vars
  PROVE  [Abs!Next]_(Abs!vars)
<1>1. ASSUME NEW s \in Sessions,
             \/ \E n \in Names : handleHello(s, n)
             \/ RequestCreate(s) \/ RequestJoin(s) \/ RequestRename(s)
             \/ RequestSettings(s) \/ RequestAvatar(s) \/ RequestPlain(s)
             \/ Close(s)
      PROVE  UNCHANGED keys
  BY <1>1 DEF handleHello, RequestCreate, RequestJoin, RequestRename, RequestSettings,
     RequestAvatar, RequestPlain, Request, Close
<1>2. CASE Stop
  BY <1>2, KeysMaps DEF Stop
<1>3. ASSUME NEW k \in 1..MaxInFlight, Resume(k) PROVE Abs!Next \/ UNCHANGED Abs!vars
  <2>1. CASE \/ Refuse(k) \/ Broadcast(k) \/ SnapState(k)
             \/ EnsureNotInRoom(k) \/ PickCode(k)
             \/ JoinReadRoom(k) \/ JoinReadHolder(k)
             \/ SnapRoom(k) \/ SnapOrder(k) \/ SnapParticipants(k)
             \/ RequireSession(k)
             \/ LeaveReadParticipant(k) \/ LeaveReadRoom(k) \/ LeaveReadOrder(k)
             \/ LeaveReadKeys(k) \/ LeaveReadNewOwner(k)
             \/ RenameReadHolder(k) \/ RenameReadParticipant(k)
             \/ TakeReadRoom(k) \/ TakeReadAvatar(k)
             \/ SettingsReadRoom(k) \/ ParamsReadRoom(k)
             \/ AvatarReadParticipant(k) \/ AvatarReadRoom(k)
    <3>1. UNCHANGED keys
      BY <2>1 DEF Refuse, Broadcast, SnapState, EnsureNotInRoom, PickCode, JoinReadRoom,
         JoinReadHolder, SnapRoom, SnapOrder, SnapParticipants, RequireSession,
         LeaveReadParticipant, LeaveReadRoom, LeaveReadOrder, LeaveReadKeys,
         LeaveReadNewOwner, RenameReadHolder, RenameReadParticipant, TakeReadRoom,
         TakeReadAvatar, SettingsReadRoom, ParamsReadRoom, AvatarReadParticipant, AvatarReadRoom
    <3> QED
      BY <3>1, KeysMaps
  <2>2. CASE \/ CommitCreate(k) \/ CommitJoin(k) \/ CommitLeave(k)
             \/ CommitRename(k) \/ CommitOwner(k) \/ CommitSettings(k) \/ CommitState(k)
             \/ CommitSessionAvatar(k) \/ CommitParticipantAvatar(k) \/ CommitOwnerAvatar(k)
    BY <2>2, CommitsMap
  <2> QED
    BY <1>3, <2>1, <2>2 DEF Resume
<1>4. CASE UNCHANGED vars
  BY <1>4, KeysMaps DEF vars
<1> QED
  BY <1>1, <1>2, <1>3, <1>4, KeysMaps DEF Next

\* No key means no room.
LEMMA InitMaps == Init => Abs!Init
<1> SUFFICES ASSUME Init PROVE Abs!Init
  OBVIOUS
<1>1. /\ \A c \in Codes : ~ meta[c].code /\ meta[c].owner = Nil
      /\ \A s \in Sessions : sess[s].room = Nil
  BY DEF Init, NoKeys, NoRoom, NoSession
<1>2. /\ [s \in Sessions |-> RoomOf(s)] = [s \in Sessions |-> Nil]
      /\ [s \in Sessions |-> NameOf(s)] = [s \in Sessions |-> Nil]
      /\ [s \in Sessions |-> SinceOf(s)] = [s \in Sessions |-> 0]
      /\ [c \in Codes |-> meta[c].owner] = [c \in Codes |-> Nil]
      /\ [c \in Codes |-> TakeoverOf(c)] = [c \in Codes |-> DefaultTakeover]
  BY <1>1 DEF RoomOf, NameOf, SinceOf, TakeoverOf
<1> QED
  BY <1>2 DEF Abs!Init, RoomOf, NameOf, SinceOf, TakeoverOf

\* Each handler's commands add up to one atomic step of Rooms, in every
\* behaviour in which handlers do not overlap.
THEOREM ServerImplementsRooms == MaxInFlight = 1 => (Spec => ImplementsRooms)
<1> SUFFICES ASSUME MaxInFlight = 1 PROVE Spec => ImplementsRooms
  OBVIOUS
<1>1. TypeOK /\ SerialInv /\ [Next]_vars => [Abs!Next]_(Abs!vars)
  BY StepMaps
<1> QED
  BY <1>1, InitMaps, AlwaysSerial, PTL DEF Spec, ImplementsRooms, Abs!Spec

-----------------------------------------------------------------------------
(* Without overlap: the limit of a room, and who may own it.               *)

\* No room counts more participants than it may have.
WithinLimit == \A c \in Codes : meta[c].code => meta[c].count <= RoomMax

\* A room that goes on changes hands in two ways only: its owner leaves and an
\* heir follows, or a session takes it while the room allows that.
HandedOver ==
  \A c \in Codes :
    meta[c].code /\ meta'[c].code /\ meta'[c].owner # meta[c].owner =>
      \/ parts'[c][meta[c].owner] = Nil /\ Heir(c, meta[c].owner, meta'[c].owner)
      \/ meta[c].takeover /\ meta'[c].takeover /\ parts'[c][meta'[c].owner] # Nil

\* What a write may do to the rooms it is not about, and to the one it is.
LEMMA RoomsWritten ==
  ASSUME TypeOK, SerialInv, WithinLimit, NEW k,
         \/ CommitCreate(k) \/ CommitJoin(k) \/ CommitLeave(k)
         \/ CommitRename(k) \/ CommitOwner(k) \/ CommitSettings(k) \/ CommitState(k)
         \/ CommitSessionAvatar(k) \/ CommitParticipantAvatar(k) \/ CommitOwnerAvatar(k)
  PROVE  WithinLimit' /\ HandedOver
<1> DEFINE h == flight[k]
<1>1. CASE CommitCreate(k)
  <2>1. At(k, {"create"}, "CommitCreate")
    BY <1>1 DEF CommitCreate
  <2>2. /\ KeysTypeOK /\ h \in Handler /\ h.pc = "CommitCreate" /\ HandlerOK(h) /\ HandlerTrue(h)
        /\ h.op = "create"
    BY <2>1, RunFacts
  <2>3. h.c \in Codes
    BY <2>2, LocatedFacts DEF Located, Pcs
  <2>4. meta' = [meta EXCEPT ![h.c] = [code |-> TRUE, owner |-> h.s, count |-> 1,
                                       takeover |-> h.b, avatar |-> Nil]]
    BY <1>1 DEF CommitCreate, AddRoom
  <2>5. ~ meta[h.c].code
    BY <2>2 DEF HandlerTrue, Entering
  <2>6. meta'[h.c].count = 1 /\ \A d \in Codes : d # h.c => meta'[d] = meta[d]
    BY <2>2, <2>3, <2>4 DEF KeysTypeOK
  <2> QED
    BY <2>5, <2>6, RoomMaxAssumption DEF WithinLimit, HandedOver
<1>2. CASE CommitJoin(k)
  <2>1. At(k, {"join"}, "CommitJoin")
    BY <1>2 DEF CommitJoin
  <2>2. /\ KeysTypeOK /\ h \in Handler /\ h.pc = "CommitJoin" /\ HandlerOK(h) /\ HandlerTrue(h)
        /\ h.op = "join" /\ Exact
    BY <2>1, RunFacts
  <2>3. h.c \in Codes
    BY <2>2, LocatedFacts DEF Located, Pcs
  <2>4. meta' = [meta EXCEPT ![h.c].count = Plus(h.m.count, 1)]
    BY <1>2 DEF CommitJoin, AddParticipant
  <2>5. /\ meta[h.c].code /\ h.m.count = meta[h.c].count /\ meta[h.c].count < RoomMax
        /\ meta[h.c].count = Cardinality(In(parts[h.c])) /\ In(parts[h.c]) \in SUBSET Sessions
    BY <2>2, <2>3 DEF HandlerTrue, Entering, Exact, RoomsAccountedFor, Present, In
  <2>6. meta[h.c].count \in Nat
    BY <2>5, Counted
  <2>7. Plus(h.m.count, 1) <= RoomMax
    BY <2>5, <2>6, RoomMaxAssumption DEF Plus, NaN
  <2>8. /\ meta'[h.c].count <= RoomMax /\ meta'[h.c].owner = meta[h.c].owner
        /\ \A d \in Codes : d # h.c => meta'[d] = meta[d]
    BY <2>2, <2>3, <2>4, <2>7 DEF KeysTypeOK, Room
  <2> QED
    BY <2>8 DEF WithinLimit, HandedOver
<1>3. CASE CommitLeave(k)
  <2>1. At(k, Leaving, "CommitLeave")
    BY <1>3 DEF CommitLeave
  <2>2. /\ KeysTypeOK /\ Exact /\ h \in Handler /\ h.s \in Sessions /\ h.op \in Leaving
        /\ h.pc = "CommitLeave" /\ HandlerOK(h) /\ HandlerTrue(h)
    BY <2>1, RunFacts
  <2>3. h.c \in Codes /\ sess[h.s].room = h.c /\ parts[h.c][h.s] # Nil
    BY <2>2, InRoomFacts DEF Located, Pcs, Leaving
  <2>4. h.old = parts[h.c][h.s].name /\ h.m.count = meta[h.c].count - 1
    BY <2>2 DEF HandlerTrue, Departing, Leaving
  <2>5. \/ h.o = Nil /\ h.np = Nil /\ (h.m.count = 0 \/ meta[h.c].owner # h.s)
        \/ /\ h.m.count # 0 /\ meta[h.c].owner = h.s
           /\ Heir(h.c, h.s, h.o) /\ h.np = parts[h.c][h.o]
    BY <2>2 DEF HandlerTrue, Departing, Leaving
  <2>6. meta[h.c].count \in Nat \ {0} /\ meta[h.c].code
    BY <2>2, <2>3, MemberFacts
  <2>7. CASE h.m.count = 0
    <3>1. meta' = [meta EXCEPT ![h.c] = NoRoom]
      BY <1>3, <2>7 DEF CommitLeave, DeleteRoom
    <3>2. ~ meta'[h.c].code /\ \A d \in Codes : d # h.c => meta'[d] = meta[d]
      BY <2>2, <2>3, <3>1 DEF KeysTypeOK, NoRoom
    <3> QED
      BY <3>2 DEF WithinLimit, HandedOver
  <2>8. CASE h.m.count # 0
    <3>1. /\ meta' = [meta EXCEPT ![h.c] = Continued(meta[h.c], h.m.count, h.o, h.np)]
          /\ parts' = [parts EXCEPT ![h.c][h.s] = Nil]
      BY <1>3, <2>8 DEF CommitLeave, RemoveParticipant
    <3>2. /\ meta'[h.c] = Continued(meta[h.c], h.m.count, h.o, h.np)
          /\ \A d \in Codes : d # h.c => meta'[d] = meta[d]
          /\ parts'[h.c][h.s] = Nil
      BY <2>2, <2>3, <3>1 DEF KeysTypeOK
    <3>3. /\ meta'[h.c].count = h.m.count
          /\ meta'[h.c].owner = IF h.o = Nil THEN meta[h.c].owner ELSE h.o
      BY <2>2, <2>3, <3>2 DEF KeysTypeOK, Room, Continued
    <3>4. meta'[h.c].count <= RoomMax
      BY <2>3, <2>4, <2>6, <3>3, RoomMaxAssumption DEF WithinLimit
    <3>5. \/ meta'[h.c].owner = meta[h.c].owner
          \/ meta[h.c].owner = h.s /\ Heir(h.c, h.s, meta'[h.c].owner)
      BY <2>5, <2>8, <3>3
    <3> QED
      BY <3>2, <3>4, <3>5 DEF WithinLimit, HandedOver
  <2> QED
    BY <2>7, <2>8
<1>4. CASE CommitOwner(k)
  <2>1. At(k, {"take"}, "CommitOwner")
    BY <1>4 DEF CommitOwner
  <2>2. /\ KeysTypeOK /\ Exact /\ h \in Handler /\ h.op = "take" /\ h.pc = "CommitOwner"
        /\ HandlerOK(h) /\ HandlerTrue(h)
    BY <2>1, RunFacts
  <2>3. h.c \in Codes /\ parts[h.c][h.s] # Nil
    BY <2>2, InRoomFacts DEF Located, Pcs, Leaving
  <2>4. /\ meta' = [meta EXCEPT ![h.c] = [@ EXCEPT !.owner = h.s, !.avatar = h.a]]
        /\ parts' = parts
    BY <1>4 DEF CommitOwner, WriteOwner
  <2>5. meta[h.c].takeover
    BY <2>2 DEF HandlerTrue, Taking, Leaving
  <2>6. /\ meta'[h.c].owner = h.s /\ meta'[h.c].count = meta[h.c].count
        /\ meta'[h.c].code = meta[h.c].code /\ meta'[h.c].takeover = meta[h.c].takeover
        /\ \A d \in Codes : d # h.c => meta'[d] = meta[d]
    BY <2>2, <2>3, <2>4 DEF KeysTypeOK, Room
  <2> QED
    BY <2>3, <2>4, <2>5, <2>6 DEF WithinLimit, HandedOver
<1>5. CASE CommitSettings(k) \/ CommitOwnerAvatar(k)
  <2>1. PICK r \in Codes, b \in BOOLEAN, a \in Avatars \cup {Nil} :
          WriteTakeover(r, b) \/ WriteOwnerAvatar(r, a)
    <3>1. At(k, {"settings"}, "CommitSettings") \/ At(k, {"avatar"}, "CommitOwnerAvatar")
      BY <1>5 DEF CommitSettings, CommitOwnerAvatar
    <3>2. h \in Handler /\ HandlerOK(h) /\ h.pc \in {"CommitSettings", "CommitOwnerAvatar"}
      BY <3>1, RunFacts
    <3>3. h.c \in Codes /\ h.b \in BOOLEAN /\ h.a \in Avatars \cup {Nil}
      BY <3>2, LocatedFacts DEF Located, Pcs, Handler
    <3>4. WriteTakeover(h.c, h.b) \/ WriteOwnerAvatar(h.c, h.a)
      BY <1>5 DEF CommitSettings, CommitOwnerAvatar
    <3> QED
      BY <3>3, <3>4
  <2>2. \A d \in Codes : /\ meta'[d].owner = meta[d].owner /\ meta'[d].code = meta[d].code
                         /\ meta'[d].count = meta[d].count
    <3>1. \A d \in Codes : meta[d] \in Room
      BY DEF TypeOK, KeysTypeOK
    <3>2. CASE WriteTakeover(r, b)
      BY <3>1, <3>2 DEF WriteTakeover, TypeOK, KeysTypeOK, Room
    <3>3. CASE WriteOwnerAvatar(r, a)
      BY <3>1, <3>3 DEF WriteOwnerAvatar, TypeOK, KeysTypeOK, Room
    <3> QED
      BY <2>1, <3>2, <3>3
  <2> QED
    BY <2>2 DEF WithinLimit, HandedOver
<1>6. CASE \/ CommitRename(k) \/ CommitState(k) \/ CommitSessionAvatar(k)
           \/ CommitParticipantAvatar(k)
  <2>1. meta' = meta
    BY <1>6 DEF CommitRename, CommitState, CommitSessionAvatar, CommitParticipantAvatar,
       WriteName, WriteState, WriteSessionAvatar, WriteParticipant
  <2> QED
    BY <2>1 DEF WithinLimit, HandedOver
<1> QED
  BY <1>1, <1>2, <1>3, <1>4, <1>5, <1>6

\* Every step keeps the limit, and hands rooms over only so.
LEMMA StepWritten ==
  ASSUME TypeOK, SerialInv, WithinLimit, [Next]_vars
  PROVE  WithinLimit' /\ HandedOver
<1>1. CASE meta' = meta
  BY <1>1 DEF WithinLimit, HandedOver
<1>2. ASSUME NEW s \in Sessions,
             \/ \E n \in Names : handleHello(s, n)
             \/ RequestCreate(s) \/ RequestJoin(s) \/ RequestRename(s)
             \/ RequestSettings(s) \/ RequestAvatar(s) \/ RequestPlain(s)
             \/ Close(s)
      PROVE  meta' = meta
  BY <1>2 DEF handleHello, RequestCreate, RequestJoin, RequestRename, RequestSettings,
     RequestAvatar, RequestPlain, Request, Close, keys
<1>3. ASSUME NEW k \in 1..MaxInFlight, Resume(k) PROVE WithinLimit' /\ HandedOver
  <2>1. CASE \/ CommitCreate(k) \/ CommitJoin(k) \/ CommitLeave(k)
             \/ CommitRename(k) \/ CommitOwner(k) \/ CommitSettings(k) \/ CommitState(k)
             \/ CommitSessionAvatar(k) \/ CommitParticipantAvatar(k) \/ CommitOwnerAvatar(k)
    BY <2>1, RoomsWritten
  <2>2. CASE \/ Refuse(k) \/ Broadcast(k) \/ SnapState(k)
             \/ EnsureNotInRoom(k) \/ PickCode(k)
             \/ JoinReadRoom(k) \/ JoinReadHolder(k)
             \/ SnapRoom(k) \/ SnapOrder(k) \/ SnapParticipants(k)
             \/ RequireSession(k)
             \/ LeaveReadParticipant(k) \/ LeaveReadRoom(k) \/ LeaveReadOrder(k)
             \/ LeaveReadKeys(k) \/ LeaveReadNewOwner(k)
             \/ RenameReadHolder(k) \/ RenameReadParticipant(k)
             \/ TakeReadRoom(k) \/ TakeReadAvatar(k)
             \/ SettingsReadRoom(k) \/ ParamsReadRoom(k)
             \/ AvatarReadParticipant(k) \/ AvatarReadRoom(k)
    <3>1. UNCHANGED keys
      BY <2>2 DEF Refuse, Broadcast, SnapState, EnsureNotInRoom, PickCode, JoinReadRoom,
         JoinReadHolder, SnapRoom, SnapOrder, SnapParticipants, RequireSession,
         LeaveReadParticipant, LeaveReadRoom, LeaveReadOrder, LeaveReadKeys,
         LeaveReadNewOwner, RenameReadHolder, RenameReadParticipant, TakeReadRoom,
         TakeReadAvatar, SettingsReadRoom, ParamsReadRoom, AvatarReadParticipant, AvatarReadRoom
    <3> QED
      BY <1>1, <3>1 DEF keys
  <2> QED
    BY <1>3, <2>1, <2>2 DEF Resume
<1> QED
  BY <1>1, <1>2, <1>3 DEF Next, Stop, keys, vars

\* While handlers do not overlap, no room ever holds more participants than
\* joinRoom lets in ("Up to 8 people per room").
THEOREM RoomsStayWithinLimit == MaxInFlight = 1 => (Spec => []RoomCapacity)
<1> SUFFICES ASSUME MaxInFlight = 1 PROVE Spec => []RoomCapacity
  OBVIOUS
<1>1. Init => WithinLimit
  BY DEF Init, NoKeys, NoRoom, WithinLimit
<1>2. TypeOK /\ SerialInv /\ WithinLimit /\ [Next]_vars => WithinLimit'
  BY StepWritten
<1>3. SerialInv /\ WithinLimit => RoomCapacity
  <2> SUFFICES ASSUME SerialInv, WithinLimit, NEW c \in Codes PROVE Cardinality(Present(c)) <= RoomMax
    BY DEF RoomCapacity
  <2>1. CASE meta[c].code
    BY <2>1 DEF SerialInv, Exact, RoomsAccountedFor, WithinLimit
  <2>2. CASE ~ meta[c].code
    <3>1. Present(c) = {}
      BY <2>2 DEF SerialInv, Exact, NothingLeftBehind
    <3> QED
      BY <3>1, FS_EmptySet, RoomMaxAssumption
  <2> QED
    BY <2>1, <2>2
<1> QED
  BY <1>1, <1>2, <1>3, AlwaysSerial, PTL DEF Spec

\* While handlers do not overlap, a room that goes on passes only to a member
\* who has been there longest, when its owner leaves (leaveRoom), or to a member
\* that takes it while the room allows that (takeOwner).
THEOREM RoomsChangeHandsOnlySo == MaxInFlight = 1 => (Spec => [][HandedOver]_vars)
<1> SUFFICES ASSUME MaxInFlight = 1 PROVE Spec => [][HandedOver]_vars
  OBVIOUS
<1>1. Init => WithinLimit
  BY DEF Init, NoKeys, NoRoom, WithinLimit
<1>2. TypeOK /\ SerialInv /\ WithinLimit /\ [Next]_vars => WithinLimit' /\ [HandedOver]_vars
  BY StepWritten
<1> QED
  BY <1>1, <1>2, AlwaysSerial, PTL DEF Spec
=============================================================================
