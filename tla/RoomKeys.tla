------------------------------ MODULE RoomKeys ------------------------------
(***************************************************************************)
(* The room service's Redis keys (redis-client.ts) and the writes the room *)
(* manager makes to them.  Redis runs one command, or one MULTI block, at a *)
(* time, so every write here is one atomic step.  A hash that does not     *)
(* exist reads as a hash without fields; hSet on a missing key creates it. *)
(***************************************************************************)
EXTENDS RoomParams

CONSTANTS
  Avatars,  \* avatar ids
  MaxNow    \* bound on Date.now(): later joins share the last millisecond

ASSUME AvatarsAssumption == Nil \notin Avatars
ASSUME MaxNowAssumption  == MaxNow \in Nat \ {0}

VARIABLES
  meta,    \* meta[c]: hash room:c
  parts,   \* parts[c][s]: field s of hash room:c:participants
  order,   \* order[c][s]: score of s in sorted set room:c:join-order, 0 if absent
  names,   \* names[c][k]: string room:c:display:k
  state,   \* state[c]: hash room:c:state, as the session that last wrote it
  sess,    \* sess[s]: hash session:s
  now      \* Date.now()

keys == <<meta, parts, order, names, state, sess, now>>

\* participantCount: 0 stands for a missing field; NaN is what parseInt makes of
\* a missing or unreadable one, and what arithmetic on it then writes.
NaN == -1

Plus(count, d) == IF count <= 0 THEN NaN ELSE count + d

Participant == [name : Names, avatar : Avatars \cup {Nil}]
Room    == [code : BOOLEAN, owner : Sessions \cup {Nil}, count : Int,
            takeover : BOOLEAN, avatar : Avatars \cup {Nil}]
Session == [room : Codes \cup {Nil}, avatar : Avatars \cup {Nil}]

ASSUME ParticipantAssumption == Nil \notin Participant

NoRoom    == [code |-> FALSE, owner |-> Nil, count |-> 0, takeover |-> FALSE, avatar |-> Nil]
NoSession == [room |-> Nil, avatar |-> Nil]
NoParts   == [s \in Sessions |-> Nil]
NoOrder   == [s \in Sessions |-> 0]

KeysTypeOK ==
  /\ meta \in [Codes -> Room]
  /\ parts \in [Codes -> [Sessions -> Participant \cup {Nil}]]
  /\ order \in [Codes -> [Sessions -> Nat]]
  /\ names \in [Codes -> [Names -> Sessions \cup {Nil}]]
  /\ state \in [Codes -> Sessions \cup {Nil}]
  /\ sess \in [Sessions -> Session]
  /\ now \in 1..MaxNow

NoKeys ==
  /\ meta = [c \in Codes |-> NoRoom]
  /\ parts = [c \in Codes |-> NoParts]
  /\ order = [c \in Codes |-> NoOrder]
  /\ names = [c \in Codes |-> [k \in Names |-> Nil]]
  /\ state = [c \in Codes |-> Nil]
  /\ sess = [s \in Sessions |-> NoSession]
  /\ now = 1

Present(c) == {s \in Sessions : parts[c][s] # Nil}

-----------------------------------------------------------------------------
(* The MULTI blocks and single writes of room-manager.ts.                  *)

\* The fields createRoom and joinRoom write alike: the participant without an
\* avatar, its place in the join order, its name and its session.
Seat(s, n, c) ==
  /\ parts' = [parts EXCEPT ![c][s] = [name |-> n, avatar |-> Nil]]
  /\ now' \in {now, now + 1} \cap (1..MaxNow)
  /\ order' = [order EXCEPT ![c][s] = now']
  /\ names' = [names EXCEPT ![c][LowerCase[n]] = s]
  /\ sess' = [sess EXCEPT ![s].room = c]
  /\ UNCHANGED state

AddRoom(s, n, c, instant) ==
  /\ Seat(s, n, c)
  /\ meta' = [meta EXCEPT ![c] = [code |-> TRUE, owner |-> s, count |-> 1,
                                  takeover |-> instant, avatar |-> Nil]]

AddParticipantUncounted(s, n, c, count) ==
  /\ Seat(s, n, c)
  /\ UNCHANGED meta

AddParticipant(s, n, c, count) ==
  /\ Seat(s, n, c)
  /\ meta' = [meta EXCEPT ![c].count = Plus(count, 1)]

DeleteRoomKeepingState(s, n, c) ==
  /\ meta' = [meta EXCEPT ![c] = NoRoom]
  /\ parts' = [parts EXCEPT ![c] = NoParts]
  /\ order' = [order EXCEPT ![c] = NoOrder]
  /\ names' = [names EXCEPT ![c][LowerCase[n]] = Nil]
  /\ sess' = [sess EXCEPT ![s] = NoSession]
  /\ UNCHANGED <<state, now>>

\* The keys of the room and of the leaving session; of the display names only
\* the leaving session's.
DeleteRoom(s, n, c) ==
  /\ meta' = [meta EXCEPT ![c] = NoRoom]
  /\ parts' = [parts EXCEPT ![c] = NoParts]
  /\ order' = [order EXCEPT ![c] = NoOrder]
  /\ state' = [state EXCEPT ![c] = Nil]
  /\ names' = [names EXCEPT ![c][LowerCase[n]] = Nil]
  /\ sess' = [sess EXCEPT ![s] = NoSession]
  /\ UNCHANGED now

\* A room that goes on with participantCount = left; an owner's departure also
\* hands it to next, with the avatar of p, the participant next if it was found.
Continued(r, left, next, p) ==
  [r EXCEPT !.count  = left,
            !.owner  = IF next = Nil THEN @ ELSE next,
            !.avatar = IF p = Nil THEN @ ELSE p.avatar]

RemoveParticipantButOrder(s, n, c, left, next, p) ==
  /\ parts' = [parts EXCEPT ![c][s] = Nil]
  /\ names' = [names EXCEPT ![c][LowerCase[n]] = Nil]
  /\ sess' = [sess EXCEPT ![s] = NoSession]
  /\ meta' = [meta EXCEPT ![c] = Continued(@, left, next, p)]
  /\ UNCHANGED <<order, state, now>>

RemoveParticipantButSession(s, n, c, left, next, p) ==
  /\ parts' = [parts EXCEPT ![c][s] = Nil]
  /\ order' = [order EXCEPT ![c][s] = 0]
  /\ names' = [names EXCEPT ![c][LowerCase[n]] = Nil]
  /\ meta' = [meta EXCEPT ![c] = Continued(@, left, next, p)]
  /\ UNCHANGED <<state, sess, now>>

\* A participant, with everything keyed by it, out of a room that goes on.
RemoveParticipant(s, n, c, left, next, p) ==
  /\ parts' = [parts EXCEPT ![c][s] = Nil]
  /\ order' = [order EXCEPT ![c][s] = 0]
  /\ names' = [names EXCEPT ![c][LowerCase[n]] = Nil]
  /\ sess' = [sess EXCEPT ![s] = NoSession]
  /\ meta' = [meta EXCEPT ![c] = Continued(@, left, next, p)]
  /\ UNCHANGED <<state, now>>

WriteNameSetFirst(s, old, new, c, avatar) ==
  /\ names' = [names EXCEPT ![c][LowerCase[new]] = s, ![c][LowerCase[old]] = Nil]
  /\ parts' = [parts EXCEPT ![c][s] = [name |-> new, avatar |-> avatar]]
  /\ UNCHANGED <<meta, order, state, sess, now>>

\* Deletes the old display key before setting the new one: the two coincide
\* when only the case of the name changes.  The participant is written whole,
\* with the avatar it was read with.
WriteName(s, old, new, c, avatar) ==
  /\ names' = [names EXCEPT ![c][LowerCase[old]] = Nil, ![c][LowerCase[new]] = s]
  /\ parts' = [parts EXCEPT ![c][s] = [name |-> new, avatar |-> avatar]]
  /\ UNCHANGED <<meta, order, state, sess, now>>

WriteOwnerOnly(s, c, avatar) ==
  /\ meta' = [meta EXCEPT ![c].owner = s]
  /\ UNCHANGED <<parts, order, names, state, sess, now>>

WriteOwner(s, c, avatar) ==
  /\ meta' = [meta EXCEPT ![c] = [@ EXCEPT !.owner = s, !.avatar = avatar]]
  /\ UNCHANGED <<parts, order, names, state, sess, now>>

WriteTakeover(c, instant) ==
  /\ meta' = [meta EXCEPT ![c].takeover = instant]
  /\ UNCHANGED <<parts, order, names, state, sess, now>>

WriteState(s, c) ==
  /\ state' = [state EXCEPT ![c] = s]
  /\ UNCHANGED <<meta, parts, order, names, sess, now>>

WriteSessionAvatar(s, avatar) ==
  /\ sess' = [sess EXCEPT ![s].avatar = avatar]
  /\ UNCHANGED <<meta, parts, order, names, state, now>>

WriteParticipant(s, c, n, avatar) ==
  /\ parts' = [parts EXCEPT ![c][s] = [name |-> n, avatar |-> avatar]]
  /\ UNCHANGED <<meta, order, names, state, sess, now>>

WriteOwnerAvatar(c, avatar) ==
  /\ meta' = [meta EXCEPT ![c].avatar = avatar]
  /\ UNCHANGED <<parts, order, names, state, sess, now>>
=============================================================================
