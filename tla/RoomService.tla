----------------------------- MODULE RoomService -----------------------------
(***************************************************************************)
(* What RoomServer guarantees.  While handlers do not overlap              *)
(* (MaxInFlight = 1) the keys describe the rooms exactly, every client     *)
(* shows its room as it is, and RoomServer implements Rooms.  Under any    *)
(* overlap only OrderedArePresent and ClientKnowsItsRoom remain; the last  *)
(* section states promises of the documents that overlap breaks.           *)
(***************************************************************************)
EXTENDS RoomServer

-----------------------------------------------------------------------------
(* Without overlap.                                                        *)

\* participantCount and the join order describe the participants of every
\* room that exists (createRoom, joinRoom, leaveRoom).
RoomsAccountedFor ==
  \A c \in Codes : meta[c].code =>
    /\ meta[c].count = Cardinality(Present(c))
    /\ meta[c].owner \in Present(c)
    /\ \A s \in Sessions : order[c][s] # 0 <=> s \in Present(c)

\* A room that does not exist has no key left: leaveRoom deletes them all.
NothingLeftBehind ==
  \A c \in Codes : ~ meta[c].code =>
    /\ meta[c] = NoRoom
    /\ Present(c) = {}
    /\ state[c] = Nil
    /\ \A s \in Sessions : order[c][s] = 0
    /\ \A k \in Names : names[c][k] = Nil

\* A display key exists for exactly the lower-case names of the participants
\* and leads to the participant who has it (joinRoom, updateDisplayName).
NameKeysExact ==
  \A c \in Codes, k \in Names, s \in Sessions :
    names[c][k] = s <=> s \in Present(c) /\ LowerCase[parts[c][s].name] = k

\* A session hash names the one room the session is a participant of.
SessionsMatchSeats ==
  \A s \in Sessions, c \in Codes : sess[s].room = c <=> s \in Present(c)

\* When no handler runs, the participants are the sessions whose open socket
\* is in the room: nobody is left behind by a closed connection.
SeatsHaveSockets ==
  Quiet => \A s \in Sessions, c \in Codes :
             s \in Present(c) <=> s \in open /\ wsRoom[s] = c

\* When no handler runs, the three copies of a connected member's avatar id agree.
AvatarsAgree ==
  Quiet => \A c \in Codes : \A s \in Present(c) \cap open :
             /\ parts[c][s].avatar = sess[s].avatar
             /\ meta[c].owner = s => meta[c].avatar = sess[s].avatar

\* The room as it is, in the form a client keeps.
ActualView(s) ==
  LET c == sess[s].room
  IN IF c = Nil THEN NoView
     ELSE applyRoomJoined(c, meta[c].owner, parts[c], meta[c].takeover, meta[c].avatar)

\* When no handler runs, every client shows its room as it is: the snapshot
\* it joined with and the events broadcast since add up to the current state.
ViewsConverge == Quiet => \A s \in open : view[s] = ActualView(s)

\* A closed socket's session is eventually out of every room (handleDisconnect).
DisconnectedLeave ==
  \A s \in Sessions : s \notin open ~> \A c \in Codes : parts[c][s] = Nil

\* The rooms of the abstract specification, read off the keys.
Abs == INSTANCE Rooms WITH
  room     <- [s \in Sessions |-> sess[s].room],
  name     <- [s \in Sessions |-> IF sess[s].room = Nil THEN Nil
                                  ELSE parts[sess[s].room][s].name],
  since    <- [s \in Sessions |-> IF sess[s].room = Nil THEN 0
                                  ELSE order[sess[s].room][s]],
  owner    <- [c \in Codes |-> meta[c].owner],
  takeover <- [c \in Codes |-> IF meta[c].code THEN meta[c].takeover ELSE DefaultTakeover]

\* Each command of a handler is a step of Rooms or leaves its rooms as they are.
ImplementsRooms == Abs!Spec

-----------------------------------------------------------------------------
(* Under any overlap.                                                      *)

\* Every session in a join order is a participant, so leaveRoom's promotion
\* and buildRoomJoinedPayload never meet an entry of a member who has left.
OrderedArePresent ==
  \A c \in Codes, s \in Sessions : order[c][s] # 0 => s \in Present(c)

\* The client of an open socket shows the very room ws.data.roomCode says it
\* is in, so tracking and t-pose batches go to the room the client shows.
ClientKnowsItsRoom == \A s \in open : view[s].room = wsRoom[s]

-----------------------------------------------------------------------------
(* Promises of the documents that overlapping handlers break.              *)

\* "Up to 8 people per room" (joinRoom reads the count and writes it later).
RoomCapacity == \A c \in Codes : Cardinality(Present(c)) <= RoomMax
=============================================================================
