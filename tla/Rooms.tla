------------------------------- MODULE Rooms -------------------------------
(***************************************************************************)
(* What the room service promises, independently of how it stores rooms:   *)
(* a room is a set of members with distinct display names, one of whom     *)
(* owns it; it exists exactly while it has members.  Every operation is    *)
(* one atomic step.  RoomServer, which performs the same operations as     *)
(* sequences of Redis commands, implements this module when its handlers   *)
(* do not overlap (RoomService, ImplementsRooms).                          *)
(***************************************************************************)
EXTENDS RoomParams

VARIABLES
  room,      \* room[s]: the code of the room s is in, or Nil
  name,      \* name[s]: the display name of member s, or Nil outside rooms
  since,     \* since[s]: when member s joined, 0 outside rooms
  owner,     \* owner[c]: the session that owns room c, or Nil if there is no room
  takeover   \* takeover[c]: whether any member may take ownership

vars == <<room, name, since, owner, takeover>>

Members(c) == {s \in Sessions : room[s] = c}

\* The names in use in room c, compared without regard to case.
Taken(c, n) == \E s \in Members(c) : LowerCase[name[s]] = LowerCase[n]

TypeOK ==
  /\ room \in [Sessions -> Codes \cup {Nil}]
  /\ name \in [Sessions -> Names \cup {Nil}]
  /\ since \in [Sessions -> Nat]
  /\ owner \in [Codes -> Sessions \cup {Nil}]
  /\ takeover \in [Codes -> BOOLEAN]
  /\ \A s \in Sessions : room[s] = Nil <=> name[s] = Nil

Init ==
  /\ room = [s \in Sessions |-> Nil]
  /\ name = [s \in Sessions |-> Nil]
  /\ since = [s \in Sessions |-> 0]
  /\ owner = [c \in Codes |-> Nil]
  /\ takeover = [c \in Codes |-> DefaultTakeover]

-----------------------------------------------------------------------------

Enter(s, c, n) ==
  /\ room' = [room EXCEPT ![s] = c]
  /\ name' = [name EXCEPT ![s] = n]
  /\ since'[s] \in Nat /\ since' = [since EXCEPT ![s] = since'[s]]
  /\ \A m \in Members(c) : since[m] <= since'[s]

\* createRoom: a session outside every room founds a room and owns it.
Create(s, c, n, instant) ==
  /\ room[s] = Nil
  /\ owner[c] = Nil
  /\ Enter(s, c, n)
  /\ owner' = [owner EXCEPT ![c] = s]
  /\ takeover' = [takeover EXCEPT ![c] = instant]

\* joinRoom: a session outside every room enters an existing one that has a
\* free place and in which nobody uses its name.
Join(s, c, n) ==
  /\ room[s] = Nil
  /\ owner[c] # Nil
  /\ Cardinality(Members(c)) < RoomMax
  /\ ~ Taken(c, n)
  /\ Enter(s, c, n)
  /\ UNCHANGED <<owner, takeover>>

Oldest(c, S, o) == o \in S /\ \A m \in S : since[o] <= since[m]

\* leaveRoom: the last member's departure ends the room; an owner's departure
\* hands the room to a member who has been in it longest.
Leave(s) ==
  /\ room[s] # Nil
  /\ room' = [room EXCEPT ![s] = Nil]
  /\ name' = [name EXCEPT ![s] = Nil]
  /\ since' = [since EXCEPT ![s] = 0]
  /\ LET c    == room[s]
         rest == Members(c) \ {s}
     IN \/ /\ rest = {}
           /\ owner' = [owner EXCEPT ![c] = Nil]
           /\ takeover' = [takeover EXCEPT ![c] = DefaultTakeover]
        \/ /\ rest # {}
           /\ owner[c] # s
           /\ UNCHANGED <<owner, takeover>>
        \/ /\ owner[c] = s
           /\ \E o \in rest : /\ Oldest(c, rest, o)
                              /\ owner' = [owner EXCEPT ![c] = o]
           /\ UNCHANGED takeover

\* updateDisplayName: a member takes a name no other member uses.
Rename(s, n) ==
  /\ room[s] # Nil
  /\ \A m \in Members(room[s]) \ {s} : LowerCase[name[m]] # LowerCase[n]
  /\ name' = [name EXCEPT ![s] = n]
  /\ UNCHANGED <<room, since, owner, takeover>>

\* takeOwner: any member becomes the owner, where the room allows it.
TakeOwner(s) ==
  /\ room[s] # Nil
  /\ takeover[room[s]]
  /\ owner' = [owner EXCEPT ![room[s]] = s]
  /\ UNCHANGED <<room, name, since, takeover>>

\* updateRoomSettings: the owner decides whether takeover is allowed.
SetTakeover(s, instant) ==
  /\ room[s] # Nil
  /\ owner[room[s]] = s
  /\ takeover' = [takeover EXCEPT ![room[s]] = instant]
  /\ UNCHANGED <<room, name, since, owner>>

Next ==
  \E s \in Sessions :
    \/ \E c \in Codes, n \in Names, b \in BOOLEAN : Create(s, c, n, b)
    \/ \E c \in Codes, n \in Names : Join(s, c, n)
    \/ Leave(s)
    \/ \E n \in Names : Rename(s, n)
    \/ TakeOwner(s)
    \/ \E b \in BOOLEAN : SetTakeover(s, b)

Spec == Init /\ [][Next]_vars

-----------------------------------------------------------------------------

\* A room has an owner exactly while it has members, and the owner is one of
\* them (leaveRoom's deletion and promotion branches, takeOwner).
OwnerIsMember ==
  \A c \in Codes : /\ owner[c] = Nil => Members(c) = {}
                   /\ owner[c] # Nil => owner[c] \in Members(c)

\* No two members of a room have names that differ only in case (the display
\* key of joinRoom and updateDisplayName).
NamesDistinct ==
  \A s, t \in Sessions :
    (s # t /\ room[s] # Nil /\ room[s] = room[t]) => LowerCase[name[s]] # LowerCase[name[t]]

\* No room ever holds more than ROOM_MAX_PARTICIPANTS members (joinRoom).
Capacity == \A c \in Codes : Cardinality(Members(c)) <= RoomMax

\* Ownership of a room that goes on passes only to a member who has been
\* there longest, when the owner leaves (leaveRoom), or to the session that
\* took it, while takeover was allowed (takeOwner).
OwnershipPasses ==
  [][\A c \in Codes :
       (owner[c] # Nil /\ owner'[c] # Nil /\ owner'[c] # owner[c]) =>
          \/ /\ room'[owner[c]] # c
             /\ Oldest(c, Members(c) \ {owner[c]}, owner'[c])
          \/ takeover[c] /\ room' = room]_vars
=============================================================================
