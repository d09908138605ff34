----------------------------- MODULE ClientView -----------------------------
(***************************************************************************)
(* The room as one desktop client shows it: the part of RendererAppState   *)
(* (app-state.ts) that room events change, and the functions that apply    *)
(* each event.  The participant list is a function: its order is layout.   *)
(***************************************************************************)
CONSTANTS Sessions, Codes, Names, Avatars, DefaultTakeover, Nil

\* What a client knows outside a room (clearRoomState).
NoView == [room |-> Nil, owner |-> Nil, list |-> [s \in Sessions |-> Nil],
           takeover |-> DefaultTakeover, avatar |-> Nil]

View == [room : Codes \cup {Nil}, owner : Sessions \cup {Nil},
         list : [Sessions -> [name : Names, avatar : Avatars \cup {Nil}] \cup {Nil}],
         takeover : BOOLEAN, avatar : Avatars \cup {Nil}]

\* A broadcast event about session s in room c; x is the session it skips.
Message == [type : {"joined", "left", "name", "owner", "settings", "avatar", "params"},
            c : Codes \cup {Nil}, s : Sessions, n : Names \cup {Nil},
            a : Avatars \cup {Nil}, b : BOOLEAN, x : Sessions \cup {Nil}]

applyRoomJoined(c, owner, list, takeover, avatar) ==
  [room |-> c, owner |-> owner, list |-> list, takeover |-> takeover, avatar |-> avatar]

applyParticipantJoined(v, m) ==
  IF m.c # v.room THEN v
  ELSE [v EXCEPT !.list[m.s] = [name |-> m.n, avatar |-> m.a]]

\* The client's own departure clears its room before the codes are compared.
applyParticipantLeft(self, v, m) ==
  IF m.s = self THEN NoView
  ELSE IF m.c # v.room THEN v
  ELSE [v EXCEPT !.list[m.s] = Nil]

applyDisplayNameUpdated(v, m) ==
  IF m.c # v.room \/ v.list[m.s] = Nil THEN v
  ELSE [v EXCEPT !.list[m.s].name = m.n]

\* The owner's avatar is taken from the client's own participant list.
applyOwnerChanged(v, m) ==
  IF m.c # v.room THEN v
  ELSE [v EXCEPT !.owner = m.s,
                 !.avatar = IF v.list[m.s] = Nil THEN Nil ELSE v.list[m.s].avatar]

applyRoomSettingsUpdated(v, m) ==
  IF m.c # v.room THEN v ELSE [v EXCEPT !.takeover = m.b]

\* Applied whatever room the event is about.
applyAvatarIdUpdated(v, m) ==
  IF v.room = Nil THEN v
  ELSE [v EXCEPT !.list[m.s]  = IF @ = Nil THEN Nil ELSE [@ EXCEPT !.avatar = m.a],
                 !.avatar     = IF m.s = v.owner THEN m.a ELSE @]

\* What the view of client self becomes when event m arrives (handleMessage).
Applied(self, v, m) ==
  CASE m.type = "joined"   -> applyParticipantJoined(v, m)
    [] m.type = "left"     -> applyParticipantLeft(self, v, m)
    [] m.type = "name"     -> applyDisplayNameUpdated(v, m)
    [] m.type = "owner"    -> applyOwnerChanged(v, m)
    [] m.type = "settings" -> applyRoomSettingsUpdated(v, m)
    [] m.type = "avatar"   -> applyAvatarIdUpdated(v, m)
    [] OTHER               -> v
=============================================================================
