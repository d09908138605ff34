----------------------------- MODULE RoomParams -----------------------------
(* The parameters of the room service and what is assumed of them. *)
EXTENDS Integers, FiniteSets

CONSTANTS
  Sessions,        \* session ids, one per completed hello handshake
  Codes,           \* room codes
  Names,           \* display names
  LowerCase,       \* displayName.toLowerCase()
  RoomMax,         \* ROOM_MAX_PARTICIPANTS
  DefaultTakeover, \* createDefaultRoomSettings().instantOwnerTakeoverEnabled
  Nil

ASSUME SessionsAssumption  == IsFiniteSet(Sessions) /\ Nil \notin Sessions
ASSUME CodesAssumption     == Nil \notin Codes
ASSUME NamesAssumption     == Nil \notin Names
ASSUME LowerCaseAssumption == LowerCase \in [Names -> Names]
ASSUME RoomMaxAssumption   == RoomMax \in Nat \ {0}
ASSUME TakeoverAssumption  == DefaultTakeover \in BOOLEAN
=============================================================================
