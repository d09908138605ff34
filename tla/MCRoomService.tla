---------------------------- MODULE MCRoomService ----------------------------
(* RoomService for TLC: names of which two differ only in case. *)
EXTENDS RoomService

MCNames      == {"Ann", "ann", "bob", "cho"}
MCTwoNames   == {"ann", "bob"}
MCThreeNames == {"ann", "bob", "cho"}
MCLowerCase  == [n \in Names |-> IF n = "Ann" THEN "ann" ELSE n]
Symmetry     == Permutations(Sessions) \cup Permutations(Codes)
=============================================================================
