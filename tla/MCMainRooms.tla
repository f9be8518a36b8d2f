---------------------------- MODULE MCMainRooms ----------------------------
(* MainRooms for TLC: the players that are not moderators are interchangeable. *)
EXTENDS MainRooms, TLC

Symmetry == Permutations(Players \ Mods)

============================================================================
