---------------------------- MODULE MCCastRooms ----------------------------
(* CastRooms for TLC: the clients are alike. *)
EXTENDS CastRooms, TLC

Symmetry == Permutations(Clients)
=============================================================================
