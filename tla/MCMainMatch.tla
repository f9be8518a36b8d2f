---------------------------- MODULE MCMainMatch ----------------------------
(* MainMatch for TLC: the players that are not moderators are interchangeable. *)
EXTENDS MainMatch, TLC

\* Bounds of the run: everybody is connected before the room is created, a lost connection is
\* for good, and observers are admitted.
ConnectedFirst ==
  /\ idCounter' # idCounter => online = Players
  /\ online' \subseteq online \/ idCounter = 0
  /\ \A r \in DOMAIN rooms' : rooms'[r].obsOn

Symmetry == Permutations(Players \ Mods)

============================================================================
