--------------------------- MODULE RoomDirectory ---------------------------
(***************************************************************************)
(* What the rooms of the main server promise to the rest of the system: a  *)
(* directory of numbered rooms.  Numbers are handed out in increasing      *)
(* order and never twice, so that a number a client, the cast server or a  *)
(* session still holds cannot come to mean another room; a player is in at *)
(* most one room and enters one only from outside all of them.             *)
(***************************************************************************)
EXTENDS Naturals

CONSTANTS Players, Rooms

VARIABLES
  dir,   \* room number -> players inside, for the rooms that are open
  last   \* the last number handed out

vars == <<dir, last>>

Inside == UNION {dir[r] : r \in DOMAIN dir}

\* A new room with p in it
Open(p) ==
  /\ p \notin Inside
  /\ last + 1 \in Rooms \ DOMAIN dir
  /\ last' = last + 1
  /\ dir' = [r \in DOMAIN dir \cup {last + 1} |-> IF r = last + 1 THEN {p} ELSE dir[r]]

\* A number is used up without a room: there were too many.
Discard ==
  /\ last + 1 \in Rooms
  /\ last' = last + 1
  /\ UNCHANGED dir

Enter(p, r) ==
  /\ p \notin Inside
  /\ dir' = [dir EXCEPT ![r] = @ \cup {p}]
  /\ UNCHANGED last

Exit(p, r) ==
  /\ p \in dir[r]
  /\ dir' = [dir EXCEPT ![r] = @ \ {p}]
  /\ UNCHANGED last

Close(r) ==
  /\ dir' = [x \in DOMAIN dir \ {r} |-> dir[x]]
  /\ UNCHANGED last

Init == dir = << >> /\ last = 0

Next ==
  \/ Discard
  \/ \E p \in Players : Open(p)
  \/ \E r \in DOMAIN dir : Close(r) \/ \E p \in Players : Enter(p, r) \/ Exit(p, r)

Spec == Init /\ [][Next]_vars

============================================================================
