----------------------------- MODULE CastRelay -----------------------------
(***************************************************************************)
(* What the cast server does with the packets of a match: every order that *)
(* CastServer registers, dispatched to the way in which it is relayed.     *)
(*                                                                         *)
(* A room's host is a client.  What a player does goes to the host it      *)
(* names in the header, and the host answers to all, or to one player.     *)
(* The server looks up the sender's room in a table, the receivers in the  *)
(* map or the vector of that room, and writes an id into the header of     *)
(* each copy.  Attacks are counted per session id and window of time.      *)
(*                                                                         *)
(* Clients enter and leave rooms as in CastRooms, but no connection is     *)
(* lost inside a room here: what dangling pointers lead to is shown there. *)
(* A client names any session as host: what it knows may be out of date.   *)
(***************************************************************************)
EXTENDS Integers, SequencesExt, FiniteSetsExt, Functions, Vectors

CONSTANTS
  Sessions,        \* ids of sessions
  Attackers,       \* those which send attacks in this model
  Orders,          \* the orders that clients send in this model
  Positions,       \* the positions they send
  MAX_PACKETS,     \* 20
  MAX_EXCEED,      \* 3
  RESET_INTERVAL,  \* 2 seconds
  MaxTime,         \* bound of the model on the clock
  MaxAttacks       \* bound of the model on the attacks

\* How CastServer's constructor registers the orders.
JoinOrder == 140
CreateOrder == 277
LeaveOrder == 279
CrashOrder == 253
MatchEndOrder == 254
MatchLeaveOrder == 256
MatchStartOrder == 258
LoadingOrder == 257
PositionOrder == 281
RespawnOrder == 276
HostAttacks == 266 .. 270                        \* to all, if not too many
PlayerAttacks == {147, 149} \cup 151 .. 154      \* to the host, if not too many
ToAll == {264, 272, 90, 165, 271} \cup 260 .. 263
ToOthers == {94}
ToHost == {79, 155, 156, 166, 96, 102}
ToPlayer == {306, 309, 408}

\* Not modelled, as they change nothing: ping (71), connection (252) and reload (275), which
\* are answered to the sender, and 255 and 284, which are ignored.

Relayed == ToAll \cup ToOthers \cup ToHost \cup ToPlayer \cup {RespawnOrder}

ASSUME ConstantsAssumption ==
  /\ IsFiniteSet(Sessions) /\ Attackers \subseteq Sessions
  /\ {MAX_PACKETS, RESET_INTERVAL} \subseteq Nat \ {0}
  /\ {MAX_EXCEED, MaxTime, MaxAttacks} \subseteq Nat

VARIABLES
  inside,      \* clients that believe they are in a room
  roomOf,      \* m_playerSessionIdToRoom
  rooms,       \* the Rooms that roomOf points to: m_players and m_playersVec
  inMatch,     \* the sessions with m_isInMatch
  limits,      \* rateLimitMap, for the ids that ever attacked
  now,         \* steady_clock
  astray,      \* history: some packet was not written to those it was for, once each
  attacks      \* history: id -> its attacks, each with its time and whether it was relayed

members == <<inside, roomOf, rooms>>
attackVars == <<limits, attacks>>
vars == <<members, inMatch, attackVars, now, astray>>

Room == [players : SUBSET Sessions, vec : Seq(Sessions)]

\* A write of a packet of this order to a session, with an id in the header.
Write(to, order, id) == [to |-> to, order |-> order, id |-> id]

----------------------------------------------------------------------------
(* RoomsManager and Room: who gets a copy *)

\* The vector without a session, wherever it stands.
Without(vec, s) == AtPositions(vec, {i \in DOMAIN vec : vec[i] # s})

RoomMates(s) == IF s \in DOMAIN roomOf THEN {x \in DOMAIN roomOf : roomOf[x] = roomOf[s]} ELSE {}

\* broadcastToRoom: all that the map holds, in the order of the hash table; each copy has
\* its receiver's id.
BroadcastToRoom(s, order) ==
  IF s \notin DOMAIN roomOf THEN << >>
  ELSE LET receivers == SetToSeq(rooms[roomOf[s]].players)
       IN  [i \in DOMAIN receivers |-> Write(receivers[i], order, receivers[i])]

\* broadcastToRoomExceptSelf: all that the vector holds, but the sender.
BroadcastToRoomExceptSelf(s, order) ==
  IF s \notin DOMAIN roomOf THEN << >>
  ELSE LET receivers == Without(rooms[roomOf[s]].vec, s)
       IN  [i \in DOMAIN receivers |-> Write(receivers[i], order, receivers[i])]

\* playerForwardToHost, hostForwardToPlayer: to one session of the sender's room, with the
\* sender's id.
ForwardTo(receiver, s, order) ==
  IF s \in DOMAIN roomOf /\ receiver \in rooms[roomOf[s]].players
  THEN <<Write(receiver, order, s)>> ELSE << >>

\* A handler writes these, in order; from the table alone, its packet was for those.
Writes(writes, due) ==
  astray' = (astray \/ ToSet(writes) # due \/ Len(writes) # Cardinality(due))
WritesToAll(s, order) ==
  Writes(BroadcastToRoom(s, order), {Write(x, order, x) : x \in RoomMates(s)})
WritesToOthers(s, order) ==
  Writes(BroadcastToRoomExceptSelf(s, order), {Write(x, order, x) : x \in RoomMates(s) \ {s}})
WritesTo(receiver, s, order) ==
  Writes(ForwardTo(receiver, s, order),
         {Write(x, order, s) : x \in RoomMates(s) \cap {receiver}})

----------------------------------------------------------------------------
(* Rooms *)

\* A Room lives as long as an entry of the table shares it.
Keeping(table, entries) == Restrict(table, Range(entries))

\* handleRoomCreation: the constructor of Room, RoomsManager::addRoom.
RoomCreation(s) ==
  /\ CreateOrder \in Orders /\ s \notin inside
  /\ LET r == Min({n \in 1 .. Cardinality(Sessions) + 1 : n \notin DOMAIN rooms})
         room == [players |-> {s}, vec |-> <<s>>]
     IN  /\ roomOf' = [x \in DOMAIN roomOf \cup {s} |-> IF x = s THEN r ELSE roomOf[x]]
         /\ rooms' = Keeping([x \in DOMAIN rooms \cup {r} |-> IF x = r THEN room ELSE rooms[x]],
                             roomOf')
  /\ inside' = inside \cup {s}
  /\ UNCHANGED <<inMatch, attackVars, now, astray>>

\* mutant: the vector keeps the player
RemovePlayerFromMap(s) ==
  /\ roomOf' = Restrict(roomOf, DOMAIN roomOf \ {s})
  /\ rooms' = IF s \in DOMAIN roomOf
              THEN Keeping([rooms EXCEPT ![roomOf[s]].players = @ \ {s}], roomOf')
              ELSE rooms
  /\ inMatch' = IF s \in DOMAIN roomOf THEN inMatch \ {s} ELSE inMatch

\* removePlayerFromRoom, Room::removePlayer
RemovePlayerFromRoom(s) ==
  /\ roomOf' = Restrict(roomOf, DOMAIN roomOf \ {s})
  /\ rooms' = IF s \in DOMAIN roomOf
              THEN Keeping([rooms EXCEPT ![roomOf[s]] =
                      [players |-> @.players \ {s}, vec |-> Without(@.vec, s)]],
                      roomOf')
              ELSE rooms
  /\ inMatch' = IF s \in DOMAIN roomOf THEN inMatch \ {s} ELSE inMatch

\* handlePlayerJoinRoom, when the client is outside: switchRoomJoinOrExit, Room::addPlayer.
PlayerJoinRoom(s, host) ==
  /\ JoinOrder \in Orders /\ s \notin inside /\ s # host
  /\ IF host \in DOMAIN roomOf
     THEN /\ roomOf' = [x \in DOMAIN roomOf \cup {s} |-> IF x = s THEN roomOf[host] ELSE roomOf[x]]
          /\ rooms' = [rooms EXCEPT ![roomOf[host]] =
                         [players |-> @.players \cup {s}, vec |-> Append(@.vec, s)]]
     ELSE UNCHANGED <<roomOf, rooms>>
  /\ inside' = inside \cup {s}
  /\ UNCHANGED <<inMatch, attackVars, now, astray>>

\* mutant: the table is not told
LeaveRoomUnheard(s) ==
  /\ LeaveOrder \in Orders /\ s \in inside
  /\ inside' = inside \ {s}
  /\ UNCHANGED <<roomOf, rooms, inMatch, attackVars, now, astray>>

\* handler leaveRoom; a client that no room took in is in no room afterwards either.
LeaveRoom(s) ==
  /\ LeaveOrder \in Orders /\ s \in inside
  /\ RemovePlayerFromRoom(s)
  /\ inside' = inside \ {s}
  /\ UNCHANGED <<attackVars, now, astray>>

\* handleCrash: the host is told, the player removed; the connection ends.
Crash(s, host) ==
  /\ CrashOrder \in Orders /\ s \in inside
  /\ WritesTo(host, s, CrashOrder)
  /\ RemovePlayerFromRoom(s)
  /\ inside' = inside \ {s}
  /\ UNCHANGED <<attackVars, now>>

\* The connection of a client outside of rooms ends, and the id is given to the next one:
\* the Session is new, the entry of rateLimitMap stays.
Reconnect(s) ==
  /\ s \notin inside /\ s \in inMatch
  /\ inMatch' = inMatch \ {s}
  /\ UNCHANGED <<members, attackVars, now, astray>>

----------------------------------------------------------------------------
(* The packets of a match *)

\* The handlers that only relay: see the sets of orders above.
Relay(s, order, receiver) ==
  /\ order \in Orders \cap Relayed /\ s \in inside
  /\ \/ /\ order \in ToAll \cup {RespawnOrder}
        /\ WritesToAll(s, order)
     \/ /\ order \in ToOthers
        /\ WritesToOthers(s, order)
     \/ /\ order \in ToHost \cup ToPlayer
        /\ WritesTo(receiver, s, order)
  /\ UNCHANGED <<members, inMatch, attackVars, now>>

\* handleMatchStart: the sender counts as playing; not forwarded to the sender itself, whose
\* score it would reset.
MatchStart(s, receiver) ==
  /\ MatchStartOrder \in Orders /\ s \in inside
  /\ inMatch' = inMatch \cup {s}
  /\ IF receiver = s THEN UNCHANGED astray ELSE WritesTo(receiver, s, MatchStartOrder)
  /\ UNCHANGED <<members, attackVars, now>>

\* handleMatchInitialLoading: a new packet with the sender's unique id.
InitialLoading(s) ==
  /\ LoadingOrder \in Orders /\ s \in inside
  /\ WritesToOthers(s, LoadingOrder)
  /\ inMatch' = inMatch \cup {s}
  /\ UNCHANGED <<members, attackVars, now>>

\* handleMatchEnd, by any member: Room::endMatch goes through the vector.
MatchEnd(s) ==
  /\ MatchEndOrder \in Orders /\ s \in inside
  /\ inMatch' = IF s \in DOMAIN roomOf THEN inMatch \ ToSet(rooms[roomOf[s]].vec) ELSE inMatch
  /\ UNCHANGED <<members, attackVars, now, astray>>

\* handleMatchLeave: the answer it prepares is not sent.
MatchLeave(s) ==
  /\ MatchLeaveOrder \in Orders /\ s \in inside
  /\ inMatch' = inMatch \ {s}
  /\ UNCHANGED <<members, attackVars, now, astray>>

\* What the others see of a position of 28 bytes, with a jump (32), with shots (36), or with
\* both (40): the sender's session stands in the data; with shots the weapon is the last
\* field of the shots, cut to 4 bits.
PositionResponse(s, position) ==
  LET shots == position.size \in {36, 40} IN
  [sessionId |-> s,
   enableBullet |-> shots,
   enableJump |-> position.size \in {32, 40},
   currentWeapon |-> IF shots THEN position.bullet4 % 16 ELSE position.weapon]

\* handlePlayerPosition: answered with an order of its own, 322.
PlayerPosition(s, position) ==
  /\ PositionOrder \in Orders /\ s \in inside
  /\ LET seen == <<322, PositionResponse(s, position)>> IN
     /\ WritesToOthers(s, seen)
  /\ UNCHANGED <<members, inMatch, attackVars, now>>

----------------------------------------------------------------------------
(* Attacks *)

Fresh == [packetCount |-> 0, exceedCount |-> 0, lastReset |-> now]

\* mutant: the window starts anew whenever the counter is full
CountedEarly(s) ==
  LET data == IF s \notin DOMAIN limits \/ limits[s].packetCount > MAX_PACKETS
              THEN Fresh ELSE limits[s]
      counted == data.packetCount + 1
  IN  [data EXCEPT !.packetCount = counted,
                   !.exceedCount = IF counted > MAX_PACKETS THEN @ + 1 ELSE @]

\* isRateLimited: the entry of the id after one more packet; its window starts with the
\* first packet after the previous window has passed.
Counted(s) ==
  LET data == IF s \notin DOMAIN limits \/ now - limits[s].lastReset > RESET_INTERVAL
              THEN Fresh ELSE limits[s]
      counted == data.packetCount + 1
  IN  [data EXCEPT !.packetCount = counted,
                   !.exceedCount = IF counted > MAX_PACKETS THEN @ + 1 ELSE @]

\* handleHostWeaponAttack, nonHostWeaponAttack.  Session::close is meant to disconnect who
\* exceeds the limit too often, but closes a socket that was moved from: the packet is
\* dropped, and that is all.
WeaponAttack(s, order, receiver) ==
  /\ order \in Orders \cap (HostAttacks \cup PlayerAttacks)
  /\ s \in inside \cap Attackers /\ Len(attacks[s]) < MaxAttacks
  /\ limits' = [x \in DOMAIN limits \cup {s} |-> IF x = s THEN Counted(s) ELSE limits[x]]
  /\ LET relayed == limits'[s].exceedCount <= MAX_EXCEED IN
     /\ attacks' = [attacks EXCEPT ![s] = Append(@, [at |-> now, relayed |-> relayed])]
     /\ IF ~relayed THEN UNCHANGED astray
        ELSE IF order \in HostAttacks THEN WritesToAll(s, order)
        ELSE WritesTo(receiver, s, order)
  /\ UNCHANGED <<members, inMatch, now>>

Tick ==
  /\ now < MaxTime /\ now' = now + 1
  /\ UNCHANGED <<members, inMatch, attackVars, astray>>

----------------------------------------------------------------------------
Init ==
  /\ inside = {} /\ roomOf = << >> /\ rooms = << >> /\ inMatch = {}
  /\ limits = << >> /\ now = 0
  /\ astray = FALSE
  /\ attacks = [s \in Attackers |-> << >>]

Next ==
  \/ Tick
  \/ \E s \in Sessions :
       \/ RoomCreation(s) \/ LeaveRoom(s) \/ Reconnect(s)
       \/ \E host \in Sessions : PlayerJoinRoom(s, host) \/ Crash(s, host)
       \/ \E order \in Orders, receiver \in Sessions :
            Relay(s, order, receiver) \/ WeaponAttack(s, order, receiver)
       \/ \E receiver \in Sessions : MatchStart(s, receiver)
       \/ InitialLoading(s) \/ MatchEnd(s) \/ MatchLeave(s)
       \/ \E position \in Positions : PlayerPosition(s, position)

Spec == Init /\ [][Next]_vars

----------------------------------------------------------------------------
(* Properties *)

\* A room is there exactly as long as somebody is entered in the table; counters stay within
\* what one window can bring.
TypeOK ==
  /\ inside \subseteq Sessions /\ inMatch \subseteq Sessions /\ astray \in BOOLEAN
  /\ DOMAIN roomOf \subseteq inside
  /\ DOMAIN rooms = Range(roomOf)
  /\ \A r \in DOMAIN rooms : rooms[r] \in Room
  /\ DOMAIN limits \subseteq Attackers
  /\ \A s \in DOMAIN limits :
       /\ limits[s].lastReset \in 0 .. now
       /\ limits[s].packetCount \in 1 .. MaxAttacks
       /\ limits[s].exceedCount = Max({0, limits[s].packetCount - MAX_PACKETS})

\* After any sequence of joins, leaves and crashes, a packet reaches those and only those it
\* is for, once each and with the right id in the header: all who share the sender's room,
\* the sender included, when a host tells what happened; all but the sender for positions;
\* nobody when the named host or player is not in the room (the handlers look receivers up
\* in two containers, and the sender in a third).
RelayedToRoomMates == ~astray

Sent(s, from, to) == {i \in DOMAIN attacks[s] : attacks[s][i].at \in from .. to}
Through(s, from, to) == {i \in Sent(s, from, to) : attacks[s][i].relayed}

\* The counters let through, in any interval as long as a window, at most what two windows
\* allow less the attack that opened the first; and an attack is only dropped when, in the
\* interval that ends with it, its id sent more than one window allows (isRateLimited: the
\* windows are not aligned with the sender's, and outlive its session).
AttacksLimited ==
  \A s \in Attackers :
    /\ \A t \in 0 .. now :
         Cardinality(Through(s, t - RESET_INTERVAL, t)) <= 2 * (MAX_PACKETS + MAX_EXCEED) - 1
    /\ \A i \in DOMAIN attacks[s] : ~attacks[s][i].relayed =>
         Cardinality(Sent(s, attacks[s][i].at - RESET_INTERVAL, attacks[s][i].at))
           > MAX_PACKETS + MAX_EXCEED
=============================================================================
