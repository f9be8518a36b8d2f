----------------------------- MODULE CastRooms -----------------------------
(***************************************************************************)
(* The rooms of the cast server, which relays the packets of a match, and  *)
(* how they follow the rooms of the main server.                           *)
(*                                                                         *)
(* The two servers do not talk about membership: the client tells the cast *)
(* server, over a connection of its own, what it has just done on the main *)
(* server.  Rooms are found by the session id of any member, and the id    *)
(* that a client knows of a host is the one the main server gave it        *)
(* (Session.cpp: "the SessionID that the client will now use for this      *)
(* session's communication").  Each server draws ids from a pool of its    *)
(* own (SessionIds), and nothing tells the cast server's rooms that a      *)
(* connection is lost: they go on holding the pointer.                     *)
(*                                                                         *)
(* The main server is reduced to its ids, its rooms and their hosts (see   *)
(* MainRooms).  Packets that are relayed matter only by the pointers they  *)
(* make the server follow; following one to a session that is gone is      *)
(* undefined, and the model takes no step after it.                        *)
(***************************************************************************)
EXTENDS SessionIds, Functions, FiniteSetsExt, Vectors

CONSTANTS
  Clients,
  MaxRooms,      \* bound of the model on the rooms of the main server
  MaxPending,    \* bound of the model on the messages of a client under way
  Mishaps,       \* what goes wrong in this model besides lost connections
  MaxMishaps,    \* bound of the model on the kinds of mishaps and the losses together
  None

\* A client gets two different ids; a client acts on the main server while another's message to
\* the cast server is under way; all ids are in use.
AllMishaps == {"crossed", "overtaken", "full"}

ASSUME ConstantsAssumption ==
  /\ MaxRooms \in Nat
  /\ MaxPending \in Nat
  /\ Mishaps \subseteq AllMishaps
  /\ MaxMishaps \in Nat
  /\ None \notin Clients

VARIABLES
  running,   \* clients whose program runs
  at,        \* main server: Player.m_roomNumber, or NoRoom
  host,      \* main server: room -> its host, or None
  outbox,    \* client -> its messages to the cast server, in order
  pool,      \* server -> available session ids
  id,        \* server -> client -> session id, or NoId
  roomOf,    \* m_playerSessionIdToRoom
  rooms,     \* the Rooms that roomOf points to
  stopped,   \* a dangling pointer was followed, or an exception left main()
  mishaps,   \* history: what has gone wrong
  lost       \* history: connections lost in a room of the cast server

clientVars == <<running, outbox>>
mainVars == <<at, host>>
castVars == <<roomOf, rooms>>
history == <<mishaps, lost>>
vars == <<clientVars, mainVars, castVars, pool, id, stopped, history>>

Servers == {"main", "cast"}
NoRoom == 0
MainRoomNumbers == 1 .. MaxRooms

Message == [kind : {"create", "leave", "crash"}] \cup [kind : {"join"}, host : Ids]

\* A raw Session pointer: the id of the session, and whether the session lives.
Pointer == [id : Ids, alive : BOOLEAN]

\* m_players maps ids to pointers, m_playersVec holds the pointers in order.
CastRoom == [players : UNION {[S -> BOOLEAN] : S \in SUBSET Ids}, vec : Seq(Pointer)]

Dangling(room) == \E i \in DOMAIN room.vec : ~room.vec[i].alive
HasDangling(room) == FALSE \in Range(room.players) \/ Dangling(room)

Goes(wrong, happens) ==
  /\ happens => wrong \in Mishaps
  /\ mishaps' = IF happens THEN mishaps \cup {wrong} ELSE mishaps
  /\ Cardinality(mishaps') + lost <= MaxMishaps
  /\ UNCHANGED lost

Loses(happens) ==
  /\ lost' = IF happens THEN lost + 1 ELSE lost
  /\ Cardinality(mishaps) + lost' <= MaxMishaps
  /\ UNCHANGED mishaps

\* A server has yet to learn something about c.
UnderWay(c) == outbox[c] # << >> \/ (c \notin running /\ \E s \in Servers : id[s][c] # NoId)
Overtakes(c) == Goes("overtaken", \E d \in Clients \ {c} : UnderWay(d))

----------------------------------------------------------------------------
(* Connections *)

Accepted(s, c) ==
  /\ HasId(pool[s])
  /\ id' = [id EXCEPT ![s][c] = NewSessionID(pool[s])]
  /\ pool' = [pool EXCEPT ![s] = WithoutNewSessionID(@)]

\* The destructor of Session, once the connection is closed.
Closed(s, c) ==
  /\ pool' = [pool EXCEPT ![s] = WithReleased(@, id[s][c])]
  /\ id' = [id EXCEPT ![s][c] = NoId]

ConnectMain(c) ==
  /\ ~stopped
  /\ c \notin running /\ \A s \in Servers : id[s][c] = NoId
  /\ running' = running \cup {c}
  /\ Accepted("main", c)
  /\ UNCHANGED <<outbox, mainVars, castVars, stopped, history>>

ConnectCast(c) ==
  /\ ~stopped
  /\ c \in running /\ id["cast"][c] = NoId
  /\ Accepted("cast", c)
  /\ Goes("crossed", id'["cast"][c] # id["main"][c])
  /\ UNCHANGED <<clientVars, mainVars, castVars, stopped>>

\* No id is left: the constructor of Session throws, and nothing catches it.
ConnectionRefused(c) ==
  /\ ~stopped
  /\ c \notin running /\ \A s \in Servers : id[s][c] = NoId
  /\ \E s \in Servers : ~HasId(pool[s])
  /\ stopped' = TRUE
  /\ Goes("full", TRUE)
  /\ UNCHANGED <<clientVars, mainVars, castVars, pool, id>>

\* c is no longer in a room of the main server; somebody else there is its host.
MainRoomLeft(c) ==
  /\ at' = [at EXCEPT ![c] = NoRoom]
  /\ IF at[c] # NoRoom /\ host[at[c]] = c
       THEN LET others == {d \in Clients \ {c} : at[d] = at[c]} IN
            \E h \in IF others = {} THEN {None} ELSE others :
              host' = [host EXCEPT ![at[c]] = h]
       ELSE UNCHANGED host

CloseMain(c) ==
  /\ ~stopped
  /\ c \notin running /\ id["main"][c] # NoId
  /\ Closed("main", c)
  /\ MainRoomLeft(c)
  /\ Overtakes(c)
  /\ UNCHANGED <<clientVars, castVars, stopped>>

\* The pointers to a session with id i once the session has been destroyed.
Killed(room, i) ==
  [players |-> [j \in DOMAIN room.players |-> j # i /\ room.players[j]],
   vec |-> [k \in DOMAIN room.vec |->
              IF room.vec[k].id = i THEN [room.vec[k] EXCEPT !.alive = FALSE] ELSE room.vec[k]]]

\* removeSession finds no session to remove, as addSession is never called.
CloseCast(c) ==
  /\ ~stopped
  /\ c \notin running /\ id["cast"][c] # NoId
  /\ Closed("cast", c)
  /\ rooms' = [r \in DOMAIN rooms |-> Killed(rooms[r], id["cast"][c])]
  /\ outbox' = [outbox EXCEPT ![c] = << >>]
  /\ Loses(id["cast"][c] \in DOMAIN roomOf)
  /\ UNCHANGED <<running, mainVars, roomOf, stopped>>

----------------------------------------------------------------------------
(* Clients: what they do on the main server they tell the cast server *)

Playing(c) == ~stopped /\ c \in running /\ id["cast"][c] # NoId

Tell(c, message) ==
  /\ Len(outbox[c]) < MaxPending
  /\ outbox' = [outbox EXCEPT ![c] = Append(@, message)]

CreateRoom(c) ==
  /\ Playing(c) /\ at[c] = NoRoom
  /\ LET free == {r \in MainRoomNumbers : host[r] = None} IN
     /\ free # {}
     /\ at' = [at EXCEPT ![c] = Min(free)]
     /\ host' = [host EXCEPT ![Min(free)] = c]
  /\ Tell(c, [kind |-> "create"])
  /\ UNCHANGED <<running, castVars, pool, id, stopped, history>>

JoinRoom(c, r) ==
  /\ Playing(c) /\ at[c] = NoRoom
  /\ host[r] # None
  /\ at' = [at EXCEPT ![c] = r]
  /\ Tell(c, [kind |-> "join", host |-> id["main"][host[r]]])
  /\ Overtakes(c)
  /\ UNCHANGED <<running, host, castVars, pool, id, stopped>>

LeaveRoom(c) ==
  /\ Playing(c) /\ at[c] # NoRoom
  /\ MainRoomLeft(c)
  /\ Tell(c, [kind |-> "leave"])
  /\ Overtakes(c)
  /\ UNCHANGED <<running, castVars, pool, id, stopped>>

\* The program ends, or loses its connections; in a room it may be able to report a crash.
Quit(c) ==
  /\ ~stopped /\ c \in running
  /\ running' = running \ {c}
  /\ \/ UNCHANGED outbox
     \/ at[c] # NoRoom /\ Tell(c, [kind |-> "crash"])
  /\ Overtakes(c)
  /\ UNCHANGED <<mainVars, castVars, pool, id, stopped>>

----------------------------------------------------------------------------
(* The cast server: every handler that changes rooms *)

\* A Room lives as long as an entry of m_playerSessionIdToRoom shares it.
Keeping(table, entries) == Restrict(table, Range(entries))

Entered(entries, i, r) == [j \in DOMAIN entries \cup {i} |-> IF j = i THEN r ELSE entries[j]]

NewRoomNumber == Min((1 .. MaxSessionIDs + 1) \ DOMAIN rooms)

\* The constructor of Room, RoomsManager::addRoom: an entry that is there is replaced.
RoomAdded(i) ==
  LET r == NewRoomNumber
      room == [players |-> [j \in {i} |-> TRUE], vec |-> <<[id |-> i, alive |-> TRUE]>>]
  IN  /\ roomOf' = Entered(roomOf, i, r)
      /\ rooms' = Keeping([x \in DOMAIN rooms \cup {r} |-> IF x = r THEN room ELSE rooms[x]],
                          roomOf')

\* Room::removePlayer: both containers.
RemovePlayer(room, i) ==
  [players |-> Restrict(room.players, DOMAIN room.players \ {i}),
   vec |-> AtPositions(room.vec, {k \in DOMAIN room.vec : room.vec[k].id # i})]

\* RoomsManager::removePlayerFromRoom, when all pointers of the room are good.
RemovePlayerFromRoom(i) ==
  /\ i \in DOMAIN roomOf
  /\ roomOf' = Restrict(roomOf, DOMAIN roomOf \ {i})
  /\ rooms' = Keeping([rooms EXCEPT ![roomOf[i]] = RemovePlayer(@, i)], roomOf')

\* mutant: the map is not told
AddPlayerToVector(room, i) ==
  [room EXCEPT !.vec = Append(@, [id |-> i, alive |-> TRUE])]

\* Room::addPlayer
AddPlayer(room, i) ==
  [players |-> [j \in DOMAIN room.players \cup {i} |-> j = i \/ room.players[j]],
   vec |-> Append(room.vec, [id |-> i, alive |-> TRUE])]

\* A handler that follows the pointers of i's room finds one that is dangling.
FollowsDangling(i) == i \in DOMAIN roomOf /\ HasDangling(rooms[roomOf[i]])

\* mutant: a player who joins gets a room of its own
SwitchRoomJoinAlone(i, h) ==
  \/ RemovePlayerFromRoom(i)
  \/ i \notin DOMAIN roomOf /\ h \in DOMAIN roomOf /\ RoomAdded(i)
  \/ i \notin DOMAIN roomOf /\ h \notin DOMAIN roomOf /\ UNCHANGED castVars

\* RoomsManager::switchRoomJoinOrExit: one request for both, by what the table says.
SwitchRoomJoinOrExit(i, h) ==
  \/ RemovePlayerFromRoom(i)
  \/ /\ i \notin DOMAIN roomOf /\ h \in DOMAIN roomOf
     /\ rooms' = [rooms EXCEPT ![roomOf[h]] = AddPlayer(@, i)]
     /\ roomOf' = Entered(roomOf, i, roomOf[h])
  \/ i \notin DOMAIN roomOf /\ h \notin DOMAIN roomOf /\ UNCHANGED castVars

\* The next message of c is of this kind; it is handled to the end.
Receives(c, kind) ==
  /\ ~stopped
  /\ outbox[c] # << >> /\ Head(outbox[c]).kind = kind
  /\ outbox' = [outbox EXCEPT ![c] = Tail(@)]
  /\ UNCHANGED <<running, mainVars, pool, id, history>>

RoomCreation(c) ==
  /\ Receives(c, "create")
  /\ RoomAdded(id["cast"][c])
  /\ UNCHANGED stopped

PlayerJoinRoom(c) ==
  /\ Receives(c, "join")
  /\ ~FollowsDangling(id["cast"][c])
  /\ SwitchRoomJoinOrExit(id["cast"][c], Head(outbox[c]).host)
  /\ UNCHANGED stopped

\* handler leaveRoom: the host it does not give is that of no room.
PlayerLeaveRoom(c) ==
  /\ Receives(c, "leave")
  /\ ~FollowsDangling(id["cast"][c])
  /\ SwitchRoomJoinOrExit(id["cast"][c], NoId)
  /\ UNCHANGED stopped

\* handleCrash forwards the news to the host and removes the player.
PlayerCrash(c) ==
  /\ Receives(c, "crash")
  /\ \/ ~FollowsDangling(id["cast"][c]) /\ RemovePlayerFromRoom(id["cast"][c])
     \/ id["cast"][c] \notin DOMAIN roomOf /\ UNCHANGED castVars
  /\ UNCHANGED stopped

\* Leaving a room, or having a packet relayed in it, follows the pointers.
Undefined(c) ==
  /\ ~stopped
  /\ FollowsDangling(id["cast"][c])
  /\ at[c] # NoRoom \/ (outbox[c] # << >> /\ Head(outbox[c]).kind # "create")
  /\ stopped' = TRUE
  /\ UNCHANGED <<clientVars, mainVars, castVars, pool, id, history>>

----------------------------------------------------------------------------
(* Specification *)

Init ==
  /\ running = {}
  /\ at = [c \in Clients |-> NoRoom]
  /\ host = [r \in MainRoomNumbers |-> None]
  /\ outbox = [c \in Clients |-> << >>]
  /\ pool = [s \in Servers |-> FullPool]
  /\ id = [s \in Servers |-> [c \in Clients |-> NoId]]
  /\ roomOf = << >>
  /\ rooms = << >>
  /\ stopped = FALSE
  /\ mishaps = {}
  /\ lost = 0

Next ==
  \E c \in Clients :
    \/ ConnectMain(c) \/ ConnectCast(c) \/ ConnectionRefused(c)
    \/ CloseMain(c) \/ CloseCast(c)
    \/ CreateRoom(c) \/ LeaveRoom(c) \/ Quit(c)
    \/ \E r \in MainRoomNumbers : JoinRoom(c, r)
    \/ RoomCreation(c) \/ PlayerJoinRoom(c) \/ PlayerLeaveRoom(c) \/ PlayerCrash(c)
    \/ Undefined(c)

Spec == Init /\ [][Next]_vars

----------------------------------------------------------------------------
(* Properties *)

\* The types of the variables; a Room lives exactly as long as an entry points to it.
TypeOK ==
  /\ running \subseteq Clients
  /\ at \in [Clients -> MainRoomNumbers \cup {NoRoom}]
  /\ host \in [MainRoomNumbers -> Clients \cup {None}]
  /\ outbox \in [Clients -> Seq(Message)]
  /\ pool \in [Servers -> Seq(Ids)]
  /\ id \in [Servers -> [Clients -> Ids \cup {NoId}]]
  /\ DOMAIN roomOf \subseteq Ids
  /\ DOMAIN rooms = Range(roomOf)
  /\ rooms \in [DOMAIN rooms -> CastRoom]
  /\ stopped \in BOOLEAN
  /\ mishaps \subseteq Mishaps /\ lost \in 0 .. MaxMishaps

\* In each process every id is either on the stack, once, or that of exactly one session: a
\* destructor never gives back an id that is in use, and none is lost.
IdsAccountedFor ==
  \A s \in Servers :
    LET used == Range(id[s]) \ {NoId} IN
    /\ IsInjective(pool[s])
    /\ ToSet(pool[s]) = Ids \ used
    /\ \A c, d \in Clients : id[s][c] = id[s][d] /\ c # d => id[s][c] = NoId

\* m_players and m_playersVec hold the same players; those who find the room by their id are
\* in it; and as long as no connection was lost in a room, nobody else is, and nobody twice.
VectorsAgree ==
  /\ \A i \in DOMAIN roomOf : i \in DOMAIN rooms[roomOf[i]].players
  /\ \A r \in DOMAIN rooms : LET vec == rooms[r].vec IN
       /\ DOMAIN rooms[r].players = {p.id : p \in ToSet(vec)}
       /\ lost = 0 =>
            /\ DOMAIN rooms[r].players = {i \in DOMAIN roomOf : roomOf[i] = r}
            /\ Cardinality(ToSet(vec)) = Len(vec)

\* As long as no connection was lost in a room, one packet for joining and leaving is enough:
\* once the cast server has read all of a client's messages, the client has a room there only
\* if it has one on the main server.
OutsideMeansOutside ==
  lost = 0 => \A c \in running :
    outbox[c] = << >> /\ at[c] = NoRoom => id["cast"][c] \notin DOMAIN roomOf

\* The servers stop only for a lost connection or for want of ids: ordinary leaving and
\* logging out leave no dangling pointer behind, in whatever order the two servers see them.
StopsHaveACause == stopped => lost > 0 \/ "full" \in mishaps

\* All of these together: what the cast server holds of a client, in four places, agrees with
\* itself, and with the main server once the client's messages are read.
RoomsAgree == VectorsAgree /\ OutsideMeansOutside /\ StopsHaveACause

Quiet == \A c \in Clients : ~UnderWay(c)

SameCastRoom(c, d) ==
  LET i == id["cast"][c]
      j == id["cast"][d]
  IN  i \in DOMAIN roomOf /\ j \in DOMAIN roomOf /\ roomOf[i] = roomOf[j]

TogetherOnBoth ==
  \A c, d \in Clients : at[c] # NoRoom =>
    (at[c] = at[d] <=> SameCastRoom(c, d))

\* As long as nothing has gone wrong, those who share a room of the main server share one of
\* the cast server and with nobody else, after any sequence of joins, leaves, changes of host
\* and reported crashes.
Together == Quiet /\ mishaps = {} /\ lost = 0 => TogetherOnBoth

=============================================================================
