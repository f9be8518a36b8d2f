----------------------------- MODULE MainRooms -----------------------------
(***************************************************************************)
(* The rooms of the main server: Room.cpp, RoomsManager.cpp, the handlers  *)
(* of include/Handlers/Room and the disconnect path of                     *)
(* MainSessionManager.cpp.  All of them run on the one io_context thread,  *)
(* so one handler is one step.                                             *)
(*                                                                         *)
(* A player stands for an account and its one live session.  Room.m_players*)
(* and Room.m_observerPlayers are sequences of players, the host being the *)
(* first of m_players, as in the code.  Teams, pings, titles, passwords    *)
(* and maps are left out: "the player with the best ping" is any candidate *)
(* and a request that is only refused (wrong password, unsupported mode,   *)
(* unknown room) is a stuttering step.                                     *)
(*                                                                         *)
(* Room::m_players[0] is read without a check in several handlers.  When   *)
(* m_players is empty that read is undefined; the model records it in      *)
(* `undefined' and takes no further step.                                  *)
(***************************************************************************)
EXTENDS Naturals, FiniteSets, SequencesExt

CONSTANTS
  Players,        \* accounts that may be online
  Mods,           \* those of grade MOD or above; every other player is NORMAL
  MaxRooms,       \* rooms the creation handler admits (30)
  NumberSpace,    \* values of the 16-bit room counter (65536)
  CreationBound,  \* the model stops creating rooms at this counter value
  MaxObservers,   \* observers a room admits (10)
  TeamSizes       \* values of RoomSettings.playersPerTeam

ASSUME ConstantsAssumption ==
  /\ Mods \subseteq Players
  /\ MaxRooms \in Nat
  /\ NumberSpace \in Nat \ {0}
  /\ CreationBound \in Nat
  /\ MaxObservers \in Nat
  /\ TeamSizes \subseteq Nat

VARIABLES
  online,      \* SessionsManager.m_sessionsBySessionId: the registered sessions
  roomNumber,  \* Player.m_roomNumber, 0 outside rooms
  inLobby,     \* Player.m_isInLobby
  inMatch,     \* Player.m_isInMatch
  rooms,       \* RoomsManager.m_roomByNumber
  idCounter,   \* Room::idCounter
  undefined    \* m_players[0] of an empty room has been read

vars == <<online, roomNumber, inLobby, inMatch, rooms, idCounter, undefined>>

sessionVars == <<roomNumber, inLobby, inMatch>>

NoRoom == 0

----------------------------------------------------------------------------
(* Rooms *)

Room == [players   : Seq(Players),
         observers : Seq(Players),
         ready     : SUBSET Players,    \* those whose RoomPlayerInfo.state is READY
         kicked    : SUBSET Players,    \* m_kickedPlayerAccountIds
         started   : BOOLEAN,           \* m_hasMatchStarted
         perTeam   : TeamSizes,         \* m_settings.playersPerTeam
         obsOn     : BOOLEAN]           \* m_settings.isObserverModeOn

Members(room) == ToSet(room.players) \cup ToSet(room.observers)

\* The room p points to; handlers start by looking it up and return if there is none.
InRoom(p) == roomNumber[p] # NoRoom /\ roomNumber[p] \in DOMAIN rooms
RoomOf(p) == rooms[roomNumber[p]]

HasHost(room) == room.players # <<>>
Host(room) == room.players[1]
IsHost(room, p) == Host(room) = p

\* The index at which a member stands (find_if by session or by unique id).
IndexIn(s, p) == CHOOSE i \in DOMAIN s : s[i] = p

\* std::swap(m_players[0], m_players[i])
SwapHost(s, i) == [s EXCEPT ![1] = s[i], ![i] = s[1]]

\* Room::getBestMsIndexExceptSelf for the host: pings are not modelled, any candidate may be best.
Successors(room) == 2 .. Len(room.players)
\* mutant: isInMatch is not asked
SuccessorsAnywhere(room) == 2 .. Len(room.players)
SuccessorsInMatch(room) == {i \in Successors(room) : inMatch[room.players[i]]}

\* mutant: > for >=
IsRoomOverfull(room) ==
  Len(room.players) > IF room.perTeam = 0 THEN 1 ELSE 2 * room.perTeam
IsRoomFullObserverExcluded(room) ==
  Len(room.players) >= IF room.perTeam = 0 THEN 1 ELSE 2 * room.perTeam

IsObserverFull(room) == Len(room.observers) >= MaxObservers

\* The room after its host has been swapped with member i and erased.
HostReplacedBy(room, i) ==
  [room EXCEPT !.players = RemoveAt(SwapHost(@, i), i),
               !.ready = @ \ {Host(room)}]

\* The room without player p, who is not leaving it as a host with successors.
PlayerErased(room, p) ==
  [room EXCEPT !.players = RemoveAt(@, IndexIn(@, p)), !.ready = @ \ {p}]

ObserverErased(room, p) ==
  [room EXCEPT !.observers = RemoveAt(@, IndexIn(@, p)), !.ready = @ \ {p}]

\* The rooms Room::removePlayer may leave behind.
PlayerRemoved(room, p) ==
  IF p \in ToSet(room.players)
  THEN IF IsHost(room, p) /\ Successors(room) # {}
       THEN {HostReplacedBy(room, i) : i \in Successors(room)}
       ELSE {PlayerErased(room, p)}
  ELSE IF p \in ToSet(room.observers)
       THEN {ObserverErased(room, p)}
       ELSE {room}

\* What Room::removePlayer returns: the room must be closed.
MustClose(room, p, left) == p \in ToSet(room.players) /\ left.players = <<>>

----------------------------------------------------------------------------
(* What the handlers do to the sessions and to the table of rooms *)

\* mutant: the number is decremented
LeaveRoomDecreasing(S) ==
  /\ roomNumber' = [p \in Players |-> IF p \in S THEN roomNumber[p] - 1 ELSE roomNumber[p]]
  /\ inLobby' = [p \in Players |-> p \in S \/ inLobby[p]]
  /\ inMatch' = [p \in Players |-> p \notin S /\ inMatch[p]]

\* Player::leaveRoom for every player in S
LeaveRoom(S) ==
  /\ roomNumber' = [p \in Players |-> IF p \in S THEN NoRoom ELSE roomNumber[p]]
  /\ inLobby' = [p \in Players |-> p \in S \/ inLobby[p]]
  /\ inMatch' = [p \in Players |-> p \notin S /\ inMatch[p]]

EnterRoom(p, r) ==
  /\ roomNumber' = [roomNumber EXCEPT ![p] = r]
  /\ inLobby' = [inLobby EXCEPT ![p] = FALSE]
  /\ UNCHANGED inMatch

\* mutant: the observers of a closed room are forgotten
CloseRoomToPlayers(r) ==
  /\ rooms' = [x \in DOMAIN rooms \ {r} |-> rooms[x]]
  /\ LeaveRoom(ToSet(rooms[r].players))

\* RoomsManager::removeRoom and Room::breakroom: all members leave, the entry is erased.
CloseRoom(r) ==
  /\ rooms' = [x \in DOMAIN rooms \ {r} |-> rooms[x]]
  /\ LeaveRoom(Members(rooms[r]))

\* Room::removeHostFromMatch, and removeRoom when it returns true.  Only m_players are
\* counted for the choice between the three branches.
RemoveHostFromMatch(r) ==
  LET room == rooms[r]
      Replace(C, ongoing) ==
        \E i \in C :
          /\ rooms' = [rooms EXCEPT ![r] =
               [HostReplacedBy(room, i) EXCEPT !.started = room.started /\ ongoing]]
          /\ LeaveRoom({Host(room)})
  IN  \/ SuccessorsInMatch(room) # {} /\ Replace(SuccessorsInMatch(room), TRUE)
      \/ /\ SuccessorsInMatch(room) = {} /\ Successors(room) # {}
         /\ Replace(Successors(room), FALSE)
      \/ Successors(room) = {} /\ CloseRoom(r)

\* Room::removePlayer for p, closing the room when asked to; those in S leave in any case.
RemovePlayer(r, p, S) ==
  \E left \in PlayerRemoved(rooms[r], p) :
    IF MustClose(rooms[r], p, left)
    THEN CloseRoom(r)
    ELSE /\ rooms' = [rooms EXCEPT ![r] = left]
         /\ LeaveRoom(S \cup ({p} \cap Members(rooms[r])))

\* A read of m_players[0] in a room without players.
UndefinedRead == undefined' = TRUE /\ UNCHANGED <<online, sessionVars, rooms, idCounter>>

\* A request of p that the io_context thread may handle.
Request(p) == p \in online /\ ~undefined

----------------------------------------------------------------------------
(* Sessions *)

\* SessionsManager::addSession, for the new Player object of a session
Connect(p) ==
  /\ ~undefined
  /\ p \notin online
  /\ online' = online \cup {p}
  /\ UNCHANGED <<sessionVars, rooms, idCounter, undefined>>

\* SessionsManager::removeSession; the Player object dies with the session.  A session whose
\* room is not found is left registered: the early return is a stuttering step.
Disconnect(p) ==
  /\ Request(p)
  /\ \/ roomNumber[p] = NoRoom /\ LeaveRoom({p}) /\ UNCHANGED rooms
     \/ /\ InRoom(p) /\ inMatch[p]
        /\ HasHost(RoomOf(p)) /\ IsHost(RoomOf(p), p)
        /\ RemoveHostFromMatch(roomNumber[p])
     \/ /\ InRoom(p) /\ inMatch[p]
        /\ HasHost(RoomOf(p)) /\ ~IsHost(RoomOf(p), p)
        /\ \E left \in PlayerRemoved(RoomOf(p), p) :
             rooms' = [rooms EXCEPT ![roomNumber[p]] = left]
        /\ LeaveRoom({p})
     \/ InRoom(p) /\ ~inMatch[p] /\ RemovePlayer(roomNumber[p], p, {p})
  /\ online' = online \ {p}
  /\ UNCHANGED <<idCounter, undefined>>

\* The same when removeSession asks for the host of a room that has no players left.
DisconnectUndefined(p) ==
  /\ Request(p) /\ InRoom(p) /\ inMatch[p] /\ ~HasHost(RoomOf(p))
  /\ UndefinedRead

----------------------------------------------------------------------------
(* Lobby: creating, listing and joining rooms *)

\* Room::Room
NewRoom(p, perTeam, obsOn) ==
  [players |-> <<p>>, observers |-> <<>>, ready |-> {}, kicked |-> {},
   started |-> FALSE, perTeam |-> perTeam, obsOn |-> obsOn]

\* mutant: the room takes the counter before it is incremented
RoomCreationPostIncrement(p) ==
  /\ Request(p)
  /\ idCounter < CreationBound
  /\ Cardinality(DOMAIN rooms) < MaxRooms
  /\ idCounter' = (idCounter + 1) % NumberSpace
  /\ EnterRoom(p, idCounter)
  /\ \E perTeam \in TeamSizes, obsOn \in BOOLEAN :
       rooms' = [x \in DOMAIN rooms \cup {idCounter} |->
                   IF x \in DOMAIN rooms THEN rooms[x] ELSE NewRoom(p, perTeam, obsOn)]
  /\ UNCHANGED <<online, undefined>>

\* handleRoomCreation.  The room object, and with it a number, is made before the limit is
\* checked; unordered_map::emplace keeps an older room that has the same number.
RoomCreation(p) ==
  /\ Request(p)
  /\ idCounter < CreationBound
  /\ LET r == (idCounter + 1) % NumberSpace IN
     /\ idCounter' = r
     /\ \/ /\ Cardinality(DOMAIN rooms) >= MaxRooms
           /\ UNCHANGED <<rooms, sessionVars>>
        \/ /\ Cardinality(DOMAIN rooms) < MaxRooms
           /\ EnterRoom(p, r)
           /\ \E perTeam \in TeamSizes, obsOn \in BOOLEAN :
                rooms' = [x \in DOMAIN rooms \cup {r} |->
                            IF x \in DOMAIN rooms THEN rooms[x] ELSE NewRoom(p, perTeam, obsOn)]
  /\ UNCHANGED <<online, undefined>>

\* Room::addPlayer and Room::addObserverPlayer; who joins is in no room.
AddPlayer(r, p) == rooms' = [rooms EXCEPT ![r].players = Append(@, p)]
AddObserverPlayer(r, p) == rooms' = [rooms EXCEPT ![r].observers = Append(@, p)]

\* handleRoomJoin: kicked accounts are refused, a full room admits observers only.
RoomJoin(p, r) ==
  /\ Request(p)
  /\ r \in DOMAIN rooms /\ p \notin rooms[r].kicked /\ HasHost(rooms[r])
  /\ \/ /\ ~IsRoomFullObserverExcluded(rooms[r])
        /\ AddPlayer(r, p)
     \/ /\ IsRoomFullObserverExcluded(rooms[r])
        /\ rooms[r].obsOn /\ ~IsObserverFull(rooms[r])
        /\ AddObserverPlayer(r, p)
  /\ EnterRoom(p, r)
  /\ UNCHANGED <<online, idCounter, undefined>>

\* handleRoomJoin and handleRoomsList fill a SingleRoom, which reads the host's ping.
RoomInfoUndefined(p, r) ==
  /\ Request(p)
  /\ r \in DOMAIN rooms /\ ~HasHost(rooms[r])
  /\ UndefinedRead

----------------------------------------------------------------------------
(* Waiting room *)

\* handleRoomLeave, LEAVE_NORMAL
RoomLeave(p) ==
  /\ Request(p) /\ InRoom(p)
  /\ RemovePlayer(roomNumber[p], p, {})
  /\ UNCHANGED <<online, idCounter, undefined>>

\* handleRoomLeave, KICK_PLAYER: the target is any session of a lower grade, and
\* what removePlayer returns is ignored.
RoomLeaveKick(p, t) ==
  /\ Request(p) /\ InRoom(p)
  /\ t \in online /\ p \in Mods /\ t \notin Mods
  /\ \E left \in PlayerRemoved(RoomOf(p), t) :
       rooms' = [rooms EXCEPT ![roomNumber[p]] = [left EXCEPT !.kicked = @ \cup {t}]]
  /\ LeaveRoom({t} \cap Members(RoomOf(p)))
  /\ UNCHANGED <<online, idCounter, undefined>>

\* handleHostChange; an index out of range is refused.
ChangeHost(p, i) ==
  /\ Request(p) /\ InRoom(p)
  /\ i \in DOMAIN RoomOf(p).players
  /\ rooms' = [rooms EXCEPT ![roomNumber[p]].players = SwapHost(@, i)]
  /\ UNCHANGED <<online, sessionVars, idCounter, undefined>>

\* Room::changePlayerTeam from m_players to m_observerPlayers
PlayerToObserver(p) ==
  /\ Request(p) /\ InRoom(p)
  /\ LET room == RoomOf(p) IN
     /\ p \in ToSet(room.players)
     /\ ~IsObserverFull(room)
     /\ rooms' = [rooms EXCEPT ![roomNumber[p]] =
          [room EXCEPT !.players = RemoveAt(@, IndexIn(@, p)), !.observers = Append(@, p)]]
  /\ UNCHANGED <<online, sessionVars, idCounter, undefined>>

\* Room::changePlayerTeam from m_observerPlayers to m_players
ObserverToPlayer(p) ==
  /\ Request(p) /\ InRoom(p)
  /\ LET room == RoomOf(p) IN
     /\ p \in ToSet(room.observers) \ ToSet(room.players)
     /\ Len(room.players) < 2 * room.perTeam
     /\ rooms' = [rooms EXCEPT ![roomNumber[p]] =
          [room EXCEPT !.players = Append(@, p), !.observers = RemoveAt(@, IndexIn(@, p))]]
  /\ UNCHANGED <<online, sessionVars, idCounter, undefined>>

\* handlePlayerState: only whether the new state is READY matters to the room.
PlayerState(p, isReady) ==
  /\ Request(p) /\ InRoom(p)
  /\ rooms' = [rooms EXCEPT ![roomNumber[p]].ready =
                 IF isReady THEN @ \cup ({p} \cap Members(RoomOf(p))) ELSE @ \ {p}]
  /\ UNCHANGED <<online, sessionVars, idCounter, undefined>>

\* handleSimpleRoomSetting<SETTING_PLAYERS_PER_TEAM>, and updateRoomSettings
SetPlayersPerTeam(p, n) ==
  /\ Request(p) /\ InRoom(p)
  /\ rooms' = [rooms EXCEPT ![roomNumber[p]].perTeam = n]
  /\ UNCHANGED <<online, sessionVars, idCounter, undefined>>

\* handleSimpleRoomSetting<SETTING_OBSERVER>
SwitchObserverMode(p) ==
  /\ Request(p) /\ InRoom(p)
  /\ rooms' = [rooms EXCEPT ![roomNumber[p]].obsOn = ~@]
  /\ UNCHANGED <<online, sessionVars, idCounter, undefined>>

----------------------------------------------------------------------------
(* Match *)

\* handleRoomStart, extra 38, with Room::startMatch: the caller enters a running match, or
\* starts it with every READY member.
RoomStart(p) ==
  /\ Request(p) /\ InRoom(p) /\ HasHost(RoomOf(p))
  /\ LET room == RoomOf(p)
         entering == {p} \cup (IF room.started THEN {} ELSE room.ready)
     IN  /\ inMatch' = [q \in Players |-> q \in entering \/ inMatch[q]]
         /\ rooms' = [rooms EXCEPT ![roomNumber[p]] =
              [room EXCEPT !.started = TRUE,
                           !.ready = IF room.started THEN @ \ {p} ELSE {}]]
  /\ UNCHANGED <<online, roomNumber, inLobby, idCounter, undefined>>

\* handleMatchLeave: the host leaves the room with the match, another player only the match.
MatchLeave(p) ==
  /\ Request(p) /\ InRoom(p) /\ HasHost(RoomOf(p))
  /\ \/ IsHost(RoomOf(p), p) /\ RemoveHostFromMatch(roomNumber[p])
     \/ /\ ~IsHost(RoomOf(p), p)
        /\ inMatch' = [inMatch EXCEPT ![p] = FALSE]
        /\ rooms' = [rooms EXCEPT ![roomNumber[p]].ready = @ \ {p}]
        /\ UNCHANGED <<roomNumber, inLobby>>
  /\ UNCHANGED <<online, idCounter, undefined>>

\* handleRoomStart and handleMatchLeave ask who the host is.
MatchUndefined(p) ==
  /\ Request(p) /\ InRoom(p) /\ ~HasHost(RoomOf(p))
  /\ UndefinedRead

\* mutant: the players stay in the match that is over
MatchEndingStillIn(p) ==
  /\ Request(p) /\ InRoom(p)
  /\ rooms' = [rooms EXCEPT ![roomNumber[p]].started = FALSE]
  /\ UNCHANGED <<online, sessionVars, idCounter, undefined>>

\* handleMatchEnding, with Room::endMatch
MatchEnding(p) ==
  /\ Request(p) /\ InRoom(p)
  /\ LET room == RoomOf(p)
         ending == {q \in Members(room) : inMatch[q]}
     IN  /\ rooms' = [rooms EXCEPT ![roomNumber[p]] =
              [room EXCEPT !.started = FALSE, !.ready = @ \ ending]]
         /\ inMatch' = [q \in Players |-> q \notin ending /\ inMatch[q]]
  /\ UNCHANGED <<online, roomNumber, inLobby, idCounter, undefined>>

----------------------------------------------------------------------------
(* Moderator commands *)

\* /kick: Room::kickPlayer goes on to read, through the reference its range-for holds, the
\* vector slot in which t stood.  After the erasure that slot holds whoever moved into it,
\* or still t when t was the last.
SlotAfter(before, after, t) ==
  LET i == IndexIn(before, t) IN IF i <= Len(after) THEN after[i] ELSE t

StaleSlot(room, left, t) ==
  IF t \in ToSet(room.players)
  THEN SlotAfter(room.players, left.players, t)
  ELSE SlotAfter(room.observers, left.observers, t)

KickPlayer(p, t) ==
  /\ Request(p) /\ InRoom(p)
  /\ p \in Mods /\ t \in Members(RoomOf(p)) \ Mods
  /\ \E left \in PlayerRemoved(RoomOf(p), t) :
       LET slot == StaleSlot(RoomOf(p), left, t) IN
       /\ rooms' = [rooms EXCEPT ![roomNumber[p]] = [left EXCEPT !.kicked = @ \cup {slot}]]
       /\ inLobby' = [q \in Players |-> q \in {t, slot} \/ inLobby[q]]
       /\ roomNumber' = [roomNumber EXCEPT ![t] = NoRoom]
       /\ inMatch' = [inMatch EXCEPT ![t] = FALSE]
  /\ UNCHANGED <<online, idCounter, undefined>>

\* /breakroom
Breakroom(p) ==
  /\ Request(p) /\ InRoom(p)
  /\ p \in Mods
  /\ CloseRoom(roomNumber[p])
  /\ UNCHANGED <<online, idCounter, undefined>>

----------------------------------------------------------------------------
(* Specification *)

Init ==
  /\ online = {}
  /\ roomNumber = [p \in Players |-> NoRoom]
  /\ inLobby = [p \in Players |-> TRUE]
  /\ inMatch = [p \in Players |-> FALSE]
  /\ rooms = << >>
  /\ idCounter = 0
  /\ undefined = FALSE

\* The client's screens.  The server does not check them; it relies on the client to send
\* a request only from the screen that offers it.
InLobbyScreen(p) == roomNumber[p] = NoRoom
InWaitingRoom(p) == InRoom(p) /\ ~inMatch[p]
InMatchScreen(p) == InRoom(p) /\ inMatch[p]
HostScreen(p) == InRoom(p) /\ HasHost(RoomOf(p)) /\ IsHost(RoomOf(p), p)

SessionStep(p) == Connect(p) \/ Disconnect(p) \/ DisconnectUndefined(p)

LobbyStep(p) ==
  \/ RoomCreation(p)
  \/ \E r \in DOMAIN rooms : RoomJoin(p, r) \/ RoomInfoUndefined(p, r)

WaitingRoomStep(p) ==
  \/ RoomLeave(p)
  \/ PlayerToObserver(p)
  \/ ObserverToPlayer(p)
  \/ \E isReady \in BOOLEAN : PlayerState(p, isReady)

HostStep(p) ==
  \/ \E t \in Players : RoomLeaveKick(p, t)
  \/ \E i \in 1 .. Cardinality(Players) : ChangeHost(p, i)
  \/ \E n \in TeamSizes : SetPlayersPerTeam(p, n)
  \/ SwitchObserverMode(p)

MatchStep(p) == MatchLeave(p) \/ MatchUndefined(p)

ModeratorStep(p) == Breakroom(p) \/ \E t \in Players : KickPlayer(p, t)

\* Any request from any screen, except that a room is entered from the lobby.
Next ==
  \E p \in Players :
    \/ SessionStep(p)
    \/ InLobbyScreen(p) /\ LobbyStep(p)
    \/ WaitingRoomStep(p) \/ HostStep(p) \/ RoomStart(p)
    \/ MatchStep(p) \/ MatchEnding(p)
    \/ ModeratorStep(p)

Spec == Init /\ [][Next]_vars

\* Requests only from the screen that offers them, and no chat commands: the host starts the
\* match and ends it, the others enter it while it runs.
PlayNext ==
  \E p \in Players :
    \/ SessionStep(p)
    \/ InLobbyScreen(p) /\ LobbyStep(p)
    \/ InWaitingRoom(p) /\ WaitingRoomStep(p)
    \/ InWaitingRoom(p) /\ HostScreen(p) /\ HostStep(p)
    \/ InWaitingRoom(p) /\ (HostScreen(p) \/ RoomOf(p).started) /\ RoomStart(p)
    \/ InMatchScreen(p) /\ MatchStep(p)
    \/ InMatchScreen(p) /\ HostScreen(p) /\ MatchEnding(p)

PlaySpec == Init /\ [][PlayNext]_vars

----------------------------------------------------------------------------
(* Properties *)

\* The types of the variables.  Room numbers and the counter stay within 16 bits.
TypeOK ==
  /\ online \subseteq Players
  /\ roomNumber \in [Players -> 0 .. NumberSpace - 1]
  /\ inLobby \in [Players -> BOOLEAN]
  /\ inMatch \in [Players -> BOOLEAN]
  /\ DOMAIN rooms \subseteq 0 .. NumberSpace - 1
  /\ rooms \in [DOMAIN rooms -> Room]
  /\ idCounter \in 0 .. NumberSpace - 1
  /\ undefined \in BOOLEAN

\* The number a session holds and the vectors of the rooms tell the same story: a player is
\* in the vectors of the room it points to, and of no other.
MembersAgree ==
  /\ \A p \in Players : roomNumber[p] # NoRoom => roomNumber[p] \in DOMAIN rooms
  /\ \A r \in DOMAIN rooms : Members(rooms[r]) = {p \in Players : roomNumber[p] = r}

\* Nobody holds two seats of a room, as a player twice or as a player and an observer, after
\* any sequence of team switches, host changes and kicks.
SeatedOnce ==
  \A r \in DOMAIN rooms :
    LET room == rooms[r] IN
    /\ IsInjective(room.players) /\ IsInjective(room.observers)
    /\ ToSet(room.players) \cap ToSet(room.observers) = {}

\* Rooms hold raw session pointers: none may outlive its session, whichever of the three
\* branches of removeSession ran.
MembersOnline ==
  \A r \in DOMAIN rooms : Members(rooms[r]) \subseteq online

\* A session is in a match only in a room: leaving, kicks, closed rooms and lost connections
\* all clear the flag.
InMatchInsideRoom ==
  \A p \in Players : inMatch[p] => InRoom(p)

\* All of these together: whatever is asked for from whatever screen, the sessions and the
\* rooms agree, although each handler edits the vectors of a room (Room.cpp:423) and the
\* flags of its sessions (Player.cpp:747) in an order of its own.
RoomsConsistent == MembersAgree /\ SeatedOnce /\ MembersOnline /\ InMatchInsideRoom

\* Whoever enters a room finds a free seat, and switching teams does not overfill it.
\* (The host may lower playersPerTeam below the players already there.)
SeatsRespected ==
  [][\A r \in DOMAIN rooms \cap DOMAIN rooms' :
       LET before == rooms[r]
           after == rooms'[r]
       IN  /\ Len(after.players) > Len(before.players)
                => \/ Len(after.players) <= 2 * before.perTeam
                   \/ before.perTeam = 0 /\ Len(after.players) = 1
           /\ Len(after.observers) <= MaxObservers]_vars

\* The lobby list (m_isInLobby) and the rooms partition the sessions.
LobbyOrRoom ==
  \A p \in Players : inLobby[p] <=> roomNumber[p] = NoRoom

\* While a match runs its host is in it, whoever left, crashed or was promoted meanwhile.
MatchHasItsHost ==
  \A r \in DOMAIN rooms :
    rooms[r].started /\ HasHost(rooms[r]) => inMatch[Host(rooms[r])]

\* A room whose match is not running has no player in it: nobody is left behind in a match
\* that the server considers over.
NobodyLeftInMatch ==
  \A r \in DOMAIN rooms :
    ~rooms[r].started => \A p \in ToSet(rooms[r].players) : ~inMatch[p]

\* A player on a room's kicked list is not in that room: Room::wasPreviouslyKicked guards the
\* only way back.  True of the host's kick, refuted for the /kick command.
KickedAreOut ==
  \A r \in DOMAIN rooms : rooms[r].kicked \cap Members(rooms[r]) = {}

\* All of these together: wherever players are by their session, their room's match and its
\* kicked list, it is the same place.
EverybodyInPlace == LobbyOrRoom /\ MatchHasItsHost /\ NobodyLeftInMatch /\ KickedAreOut

\* The table of rooms implements the abstract directory: a room keeps its number, numbers are
\* given in order, and a room that is open is not replaced (RoomsManager.cpp:15).
Directory == INSTANCE RoomDirectory WITH
  dir <- [r \in DOMAIN rooms |-> Members(rooms[r])],
  last <- idCounter,
  Rooms <- 0 .. NumberSpace - 1
ImplementsDirectory == Directory!Spec

\* Room.cpp:492: "If empty, the room must be also closed."  A run refutes it: a kick and a
\* switch to the observers also take the last player out of m_players.
NoEmptyRoom ==
  \A r \in DOMAIN rooms : HasHost(rooms[r])

============================================================================
