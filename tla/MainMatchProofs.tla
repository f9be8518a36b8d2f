-------------------------- MODULE MainMatchProofs --------------------------
(***************************************************************************)
(* Proofs about MainMatch, for any number of players, team sizes, requests *)
(* in flight and matches.                                                  *)
(*                                                                         *)
(* Three things are to be shown together: that a request in flight still   *)
(* fits the seat it was sent from, that the room has been told what its    *)
(* server knows, and that the host who reports the end of a match is the   *)
(* one it had.  What they rest on is that a step moves nobody but those it *)
(* is about: Quiet(S), which MainRoomsProofs shows of each step of the     *)
(* rooms.                                                                  *)
(***************************************************************************)
EXTENDS MainMatch, TLAPS, FiniteSetTheorems

\* The rooms once more, with what is proved of them
RP == INSTANCE MainRoomsProofs WITH MaxRooms <- 1

LEMMA RoomsConstants == RP!ConstantsAssumption
BY ConstantsAssumption DEF RP!ConstantsAssumption

----------------------------------------------------------------------------
(* The rooms of MainMatch are those of the proofs. *)

LEMMA SameState ==
  /\ R!NoRoom = 0 /\ RP!NoRoom = 0
  /\ \A p : R!InRoom(p) = RP!InRoom(p)
  /\ \A p : R!RoomOf(p) = RP!RoomOf(p)
  /\ \A room : R!Members(room) = RP!Members(room)
  /\ \A room : R!HasHost(room) = RP!HasHost(room)
  /\ \A room : R!Host(room) = RP!Host(room)
  /\ \A p : R!HostScreen(p) = RP!HostScreen(p)
  /\ \A s : ToSet(s) = R!ToSet(s)
  /\ \A s : ToSet(s) = RP!ToSet(s)
BY Zenon DEF R!NoRoom, RP!NoRoom, R!InRoom, RP!InRoom, R!RoomOf, RP!RoomOf, R!Members, RP!Members,
   R!HasHost, RP!HasHost, R!Host, RP!Host, R!HostScreen, RP!HostScreen, R!IsHost, RP!IsHost,
   ToSet, R!ToSet, RP!ToSet

LEMMA SameScreens ==
  ASSUME NEW p
  PROVE  /\ R!InLobbyScreen(p) = RP!InLobbyScreen(p)
         /\ R!InWaitingRoom(p) = (RP!InRoom(p) /\ ~inMatch[p])
         /\ R!InMatchScreen(p) = (RP!InRoom(p) /\ inMatch[p])
         /\ R!Request(p) = RP!Request(p)
BY Zenon DEF R!InLobbyScreen, RP!InLobbyScreen, R!InWaitingRoom, R!InMatchScreen, R!InRoom,
   RP!InRoom, R!NoRoom, RP!NoRoom, R!Request, RP!Request

LEMMA SameTypes == R!TypeOK <=> RP!TypeOK
BY Zenon DEF R!TypeOK, RP!TypeOK, R!Room, RP!Room

LEMMA SameInit == R!Init => RP!Init
BY Zenon DEF R!Init, RP!Init, R!NoRoom, RP!NoRoom

LEMMA SameCardinality ==
  \A S : R!Cardinality(S) = Cardinality(S) /\ RP!Cardinality(S) = Cardinality(S)
BY Zenon DEF R!Cardinality, RP!Cardinality, Cardinality

LEMMA SameFiniteness == \A S : RP!IsFiniteSet(S) = IsFiniteSet(S)
BY Zenon DEF RP!IsFiniteSet, IsFiniteSet

LEMMA SameCreation == ASSUME NEW p, R!RoomCreation(p) PROVE RP!RoomCreation(p)
<1> DEFINE r == (idCounter + 1) % NumberSpace
<1>1. /\ RP!Request(p) /\ idCounter < CreationBound /\ idCounter' = r
      /\ UNCHANGED <<online, undefined>>
  BY DEF R!RoomCreation, R!Request, RP!Request
<1>2. CASE R!Cardinality(DOMAIN rooms) >= 1 /\ UNCHANGED <<rooms, R!sessionVars>>
  BY <1>1, <1>2, SameCardinality DEF RP!RoomCreation, R!sessionVars, RP!sessionVars
<1>3. CASE /\ R!Cardinality(DOMAIN rooms) < 1
           /\ R!EnterRoom(p, r)
           /\ \E perTeam \in TeamSizes, obsOn \in BOOLEAN :
                rooms' = [x \in DOMAIN rooms \cup {r} |->
                            IF x \in DOMAIN rooms THEN rooms[x] ELSE R!NewRoom(p, perTeam, obsOn)]
  <2>1. RP!Cardinality(DOMAIN rooms) < 1
    BY <1>3, SameCardinality
  <2>2. RP!EnterRoom(p, r)
    BY <1>3, Zenon DEF R!EnterRoom, RP!EnterRoom
  <2>3. \A perTeam, obsOn : R!NewRoom(p, perTeam, obsOn) = RP!NewRoom(p, perTeam, obsOn)
    BY Zenon DEF R!NewRoom, RP!NewRoom
  <2>4. \E perTeam \in TeamSizes, obsOn \in BOOLEAN :
          rooms' = [x \in DOMAIN rooms \cup {r} |->
                      IF x \in DOMAIN rooms THEN rooms[x] ELSE RP!NewRoom(p, perTeam, obsOn)]
    BY <1>3, <2>3
  <2> QED
    BY <1>1, <2>1, <2>2, <2>4, Zenon DEF RP!RoomCreation
<1> QED
  BY <1>2, <1>3, Zenon DEF R!RoomCreation

LEMMA SameJoin == ASSUME NEW p, NEW r, R!RoomJoin(p, r) PROVE RP!RoomJoin(p, r)
BY Zenon DEF R!RoomJoin, RP!RoomJoin, R!Request, RP!Request, R!EnterRoom, RP!EnterRoom,
   R!IsRoomFullObserverExcluded, RP!IsRoomFullObserverExcluded, R!IsObserverFull, RP!IsObserverFull,
   R!HasHost, RP!HasHost, R!AddPlayer, RP!AddPlayer, R!AddObserverPlayer, RP!AddObserverPlayer

LEMMA SameLeave == ASSUME NEW p, R!RoomLeave(p) PROVE RP!RoomLeave(p)
BY Zenon DEF R!RoomLeave, RP!RoomLeave, R!RemovePlayer, RP!RemovePlayer, R!PlayerRemoved,
       RP!PlayerRemoved, R!MustClose, RP!MustClose, R!PlayerErased, RP!PlayerErased,
       R!ObserverErased, RP!ObserverErased, R!Request, RP!Request, R!InRoom, RP!InRoom,
       R!HasHost, RP!HasHost, R!RoomOf, RP!RoomOf, R!NoRoom, RP!NoRoom, R!IsHost, RP!IsHost,
       R!Host, RP!Host, R!LeaveRoom, RP!LeaveRoom, R!Successors, RP!Successors, R!CloseRoom,
       RP!CloseRoom, R!Members, RP!Members, R!HostReplacedBy, RP!HostReplacedBy, R!IndexIn,
       RP!IndexIn, R!SwapHost, RP!SwapHost, R!ToSet, RP!ToSet, R!RemoveAt, RP!RemoveAt,
       R!sessionVars, RP!sessionVars

LEMMA SameDisconnect == ASSUME NEW p, R!Disconnect(p) PROVE RP!Disconnect(p)
BY Zenon DEF R!Disconnect, RP!Disconnect, R!RemoveHostFromMatch, RP!RemoveHostFromMatch,
       R!SuccessorsInMatch, RP!SuccessorsInMatch, R!RemovePlayer, RP!RemovePlayer,
       R!PlayerRemoved, RP!PlayerRemoved, R!MustClose, RP!MustClose, R!PlayerErased,
       RP!PlayerErased, R!ObserverErased, RP!ObserverErased, R!Request, RP!Request, R!InRoom,
       RP!InRoom, R!HasHost, RP!HasHost, R!RoomOf, RP!RoomOf, R!NoRoom, RP!NoRoom, R!IsHost,
       RP!IsHost, R!Host, RP!Host, R!LeaveRoom, RP!LeaveRoom, R!Successors, RP!Successors,
       R!CloseRoom, RP!CloseRoom, R!Members, RP!Members, R!HostReplacedBy, RP!HostReplacedBy,
       R!IndexIn, RP!IndexIn, R!SwapHost, RP!SwapHost, R!ToSet, RP!ToSet, R!RemoveAt,
       RP!RemoveAt, R!sessionVars, RP!sessionVars

LEMMA SameMatchLeave == ASSUME NEW p, R!MatchLeave(p) PROVE RP!MatchLeave(p)
BY Zenon DEF R!MatchLeave, RP!MatchLeave, R!RemoveHostFromMatch, RP!RemoveHostFromMatch,
       R!SuccessorsInMatch, RP!SuccessorsInMatch, R!Request, RP!Request, R!InRoom, RP!InRoom,
       R!HasHost, RP!HasHost, R!RoomOf, RP!RoomOf, R!NoRoom, RP!NoRoom, R!IsHost, RP!IsHost,
       R!Host, RP!Host, R!LeaveRoom, RP!LeaveRoom, R!Successors, RP!Successors, R!CloseRoom,
       RP!CloseRoom, R!Members, RP!Members, R!HostReplacedBy, RP!HostReplacedBy, R!IndexIn,
       RP!IndexIn, R!SwapHost, RP!SwapHost, R!ToSet, RP!ToSet, R!RemoveAt, RP!RemoveAt,
       R!sessionVars, RP!sessionVars

LEMMA SameBreakroom == ASSUME NEW p, R!Breakroom(p) PROVE RP!Breakroom(p)
BY Zenon DEF R!Breakroom, RP!Breakroom, R!Request, RP!Request, R!InRoom, RP!InRoom, R!RoomOf,
       RP!RoomOf, R!NoRoom, RP!NoRoom, R!CloseRoom, RP!CloseRoom, R!Members, RP!Members,
       R!LeaveRoom, RP!LeaveRoom, R!ToSet, RP!ToSet

LEMMA SameConnect == ASSUME NEW p, R!Connect(p) PROVE RP!Connect(p)
BY Zenon DEF R!Connect, RP!Connect, R!sessionVars, RP!sessionVars

LEMMA SameSwitches ==
  ASSUME NEW p
  PROVE  /\ R!PlayerToObserver(p) => RP!PlayerToObserver(p)
         /\ R!ObserverToPlayer(p) => RP!ObserverToPlayer(p)
         /\ R!PlayerState(p, TRUE) => RP!PlayerState(p, TRUE)
         /\ \A n : R!SetPlayersPerTeam(p, n) => RP!SetPlayersPerTeam(p, n)
         /\ \A i : R!ChangeHost(p, i) => RP!ChangeHost(p, i)
         /\ R!RoomStart(p) => RP!RoomStart(p)
         /\ R!MatchEnding(p) => RP!MatchEnding(p)
BY Zenon DEF R!PlayerToObserver, RP!PlayerToObserver, R!ObserverToPlayer, RP!ObserverToPlayer,
       R!PlayerState, RP!PlayerState, R!SetPlayersPerTeam, RP!SetPlayersPerTeam, R!ChangeHost,
       RP!ChangeHost, R!RoomStart, RP!RoomStart, R!MatchEnding, RP!MatchEnding, R!IsObserverFull,
       RP!IsObserverFull, R!Request, RP!Request, R!InRoom, RP!InRoom, R!RoomOf, RP!RoomOf,
       R!NoRoom, RP!NoRoom, R!HasHost, RP!HasHost, R!Members, RP!Members, R!IndexIn, RP!IndexIn,
       R!SwapHost, RP!SwapHost, R!ToSet, RP!ToSet, R!RemoveAt, RP!RemoveAt, R!sessionVars,
       RP!sessionVars

----------------------------------------------------------------------------
(* The invariant *)

\* The 16-bit counter of rooms does not wrap around; see MainRoomsProofs.
NoWrap == CreationBound < NumberSpace

\* handleRoomCreation admits no second room.
OneRoom == IsFiniteSet(DOMAIN rooms) /\ Cardinality(DOMAIN rooms) <= 1

\* The team and what is told of it fit each other, the seat and the mode.
AsTold(p) ==
  /\ told[p] \in {None, team[p]}
  /\ RP!Sits(p) => IF TeamBased(mode) THEN team[p] \in Sides
                   ELSE team[p] \in {"all", "zombie"} \/ told[p] = "blue"
  /\ RP!Watches(p) => team[p] = "observer"

\* A switch in flight asks for something its sender's screen offered: the seat is still the one
\* it was sent from, whatever has become of the mode and of the team.
FitsSeat(p) ==
  Asked(p, "switch") =>
    /\ RP!Sits(p) =>
         \/ request[p].to = "observer"
         \/ TeamBased(request[p].mode) /\ request[p].to \in Sides \ {request[p].told}
         \/ ~TeamBased(request[p].mode) /\ request[p].to = "zombie"
    /\ RP!Watches(p) =>
         request[p].to \in IF TeamBased(request[p].mode) THEN Sides ELSE {"all"}

TeamsInv == \A p \in Players : (p \in misled \/ AsTold(p)) /\ FitsSeat(p)

\* While the end of a match is on its way, its sender is the host and in the match, and nobody
\* it names has had a result counted.
EndStands(p) ==
  Asked(p, "end") /\ RP!InRoom(p) =>
    RP!HostScreen(p) /\ inMatch[p] /\ request[p].listed \subseteq due

ResultsInv ==
  /\ ~wronged
  /\ overpaid => hostMoved
  /\ \A p \in Players : inMatch[p] => p \in due
  /\ hostMoved \/ \A p \in Players : EndStands(p)

\* What has been stored, and what may still be, has been found.
Stored(p) == battery[p] + (IF p \in banked THEN 0 ELSE pickedUp[p])

PurseInv ==
  \A p \in Players : pickedUp[p] <= found[p] /\ (p \in stayed \/ Stored(p) <= found[p])

MatchInv ==
  /\ RP!IInv
  /\ OneRoom
  /\ TypeOK
  /\ TeamsInv
  /\ ResultsInv
  /\ PurseInv

----------------------------------------------------------------------------
(* What a step leaves as it was *)

\* Those outside S who stay in their room keep their seats, whoever hosts it remains the host,
\* and nobody else leaves or enters a match.
Quiet(S) == RP!SeatsKept(S) /\ RP!HostsKept(S) /\ RP!FlagsKept(S)

\* More exceptions leave less to be shown.
LEMMA QuietGrows ==
  ASSUME NEW S, NEW T, S \subseteq T, Quiet(S)
  PROVE  Quiet(T)
BY DEF Quiet, RP!SeatsKept, RP!HostsKept, RP!FlagsKept

LEMMA RoomsUntouched ==
  ASSUME UNCHANGED roomVars
  PROVE  Quiet({})
BY DEF roomVars, Quiet, RP!SeatsKept, RP!HostsKept, RP!FlagsKept, RP!Sits, RP!Watches,
       RP!HostScreen, RP!InRoom, RP!RoomOf, RP!IsHost, RP!Host, RP!HasHost

\* Steps about p and the rooms: a join,
LEMMA JoiningIsQuiet ==
  ASSUME RP!IInv, NEW p \in Players, NEW r \in DOMAIN rooms,
         RP!InLobbyScreen(p), RP!RoomJoin(p, r)
  PROVE  Quiet({p})
<1>1. RP!FlagsKept({})
  BY RP!FlagsUntouched, RoomsConstants
<1>2. RP!SeatsKept({p}) /\ RP!HostsKept({p})
  BY RP!RoomJoinKeepsSeats, RoomsConstants
<1> QED
  BY <1>1, <1>2 DEF Quiet, RP!FlagsKept

\* a change to the observers' seats
LEMMA WatchingIsQuiet ==
  ASSUME RP!IInv, NEW p \in Players, RP!PlayerToObserver(p)
  PROVE  Quiet({p}) /\ RP!Watches(p)'
<1>1. RP!FlagsKept({})
  BY RP!FlagsUntouched, RoomsConstants
<1>2. RP!SeatsKept({p}) /\ RP!HostsKept({p}) /\ RP!Watches(p)'
  BY RP!ToObserverKeepsSeats, RoomsConstants
<1> QED
  BY <1>1, <1>2 DEF Quiet, RP!FlagsKept

\* and back,
LEMMA SittingIsQuiet ==
  ASSUME RP!IInv, NEW p \in Players, RP!ObserverToPlayer(p)
  PROVE  Quiet({p}) /\ RP!Sits(p)'
<1>1. RP!FlagsKept({})
  BY RP!FlagsUntouched, RoomsConstants
<1>2. RP!SeatsKept({p}) /\ RP!HostsKept({p}) /\ RP!Sits(p)'
  BY RP!ToPlayerKeepsSeats, RoomsConstants
<1> QED
  BY <1>1, <1>2 DEF Quiet, RP!FlagsKept

\* a change of the settings,
LEMMA SettingIsQuiet ==
  ASSUME RP!IInv, NEW p \in Players, \E n \in TeamSizes : RP!SetPlayersPerTeam(p, n)
  PROVE  Quiet({})
<1>1. RP!FlagsKept({})
  BY RP!FlagsUntouched, RoomsConstants
<1>2. RP!SeatsKept({}) /\ RP!HostsKept({})
  BY RP!EditsKeepSeats, RoomsConstants
<1> QED
  BY <1>1, <1>2 DEF Quiet

\* the steps of MainRooms that are taken as they are,
LEMMA RoomStepIsQuiet ==
  ASSUME RP!IInv, NEW p \in Players, RoomStep(p)
  PROVE  Quiet({p}) /\ RP!SeatsKept({})
<1>1. CASE R!Connect(p)
  <2>1. RP!Connect(p)
    BY <1>1, SameConnect
  <2> QED
    BY <2>1, RP!ConnectKeepsSeats, RP!FlagsUntouched, RoomsConstants, QuietGrows DEF Quiet
<1>2. CASE R!RoomLeave(p)
  <2>1. RP!RoomLeave(p)
    BY <1>2, SameLeave
  <2> QED
    BY <2>1, RP!RoomLeaveKeepsSeats, RP!SomeLeave, RoomsConstants, QuietGrows DEF Quiet
<1>3. CASE R!PlayerState(p, TRUE)
  <2>1. RP!PlayerState(p, TRUE)
    BY <1>3, SameSwitches
  <2> QED
    BY <2>1, RP!EditsKeepSeats, RP!FlagsUntouched, RoomsConstants, QuietGrows DEF Quiet
<1>4. CASE R!MatchLeave(p)
  <2>1. RP!MatchLeave(p)
    BY <1>4, SameMatchLeave
  <2>2. RP!SeatsKept({}) /\ RP!HostsKept({}) /\ RP!FlagsKept({p})
    BY <2>1, RP!MatchLeaveKeepsSeats, RP!MatchLeaveKeepsFlags, RoomsConstants
  <2> QED
    BY <2>2 DEF Quiet, RP!SeatsKept, RP!HostsKept
<1>5. CASE R!Breakroom(p)
  <2>1. RP!Breakroom(p)
    BY <1>5, SameBreakroom
  <2> QED
    BY <2>1, RP!BreakroomKeepsSeats, RP!SomeLeave, RoomsConstants, QuietGrows DEF Quiet
<1> QED
  BY <1>1, <1>2, <1>3, <1>4, <1>5 DEF RoomStep

\* and a connection lost, which concerns nobody who stays.
LEMMA LosingIsQuiet ==
  ASSUME RP!IInv, NEW p \in Players, ConnectionLost(p)
  PROVE  Quiet({})
<1>1. RP!Disconnect(p)
  BY SameDisconnect DEF ConnectionLost
<1> QED
  BY <1>1, RP!DisconnectKeepsSeats, RP!SomeLeave, RoomsConstants DEF Quiet

----------------------------------------------------------------------------
(* The rooms *)

\* Every step is one of MainRooms, or leaves the rooms alone.
LEMMA NextOfRooms ==
  ASSUME Next
  PROVE  RP!Next \/ UNCHANGED roomVars
<1> SUFFICES ASSUME NEW p \in Players,
                    \/ RoomCreation(p) \/ \E r \in DOMAIN rooms : RoomJoin(p, r)
                    \/ AskToSwitch(p) \/ SwitchStep(p) \/ ChangeMode(p)
                    \/ AskToStart(p) \/ RoomStart(p)
                    \/ ReportEnd(p) \/ MatchEnding(p)
                    \/ \E q \in Players : Battery(p, q)
                    \/ RequestIgnored(p)
                    \/ RoomStep(p) \/ ConnectionLost(p)
                    \/ \E i \in 1 .. Cardinality(Players) : ChangeHost(p, i)
             PROVE  RP!Next \/ UNCHANGED roomVars
  BY DEF Next
<1>1. CASE RoomCreation(p)
  BY <1>1, SameCreation, SameScreens DEF RoomCreation, RP!Next, RP!LobbyStep
<1>2. CASE \E r \in DOMAIN rooms : RoomJoin(p, r)
  BY <1>2, SameJoin, SameScreens DEF RoomJoin, RP!Next, RP!LobbyStep
<1>3. CASE SwitchStep(p)
  BY <1>3, SameSwitches DEF SwitchStep, SwitchSides, BecomeZombie, BecomeObserver, BecomePlayer,
     SwitchRefused, RP!Next, RP!WaitingRoomStep
<1>4. CASE ChangeMode(p)
  BY <1>4, SameSwitches DEF ChangeMode, RP!Next, RP!HostStep
<1>5. CASE RoomStart(p) \/ MatchEnding(p)
  BY <1>5, SameSwitches DEF RoomStart, MatchEnding, RP!Next
<1>6. CASE RoomStep(p)
  <2>1. \/ RP!Connect(p) \/ RP!RoomLeave(p) \/ RP!PlayerState(p, TRUE)
        \/ RP!MatchLeave(p) \/ RP!Breakroom(p)
    BY <1>6, SameConnect, SameLeave, SameSwitches, SameMatchLeave, SameBreakroom DEF RoomStep
  <2> QED
    BY <2>1 DEF RP!Next, RP!SessionStep, RP!WaitingRoomStep, RP!MatchStep, RP!ModeratorStep
<1>7. CASE ConnectionLost(p)
  BY <1>7, SameDisconnect DEF ConnectionLost, RP!Next, RP!SessionStep
<1>8. CASE \E i \in 1 .. Cardinality(Players) : ChangeHost(p, i)
  BY <1>8, SameSwitches, SameCardinality DEF ChangeHost, RP!Next, RP!HostStep
<1>9. CASE \/ AskToSwitch(p) \/ AskToStart(p) \/ ReportEnd(p) \/ RequestIgnored(p)
           \/ \E q \in Players : Battery(p, q)
  BY <1>9 DEF AskToSwitch, AskToStart, ReportEnd, RequestIgnored, Battery
<1> QED
  BY <1>1, <1>2, <1>3, <1>4, <1>5, <1>6, <1>7, <1>8, <1>9

\* The rooms' own invariant, and the limit of one room
LEMMA RoomsPreserved ==
  ASSUME NoWrap, RP!IInv, Next \/ UNCHANGED roomVars
  PROVE  RP!IInv'
<1>1. RP!Next \/ UNCHANGED RP!vars
  BY NextOfRooms DEF roomVars, RP!vars
<1> QED
  BY <1>1, RP!NextPreserves, RoomsConstants DEF NoWrap, RP!NoWrap

LEMMA OneRoomPreserved ==
  ASSUME RP!IInv, OneRoom, Next \/ UNCHANGED roomVars
  PROVE  OneRoom'
<1>1. RP!Next \/ UNCHANGED RP!vars
  BY NextOfRooms DEF roomVars, RP!vars
<1>2. RP!IsFiniteSet(DOMAIN rooms) /\ RP!Cardinality(DOMAIN rooms) <= 1
  BY SameCardinality, SameFiniteness DEF OneRoom
<1>3. RP!IsFiniteSet(DOMAIN rooms)' /\ (RP!Cardinality(DOMAIN rooms) <= 1)'
  BY <1>1, <1>2, RP!RoomsLimited, RoomsConstants
<1> QED
  BY <1>3, SameCardinality, SameFiniteness DEF OneRoom

\* Whoever is in a room is in the one room there is.
LEMMA SameRoom ==
  ASSUME OneRoom, NEW r \in DOMAIN rooms, NEW s \in DOMAIN rooms
  PROVE  r = s
<1> SUFFICES ASSUME r # s PROVE FALSE
  OBVIOUS
<1>1. IsFiniteSet({r}) /\ Cardinality({r}) = 1
  BY FS_Singleton
<1>2. Cardinality({r} \cup {s}) = 2
  BY <1>1, FS_AddElement
<1>3. {r} \cup {s} \subseteq DOMAIN rooms /\ Cardinality(DOMAIN rooms) \in Nat
  BY FS_CardinalityType DEF OneRoom
<1>4. Cardinality({r} \cup {s}) <= Cardinality(DOMAIN rooms)
  BY <1>3, FS_Subset DEF OneRoom
<1> QED
  BY <1>2, <1>3, <1>4 DEF OneRoom

----------------------------------------------------------------------------
(* Seats *)

\* What the rooms' invariant says of one player
Placed(p) ==
  /\ roomNumber[p] # 0 <=> RP!InRoom(p)
  /\ RP!InRoom(p) <=> RP!Sits(p) \/ RP!Watches(p)
  /\ ~(RP!Sits(p) /\ RP!Watches(p))
  /\ Seated(p) \subseteq Players
  /\ p \in Seated(p) <=> RP!Sits(p)
  /\ Observing(p) <=> RP!Watches(p)
  /\ inMatch[p] => RP!InRoom(p)

LEMMA PlayersPlaced ==
  ASSUME RP!IInv, NEW p \in Players
  PROVE  Placed(p)
<1>1. roomNumber[p] # 0 <=> RP!InRoom(p)
  BY SameState DEF RP!IInv, RP!MembersAgree, RP!InRoom
<1>2. ASSUME RP!InRoom(p)
      PROVE  /\ p \in RP!ToSet(RP!RoomOf(p).players) \cup RP!ToSet(RP!RoomOf(p).observers)
             /\ RP!ToSet(RP!RoomOf(p).players) \cap RP!ToSet(RP!RoomOf(p).observers) = {}
             /\ RP!ToSet(RP!RoomOf(p).players) \subseteq Players
  <2>1. /\ p \in RP!Members(RP!RoomOf(p)) /\ RP!Members(RP!RoomOf(p)) \subseteq Players
        /\ RP!ToSet(RP!RoomOf(p).players) \cap RP!ToSet(RP!RoomOf(p).observers) = {}
    BY <1>2, RP!OwnRoom, RoomsConstants
  <2> QED
    BY <2>1 DEF RP!Members
<1>3. inMatch[p] => RP!InRoom(p)
  BY DEF RP!IInv, RP!InMatchInsideRoom
<1>4. RP!InRoom(p) <=> RP!Sits(p) \/ RP!Watches(p)
  BY <1>2 DEF RP!Sits, RP!Watches
<1>5. ~(RP!Sits(p) /\ RP!Watches(p))
  BY <1>2 DEF RP!Sits, RP!Watches
<1>6. Seated(p) = IF RP!InRoom(p) THEN RP!ToSet(RP!RoomOf(p).players) ELSE {}
  BY SameState DEF Seated
<1>7. p \in Seated(p) <=> RP!Sits(p)
  BY <1>6 DEF RP!Sits
<1>8. Observing(p) <=> RP!Watches(p)
  BY <1>5, <1>7, SameState DEF Observing, RP!Watches
<1> QED
  BY <1>1, <1>2, <1>3, <1>4, <1>5, <1>6, <1>7, <1>8 DEF Placed

LEMMA OneSeatNext ==
  ASSUME RP!IInv'
  PROVE  \A p : ~(RP!Sits(p)' /\ RP!Watches(p)')
BY DEF RP!IInv, RP!SeatedOnce, RP!Sits, RP!Watches, RP!InRoom, RP!RoomOf

----------------------------------------------------------------------------
(* Batteries *)

PurseTypes ==
  /\ pickedUp \in [Players -> 0 .. MaxPicks] /\ found \in [Players -> 0 .. MaxPicks]
  /\ battery \in [Players -> 0 .. MaxBattery]
  /\ banked \subseteq Players /\ stayed \subseteq Players

\* What a step does to the batteries
LEMMA PurseSteps ==
  ASSUME RP!IInv, Next
  PROVE  \/ LeaversLoseBatteries \/ UNCHANGED purseVars
         \/ \E p, q \in Players : Battery(p, q)
         \/ \E S \in SUBSET Players : StoreEndMatchStats(S)
<1> SUFFICES ASSUME NEW p \in Players,
                    \/ RoomCreation(p) \/ \E r \in DOMAIN rooms : RoomJoin(p, r)
                    \/ AskToSwitch(p) \/ SwitchStep(p) \/ ChangeMode(p)
                    \/ AskToStart(p) \/ RoomStart(p)
                    \/ ReportEnd(p) \/ MatchEnding(p)
                    \/ \E q \in Players : Battery(p, q)
                    \/ RequestIgnored(p)
                    \/ RoomStep(p) \/ ConnectionLost(p)
                    \/ \E i \in 1 .. Cardinality(Players) : ChangeHost(p, i)
             PROVE  \/ LeaversLoseBatteries \/ UNCHANGED purseVars
                    \/ \E q \in Players : Battery(p, q)
                    \/ \E S \in SUBSET Players : StoreEndMatchStats(S)
  BY DEF Next
<1>1. CASE SwitchStep(p)
  BY <1>1 DEF SwitchStep, SwitchSides, BecomeZombie, BecomeObserver, BecomePlayer, SwitchRefused,
     SwitchAnswered
<1>2. CASE MatchEnding(p)
  BY <1>2, PlayersPlaced DEF MatchEnding, Placed
<1>3. CASE \/ AskToSwitch(p) \/ AskToStart(p) \/ ReportEnd(p) \/ RequestIgnored(p)
  BY <1>3 DEF AskToSwitch, AskToStart, ReportEnd, RequestIgnored
<1>4. CASE \/ RoomCreation(p) \/ \E r \in DOMAIN rooms : RoomJoin(p, r)
           \/ ChangeMode(p) \/ RoomStart(p) \/ RoomStep(p) \/ ConnectionLost(p)
           \/ \E i \in 1 .. Cardinality(Players) : ChangeHost(p, i)
  BY <1>4 DEF RoomCreation, RoomJoin, ChangeMode, RoomStart, RoomStep, NothingElse, ConnectionLost,
     ChangeHost
<1> QED
  BY <1>1, <1>2, <1>3, <1>4

\* m_batteryObtainedInMatch is reset with the room left; what has been stored is no longer
\* to be stored.
LEMMA PursePreserved ==
  ASSUME RP!IInv, PurseTypes, PurseInv, Next
  PROVE  PurseTypes' /\ PurseInv'
<1> USE ConstantsAssumption
<1>1. CASE UNCHANGED purseVars
  BY <1>1 DEF purseVars, PurseTypes, PurseInv, Stored
<1>2. CASE LeaversLoseBatteries
  <2>1. /\ banked' \subseteq banked /\ UNCHANGED <<battery, found, stayed>>
        /\ pickedUp' \in [Players -> 0 .. MaxPicks]
        /\ \A p \in Players : \/ pickedUp'[p] = 0
                              \/ pickedUp'[p] = pickedUp[p] /\ (p \in banked' <=> p \in banked)
    BY <1>2 DEF LeaversLoseBatteries, Kept, StillThere, PurseTypes
  <2>2. PurseTypes'
    BY <2>1 DEF PurseTypes
  <2> QED
    BY <2>1, <2>2 DEF PurseTypes, PurseInv, Stored
<1>3. ASSUME NEW p \in Players, NEW q \in Players, Battery(p, q)
      PROVE  PurseTypes' /\ PurseInv'
  <2>1. /\ found[q] < MaxPicks /\ UNCHANGED <<battery, banked, stayed>>
        /\ pickedUp' = [pickedUp EXCEPT ![q] = @ + 1]
        /\ found' = [found EXCEPT ![q] = @ + 1]
    BY <1>3 DEF Battery, BatteryObtained
  <2>2. PurseTypes'
    BY <2>1 DEF PurseTypes, PurseInv
  <2> QED
    BY <2>1, <2>2 DEF PurseTypes, PurseInv, Stored
<1>4. ASSUME NEW S \in SUBSET Players, StoreEndMatchStats(S)
      PROVE  PurseTypes' /\ PurseInv'
  <2>1. /\ UNCHANGED <<pickedUp, found>>
        /\ \A q \in Players : battery'[q] = IF q \in S THEN BatteryStored(q) ELSE battery[q]
        /\ banked' = banked \cup {q \in S : pickedUp[q] > 0}
        /\ stayed' = stayed \cup (S \cap banked)
    BY <1>4 DEF StoreEndMatchStats
  <2>2. \A q \in Players : /\ BatteryStored(q) \in 0 .. MaxBattery
                           /\ BatteryStored(q) <= battery[q] + pickedUp[q]
    BY DEF PurseTypes, BatteryStored
  <2>3. PurseTypes'
    BY <1>4, <2>1, <2>2 DEF PurseTypes, StoreEndMatchStats
  <2>4. ASSUME NEW q \in Players PROVE q \in stayed' \/ Stored(q)' <= found'[q]
    BY <2>1, <2>2, <2>4 DEF PurseTypes, PurseInv, Stored
  <2> QED
    BY <2>1, <2>3, <2>4 DEF PurseInv
<1> QED
  BY <1>1, <1>2, <1>3, <1>4, PurseSteps

----------------------------------------------------------------------------
(* Teams *)

SeatTypes ==
  /\ mode \in Modes
  /\ team \in [Players -> Teams \cup {None}] /\ told \in [Players -> Teams \cup {None}]
  /\ misled \subseteq Players
  /\ request \in [Players -> Requests \cup {None}]

\* A request to switch is for a team.
LEMMA SwitchAsked ==
  ASSUME SeatTypes, NEW p \in Players, Asked(p, "switch")
  PROVE  request[p].to \in Teams
<1>1. request[p] \in Requests
  BY DEF SeatTypes, Asked
<1>2. request[p].kind = "switch"
  BY DEF Asked
<1> QED
  BY <1>1, <1>2 DEF Requests

\* An answered request, or none.
LEMMA RequestsShrink ==
  ASSUME SeatTypes, NEW p \in Players, Answered(p)
  PROVE  /\ request' \in [Players -> Requests \cup {None}]
         /\ request'[p] = None
         /\ \A q \in Players : request'[q] \in {request[q], None}
BY DEF SeatTypes, Answered

LEMMA SeatsTyped ==
  ASSUME NEW teams \in [Players -> Teams \cup {None}],
         NEW announced \in [Players -> Teams \cup {None}],
         NEW confused \in SUBSET Players, Seats(teams, announced, confused)
  PROVE  /\ team' \in [Players -> Teams \cup {None}] /\ told' \in [Players -> Teams \cup {None}]
         /\ misled' \subseteq Players
BY DEF Seats, Kept, StillThere

\* Who is given no other team, and told of none
LEMMA OthersAsTold ==
  ASSUME RP!IInv, TeamsInv, NEW S, RP!SeatsKept(S), UNCHANGED mode,
         NEW teams, NEW announced, NEW confused, Seats(teams, announced, confused),
         NEW q \in Players \ S, teams[q] = team[q], announced[q] = told[q],
         q \in misled => q \in confused
  PROVE  q \in misled' \/ AsTold(q)'
<1>1. CASE roomNumber'[q] = 0
  <2>1. team'[q] = None /\ told'[q] = None
    BY <1>1, SameState DEF Seats, Kept
  <2>2. ~RP!Sits(q)' /\ ~RP!Watches(q)'
    BY <1>1, SameState DEF RP!Sits, RP!Watches, RP!InRoom
  <2> QED
    BY <2>1, <2>2 DEF AsTold
<1>2. CASE roomNumber'[q] # 0
  <2>1. (RP!Sits(q)' <=> RP!Sits(q)) /\ (RP!Watches(q)' <=> RP!Watches(q))
    BY <1>2, SameState DEF RP!SeatsKept
  <2>2. /\ team'[q] = team[q] /\ told'[q] = told[q]
        /\ q \in misled => q \in misled'
    BY <1>2, SameState DEF Seats, Kept, StillThere
  <2>3. q \in misled \/ AsTold(q)
    BY DEF TeamsInv
  <2> QED
    BY <2>1, <2>2, <2>3 DEF AsTold
<1> QED
  BY <1>1, <1>2

\* Who sends no request, and keeps the seat
LEMMA OthersFit ==
  ASSUME TeamsInv, NEW S, RP!SeatsKept(S), NEW q \in Players \ S, request'[q] \in {request[q], None}
  PROVE  FitsSeat(q)'
<1> SUFFICES ASSUME Asked(q, "switch")' PROVE FitsSeat(q)'
  BY DEF FitsSeat
<1>1. request'[q] = request[q] /\ Asked(q, "switch")
  BY DEF Asked
<1>2. RP!Sits(q)' => RP!Sits(q)
  BY SameState DEF RP!SeatsKept, RP!Sits, RP!InRoom
<1>3. RP!Watches(q)' => RP!Watches(q)
  BY SameState DEF RP!SeatsKept, RP!Watches, RP!InRoom
<1>4. FitsSeat(q)
  BY DEF TeamsInv
<1> QED
  BY <1>1, <1>2, <1>3, <1>4 DEF FitsSeat

\* What is not in flight fits every seat.
LEMMA NothingFits ==
  ASSUME NEW q, request'[q] = None
  PROVE  FitsSeat(q)'
BY DEF FitsSeat, Asked

\* Steps that give nobody another team, and send no switch
LEMMA TeamsUnchanged ==
  ASSUME RP!IInv, SeatTypes, TeamsInv, RP!SeatsKept({}), UNCHANGED mode, SeatsUnchanged,
         request' \in [Players -> Requests \cup {None}],
         \A q \in Players : request'[q] \in {request[q], None}
  PROVE  SeatTypes' /\ TeamsInv'
<1>1. SeatTypes'
  BY SeatsTyped DEF SeatTypes, SeatsUnchanged
<1>2. ASSUME NEW q \in Players
      PROVE  (q \in misled' \/ AsTold(q)') /\ FitsSeat(q)'
  BY OthersAsTold, OthersFit DEF SeatsUnchanged
<1> QED
  BY <1>1, <1>2 DEF TeamsInv

\* Where no variable of the seats changes: only a request is sent.
LEMMA TeamsUntouched ==
  ASSUME RP!IInv, SeatTypes, TeamsInv, UNCHANGED <<roomVars, mode, seatVars>>,
         NEW p \in Players, NEW r \in Requests \cup {None},
         request' = [request EXCEPT ![p] = r],
         FitsSeat(p)'
  PROVE  SeatTypes' /\ TeamsInv'
<1>1. SeatTypes'
  BY DEF SeatTypes, seatVars
<1>2. RP!SeatsKept({})
  BY RoomsUntouched DEF Quiet
<1>3. ASSUME NEW q \in Players
      PROVE  FitsSeat(q)'
  <2>1. q # p => request'[q] = request[q]
    BY DEF SeatTypes
  <2> QED
    BY <1>2, <2>1, OthersFit
<1>4. ASSUME NEW q \in Players
      PROVE  q \in misled' \/ AsTold(q)'
  BY DEF TeamsInv, AsTold, seatVars, roomVars, RP!Sits, RP!Watches, RP!InRoom, RP!RoomOf
<1> QED
  BY <1>1, <1>3, <1>4 DEF TeamsInv

\* The client offers only what fits its seat.
LEMMA AskToSwitchTeams ==
  ASSUME RP!IInv, SeatTypes, TeamsInv, NEW p \in Players, AskToSwitch(p)
  PROVE  SeatTypes' /\ TeamsInv'
<1>1. PICK t \in Offered(p) :
        request' = [request EXCEPT ![p] = [kind |-> "switch", to |-> t, mode |-> mode, told |-> told[p]]]
  BY DEF AskToSwitch, Send
<1> DEFINE r == [kind |-> "switch", to |-> t, mode |-> mode, told |-> told[p]]
<1>2. t \in Teams
  BY DEF Offered, Teams, Sides
<1>3. r \in Requests
  BY <1>2 DEF Requests, SeatTypes
<1>4. UNCHANGED <<roomVars, mode, seatVars>>
  BY DEF AskToSwitch
<1>5. request'[p] = r
  BY <1>1 DEF SeatTypes
<1>6. Placed(p)
  BY PlayersPlaced
<1>7. /\ RP!Sits(p)' => RP!Sits(p)
      /\ RP!Watches(p)' => RP!Watches(p)
  BY <1>4 DEF roomVars, RP!Sits, RP!Watches, RP!InRoom, RP!RoomOf
<1>8. RP!Watches(p) => t \in IF TeamBased(mode) THEN Sides ELSE {"all"}
  BY <1>6 DEF Offered, Placed
<1>9. RP!Sits(p) => \/ t = "observer"
                    \/ TeamBased(mode) /\ t \in Sides \ {told[p]}
                    \/ ~TeamBased(mode) /\ t = "zombie"
  BY <1>6 DEF Offered, Placed
<1>10. FitsSeat(p)'
  BY <1>5, <1>7, <1>8, <1>9 DEF FitsSeat
<1> QED
  BY <1>1, <1>3, <1>4, <1>10, TeamsUntouched

\* The answer to a switch: only p's own seat and team change, to what the room is told.
LEMMA SwitchTeams ==
  ASSUME RP!IInv, SeatTypes, TeamsInv, NEW p \in Players, RP!SeatsKept({p}),
         NEW teams \in [Players -> Teams \cup {None}], SwitchAnswered(p, teams),
         Asked(p, "switch"),
         \A q \in Players \ {p} : teams[q] = team[q],
         AsExpected(p) /\ p \notin misled =>
           /\ teams[p] = request[p].to
           /\ RP!Sits(p)' => IF TeamBased(mode) THEN teams[p] \in Sides
                             ELSE teams[p] \in {"all", "zombie"}
           /\ RP!Watches(p)' => teams[p] = "observer"
  PROVE  SeatTypes' /\ TeamsInv'
<1> DEFINE announced == [told EXCEPT ![p] = request[p].to]
           confused == IF AsExpected(p) THEN misled ELSE misled \cup {p}
<1>1. Seats(teams, announced, confused) /\ UNCHANGED mode /\ Answered(p)
  BY DEF SwitchAnswered
<1>2. announced \in [Players -> Teams \cup {None}] /\ confused \in SUBSET Players
  BY SwitchAsked DEF SeatTypes
<1>3. announced[p] = request[p].to /\ \A q \in Players \ {p} : announced[q] = told[q]
  BY DEF SeatTypes
<1>4. p \in confused \/ (AsExpected(p) /\ p \notin misled)
  OBVIOUS
<1>5. \A q \in Players : q \in misled => q \in confused
  OBVIOUS
<1> HIDE DEF announced, confused
<1>6. SeatTypes'
  BY <1>1, <1>2, SeatsTyped, RequestsShrink DEF SeatTypes
<1>7. ASSUME NEW q \in Players \ {p}
      PROVE  (q \in misled' \/ AsTold(q)') /\ FitsSeat(q)'
  BY <1>1, <1>3, <1>5, OthersAsTold, OthersFit, RequestsShrink
<1>8. FitsSeat(p)'
  BY <1>1, RequestsShrink, NothingFits
<1>9. p \in misled' \/ AsTold(p)'
  <2>1. CASE roomNumber'[p] = 0
    <3>1. team'[p] = None /\ told'[p] = None
      BY <1>1, <2>1, SameState DEF Seats, Kept
    <3>2. ~RP!Sits(p)' /\ ~RP!Watches(p)'
      BY <2>1, SameState DEF RP!Sits, RP!Watches, RP!InRoom
    <3> QED
      BY <3>1, <3>2 DEF AsTold
  <2>2. CASE roomNumber'[p] # 0 /\ p \in confused
    BY <1>1, <2>2, SameState DEF Seats, StillThere
  <2>3. CASE roomNumber'[p] # 0 /\ AsExpected(p) /\ p \notin misled
    <3>1. team'[p] = teams[p] /\ told'[p] = teams[p] /\ mode' = mode
      BY <1>1, <1>3, <2>3, SameState DEF Seats, Kept
    <3> QED
      BY <2>3, <3>1 DEF AsTold
  <2> QED
    BY <1>4, <2>1, <2>2, <2>3
<1> QED
  BY <1>6, <1>7, <1>8, <1>9 DEF TeamsInv

\* Who sits and is not misled has a team that fits the mode.
LEMMA SeatedTeams ==
  ASSUME TeamsInv, NEW p \in Players, p \notin misled, RP!Sits(p), told[p] # None
  PROVE  told[p] = team[p] /\ (TeamBased(mode) => team[p] \in Sides)
BY DEF TeamsInv, AsTold

\* changePlayerTeam, outcome by outcome: unless the switch misled its player, what the room
\* is told is the team given.
LEMMA SwitchSidesTeams ==
  ASSUME RP!IInv, SeatTypes, TeamsInv, NEW p \in Players, SwitchSides(p)
  PROVE  SeatTypes' /\ TeamsInv'
<1> DEFINE teams == ToOtherSide(p)
<1>1. /\ Asked(p, "switch") /\ p \in Seated(p) /\ request[p].to \in Sides \cup {"all"}
      /\ UNCHANGED roomVars /\ SwitchAnswered(p, teams)
  BY DEF SwitchSides
<1>2. /\ teams \in [Players -> Teams \cup {None}]
      /\ teams[p] = IF team[p] = "blue" THEN "red" ELSE "blue"
      /\ \A q \in Players \ {p} : teams[q] = team[q]
  BY DEF SeatTypes, ToOtherSide, Teams
<1> HIDE DEF teams
<1>3. RP!SeatsKept({p})
  BY <1>1, RoomsUntouched, QuietGrows DEF Quiet
<1>4. RP!Sits(p) /\ ~RP!Watches(p)
  BY <1>1, PlayersPlaced DEF Placed
<1>5. ~RP!Watches(p)'
  BY <1>1, <1>4 DEF roomVars, RP!Watches, RP!InRoom, RP!RoomOf
<1>6. ASSUME AsExpected(p), p \notin misled
      PROVE  teams[p] = request[p].to /\ TeamBased(mode) /\ teams[p] \in Sides
  <2>1. request[p].mode = mode /\ told[p] # None /\ request[p].told = told[p]
    BY <1>1, <1>6 DEF AsExpected
  <2>2. TeamBased(mode) /\ request[p].to \in Sides \ {told[p]}
    BY <1>1, <1>4, <2>1 DEF TeamsInv, FitsSeat, Sides
  <2>3. team[p] = told[p] /\ team[p] \in Sides
    BY <1>4, <1>6, <2>1, <2>2, SeatedTeams
  <2> QED
    BY <1>2, <2>2, <2>3 DEF Sides
<1> QED
  BY <1>1, <1>2, <1>3, <1>5, <1>6, SwitchTeams

LEMMA BecomeZombieTeams ==
  ASSUME RP!IInv, SeatTypes, TeamsInv, NEW p \in Players, BecomeZombie(p)
  PROVE  SeatTypes' /\ TeamsInv'
<1> DEFINE teams == [team EXCEPT ![p] = "zombie"]
<1>1. /\ Asked(p, "switch") /\ p \in Seated(p) /\ request[p].to = "zombie"
      /\ UNCHANGED roomVars /\ SwitchAnswered(p, teams)
  BY DEF BecomeZombie
<1>2. /\ teams \in [Players -> Teams \cup {None}]
      /\ teams[p] = "zombie"
      /\ \A q \in Players \ {p} : teams[q] = team[q]
  BY DEF SeatTypes, Teams
<1> HIDE DEF teams
<1>3. RP!SeatsKept({p})
  BY <1>1, RoomsUntouched, QuietGrows DEF Quiet
<1>4. RP!Sits(p) /\ ~RP!Watches(p)
  BY <1>1, PlayersPlaced DEF Placed
<1>5. ~RP!Watches(p)'
  BY <1>1, <1>4 DEF roomVars, RP!Watches, RP!InRoom, RP!RoomOf
<1>6. ASSUME AsExpected(p)
      PROVE  ~TeamBased(mode)
  <2>1. request[p].mode = mode
    BY <1>6 DEF AsExpected
  <2> QED
    BY <1>1, <1>4, <2>1 DEF TeamsInv, FitsSeat, Sides
<1> QED
  BY <1>1, <1>2, <1>3, <1>5, <1>6, SwitchTeams

LEMMA BecomeObserverTeams ==
  ASSUME RP!IInv, RP!IInv', SeatTypes, TeamsInv, NEW p \in Players, BecomeObserver(p)
  PROVE  SeatTypes' /\ TeamsInv'
<1> DEFINE teams == [team EXCEPT ![p] = "observer"]
<1>1. /\ Asked(p, "switch") /\ request[p].to = "observer"
      /\ RP!PlayerToObserver(p) /\ SwitchAnswered(p, teams)
  BY SameSwitches DEF BecomeObserver
<1>2. /\ teams \in [Players -> Teams \cup {None}]
      /\ teams[p] = "observer"
      /\ \A q \in Players \ {p} : teams[q] = team[q]
  BY DEF SeatTypes, Teams
<1> HIDE DEF teams
<1>3. RP!SeatsKept({p}) /\ ~RP!Sits(p)'
  BY <1>1, WatchingIsQuiet, OneSeatNext DEF Quiet
<1> QED
  BY <1>1, <1>2, <1>3, SwitchTeams

LEMMA BecomePlayerTeams ==
  ASSUME RP!IInv, RP!IInv', SeatTypes, TeamsInv, NEW p \in Players, BecomePlayer(p)
  PROVE  SeatTypes' /\ TeamsInv'
<1> DEFINE teams == [team EXCEPT ![p] = NewTeam(Seated(p))]
<1>1. /\ Asked(p, "switch") /\ RP!ObserverToPlayer(p) /\ SwitchAnswered(p, teams)
  BY SameSwitches DEF BecomePlayer
<1>2. /\ NewTeam(Seated(p)) \in Teams
      /\ teams \in [Players -> Teams \cup {None}]
      /\ teams[p] = NewTeam(Seated(p))
      /\ \A q \in Players \ {p} : teams[q] = team[q]
  BY DEF SeatTypes, NewTeam, CalculateNewPlayerTeam, Teams
<1> HIDE DEF teams
<1>3. RP!SeatsKept({p}) /\ ~RP!Watches(p)'
  BY <1>1, SittingIsQuiet, OneSeatNext DEF Quiet
<1>4. RP!Watches(p) /\ p \notin Seated(p)
  <2>1. RP!InRoom(p) /\ p \in RP!ToSet(RP!RoomOf(p).observers)
    BY <1>1 DEF RP!ObserverToPlayer
  <2> QED
    BY <2>1, PlayersPlaced DEF Placed, RP!Watches
<1>5. ASSUME AsExpected(p)
      PROVE  /\ NewTeam(Seated(p)) = request[p].to
             /\ IF TeamBased(mode) THEN request[p].to \in Sides ELSE request[p].to = "all"
  <2>1. request[p].mode = mode /\ Emptier(request[p].to, Seated(p))
    BY <1>4, <1>5 DEF AsExpected
  <2>2. IF TeamBased(mode) THEN request[p].to \in Sides ELSE request[p].to = "all"
    BY <1>1, <1>4, <2>1 DEF TeamsInv, FitsSeat
  <2> QED
    BY <2>1, <2>2 DEF NewTeam, Emptier
<1> QED
  BY <1>1, <1>2, <1>3, <1>5, SwitchTeams

LEMMA SwitchRefusedTeams ==
  ASSUME RP!IInv, SeatTypes, TeamsInv, NEW p \in Players, SwitchRefused(p)
  PROVE  SeatTypes' /\ TeamsInv'
<1>1. /\ Asked(p, "switch") /\ UNCHANGED roomVars /\ SwitchAnswered(p, team)
  BY DEF SwitchRefused
<1>2. RP!SeatsKept({p})
  BY <1>1, RoomsUntouched, QuietGrows DEF Quiet
<1>3. team \in [Players -> Teams \cup {None}]
  BY DEF SeatTypes
<1>4. ~AsExpected(p)
  <2> SUFFICES ASSUME AsExpected(p) PROVE FALSE
    OBVIOUS
  <2>1. CASE p \in Seated(p) /\ request[p].to = "observer" /\ R!IsObserverFull(R!RoomOf(p))
    BY <2>1 DEF AsExpected
  <2>2. CASE Observing(p) /\ request[p].to \in {"observer", "zombie"}
    <3>1. RP!Watches(p)
      BY <2>2, PlayersPlaced DEF Placed
    <3>2. request[p].to \in Sides \cup {"all"}
      BY <1>1, <3>1 DEF TeamsInv, FitsSeat
    <3> QED
      BY <2>2, <3>2 DEF Sides
  <2>3. CASE Observing(p) /\ Len(R!RoomOf(p).players) >= 2 * R!RoomOf(p).perTeam
    <3>1. RP!Watches(p) /\ p \notin Seated(p)
      BY <2>3, PlayersPlaced DEF Placed
    <3>2. Len(R!RoomOf(p).players) < 2 * R!RoomOf(p).perTeam
      BY <3>1 DEF AsExpected
    <3>3. RP!RoomOf(p) \in RP!Room /\ RP!RoomOf(p).players \in Seq(Players)
      BY <3>1, RP!OwnRoom, RoomsConstants DEF RP!Watches
    <3>4. R!RoomOf(p) = RP!RoomOf(p) /\ RP!RoomOf(p).perTeam \in Nat
      BY <3>3, SameState, ConstantsAssumption DEF RP!Room
    <3>5. Len(R!RoomOf(p).players) \in Nat /\ R!RoomOf(p).perTeam \in Nat
      BY <3>3, <3>4
    <3> QED
      BY <2>3, <3>2, <3>5
  <2> QED
    BY <2>1, <2>2, <2>3 DEF SwitchRefused
<1> QED
  BY <1>1, <1>2, <1>3, <1>4, SwitchTeams

\* The players of the room are given teams of the new mode; nobody is in another room.
LEMMA ChangeModeTeams ==
  ASSUME RP!IInv, OneRoom, SeatTypes, TeamsInv, NEW p \in Players, ChangeMode(p)
  PROVE  SeatTypes' /\ TeamsInv'
<1> DEFINE room == R!RoomOf(p)
           members == ToSet(room.players)
<1>1. PICK m \in Modes \ {mode} :
        /\ mode' = m
        /\ Seats(Rearranged(room, m), [q \in Players |-> IF q \in members THEN None ELSE told[q]],
                 misled \ members)
  BY DEF ChangeMode
<1> DEFINE teams == Rearranged(room, m)
           announced == [q \in Players |-> IF q \in members THEN None ELSE told[q]]
<1>2. /\ teams \in [Players -> Teams \cup {None}]
      /\ \A q \in Players : teams[q] \in IF q \in members
                                         THEN IF TeamBased(m) THEN Sides ELSE {"all"} ELSE {team[q]}
  BY DEF Rearranged, SeatTypes, Teams, Sides
<1>3. /\ announced \in [Players -> Teams \cup {None}]
      /\ \A q \in Players : announced[q] = IF q \in members THEN None ELSE told[q]
  BY DEF SeatTypes
<1>4. Seats(teams, announced, misled \ members)
  BY <1>1
<1>5. RP!InRoom(p) /\ request' = request
  BY SameScreens, SameState DEF ChangeMode
<1>6. members = RP!ToSet(RP!RoomOf(p).players)
  BY SameState
<1> HIDE DEF teams, announced, members, room
<1>7. RP!SeatsKept({})
  <2>1. \E n \in TeamSizes : RP!SetPlayersPerTeam(p, n)
    BY SameSwitches DEF ChangeMode
  <2> QED
    BY <2>1, SettingIsQuiet DEF Quiet
<1>8. SeatTypes'
  <2>1. misled \ members \in SUBSET Players
    BY DEF SeatTypes
  <2> QED
    BY <1>1, <1>2, <1>3, <1>4, <1>5, <2>1, SeatsTyped DEF SeatTypes
<1>9. ASSUME NEW q \in Players
      PROVE  FitsSeat(q)'
  BY <1>5, <1>7, OthersFit
<1>10. ASSUME NEW q \in Players
       PROVE  q \in misled' \/ AsTold(q)'
  <2>1. CASE roomNumber'[q] = 0
    <3>1. team'[q] = None /\ told'[q] = None
      BY <1>4, <2>1, SameState DEF Seats, Kept
    <3>2. ~RP!Sits(q)' /\ ~RP!Watches(q)'
      BY <2>1, SameState DEF RP!Sits, RP!Watches, RP!InRoom
    <3> QED
      BY <3>1, <3>2 DEF AsTold
  <2>2. CASE roomNumber'[q] # 0
    <3>1. /\ roomNumber'[q] = roomNumber[q]
          /\ RP!Sits(q)' <=> RP!Sits(q)
          /\ RP!Watches(q)' <=> RP!Watches(q)
      BY <1>7, <2>2, SameState DEF RP!SeatsKept
    <3>2. RP!InRoom(q) /\ (RP!Watches(q) => ~RP!Sits(q)) /\ (RP!Sits(q) \/ RP!Watches(q))
      BY <2>2, <3>1, PlayersPlaced DEF Placed
    <3>3. RP!RoomOf(q) = RP!RoomOf(p)
      BY <1>5, <3>2, SameRoom DEF RP!InRoom, RP!RoomOf
    <3>4. q \in members <=> RP!Sits(q)
      BY <1>6, <3>2, <3>3 DEF RP!Sits
    <3>5. /\ team'[q] = teams[q] /\ told'[q] = announced[q]
          /\ q \in misled \ members => q \in misled'
      BY <1>4, <2>2, SameState DEF Seats, Kept, StillThere
    <3>6. CASE RP!Sits(q)
      BY <1>1, <1>2, <1>3, <3>1, <3>2, <3>4, <3>5, <3>6 DEF AsTold
    <3>7. CASE RP!Watches(q)
      BY <1>2, <1>3, <3>1, <3>2, <3>4, <3>5, <3>7 DEF AsTold, TeamsInv
    <3> QED
      BY <3>2, <3>6, <3>7
  <2> QED
    BY <2>1, <2>2
<1> QED
  BY <1>8, <1>9, <1>10 DEF TeamsInv

\* Somebody takes a seat: those who were in the room keep theirs.
LEMMA ArrivalTeams ==
  ASSUME RP!IInv, RP!IInv', SeatTypes, TeamsInv, NEW p \in Players, Idle(p), UNCHANGED request,
         mode' \in Modes,
         NEW t \in Teams, Seats([team EXCEPT ![p] = t], [told EXCEPT ![p] = t], misled),
         RP!Sits(p)' => \/ IF TeamBased(mode') THEN t \in Sides ELSE t \in {"all", "zombie"}
                        \/ ~TeamBased(mode') /\ t = "blue",
         RP!Watches(p)' => t = "observer",
         \A q \in Players \ {p} : (q \in misled' \/ AsTold(q)') /\ FitsSeat(q)'
  PROVE  SeatTypes' /\ TeamsInv'
<1> DEFINE teams == [team EXCEPT ![p] = t]
           announced == [told EXCEPT ![p] = t]
<1>1. /\ teams \in [Players -> Teams \cup {None}] /\ teams[p] = t
      /\ announced \in [Players -> Teams \cup {None}] /\ announced[p] = t
      /\ misled \in SUBSET Players
  BY DEF SeatTypes
<1>2. Seats(teams, announced, misled)
  OBVIOUS
<1> HIDE DEF teams, announced
<1>3. SeatTypes'
  BY <1>1, <1>2, SeatsTyped DEF SeatTypes
<1>4. FitsSeat(p)'
  BY NothingFits DEF Idle
<1>5. AsTold(p)'
  <2>1. CASE roomNumber'[p] = 0
    <3>1. team'[p] = None /\ told'[p] = None
      BY <1>2, <2>1, SameState DEF Seats, Kept
    <3>2. ~RP!Sits(p)' /\ ~RP!Watches(p)'
      BY <2>1, SameState DEF RP!Sits, RP!Watches, RP!InRoom
    <3> QED
      BY <3>1, <3>2 DEF AsTold
  <2>2. CASE roomNumber'[p] # 0
    <3>1. team'[p] = t /\ told'[p] = t
      BY <1>1, <1>2, <2>2, SameState DEF Seats, Kept
    <3> QED
      BY <3>1 DEF AsTold
  <2> QED
    BY <2>1, <2>2
<1> QED
  BY <1>3, <1>4, <1>5 DEF TeamsInv

\* handleRoomJoin: the room is told the team that addPlayer or addObserverPlayer gives.
LEMMA RoomJoinTeams ==
  ASSUME RP!IInv, RP!IInv', SeatTypes, TeamsInv, NEW p \in Players, NEW r \in DOMAIN rooms,
         RoomJoin(p, r)
  PROVE  SeatTypes' /\ TeamsInv'
<1> DEFINE t == IF p \in ToSet(rooms'[r].observers) THEN "observer"
                ELSE NewTeam(ToSet(rooms[r].players))
<1>1. /\ Seats([team EXCEPT ![p] = t], [told EXCEPT ![p] = t], misled)
      /\ Idle(p) /\ UNCHANGED <<mode, request>>
      /\ RP!InLobbyScreen(p) /\ RP!RoomJoin(p, r)
  BY SameJoin, SameScreens DEF RoomJoin
<1>2. /\ t \in Teams
      /\ p \notin ToSet(rooms'[r].observers) =>
           IF TeamBased(mode) THEN t \in Sides ELSE t = "all"
      /\ p \in ToSet(rooms'[r].observers) => t = "observer"
  BY DEF NewTeam, CalculateNewPlayerTeam, Teams, Sides
<1> HIDE DEF t
<1>3. RP!SeatsKept({p})
  BY <1>1, JoiningIsQuiet DEF Quiet
<1>4. RP!Watches(p)' <=> RP!InRoom(p)' /\ p \in ToSet(rooms'[r].observers)
  <2>1. roomNumber'[p] = r
    BY <1>1 DEF RP!RoomJoin, RP!EnterRoom, RP!IInv, RP!TypeOK
  <2> QED
    BY <2>1, SameState DEF RP!Watches, RP!RoomOf
<1>5. RP!Sits(p)' => p \notin ToSet(rooms'[r].observers)
  BY <1>4, OneSeatNext DEF RP!Sits
<1>6. ASSUME NEW q \in Players \ {p}
      PROVE  (q \in misled' \/ AsTold(q)') /\ FitsSeat(q)'
  <2> DEFINE teams == [team EXCEPT ![p] = t]
             announced == [told EXCEPT ![p] = t]
  <2>1. teams[q] = team[q] /\ announced[q] = told[q] /\ Seats(teams, announced, misled)
    BY <1>1 DEF SeatTypes
  <2> HIDE DEF teams, announced
  <2> QED
    BY <1>1, <1>3, <2>1, OthersAsTold, OthersFit
<1>7. mode' \in Modes
  BY <1>1 DEF SeatTypes
<1> QED
  BY <1>1, <1>2, <1>4, <1>5, <1>6, <1>7, ArrivalTeams

\* Whoever is in no room has no team.
LEMMA OutsideTeams ==
  ASSUME NEW q, roomNumber'[q] = 0, team'[q] = None, told'[q] = None
  PROVE  AsTold(q)' /\ FitsSeat(q)'
<1>1. ~RP!Sits(q)' /\ ~RP!Watches(q)'
  BY SameState DEF RP!Sits, RP!Watches, RP!InRoom
<1> QED
  BY <1>1 DEF AsTold, FitsSeat

\* A room is created where there was none, or nothing happens.
LEMMA RoomCreationTeams ==
  ASSUME RP!IInv, RP!IInv', OneRoom, SeatTypes, TeamsInv, NEW p \in Players, RoomCreation(p)
  PROVE  SeatTypes' /\ TeamsInv'
<1> DEFINE teams == [team EXCEPT ![p] = "blue"]
           announced == [told EXCEPT ![p] = "blue"]
<1>1. /\ Idle(p) /\ UNCHANGED request /\ Seats(teams, announced, misled)
      /\ mode' \in (IF rooms' = rooms THEN {mode} ELSE Modes)
      /\ roomNumber[p] = 0 /\ RP!RoomCreation(p)
  BY SameCreation, SameScreens, SameState DEF RoomCreation, RP!InLobbyScreen
<1>2. mode' \in Modes
  BY <1>1 DEF SeatTypes
<1>3. \A q \in Players \ {p} : teams[q] = team[q] /\ announced[q] = told[q]
  BY DEF SeatTypes
<1> HIDE DEF teams, announced
<1>4. CASE UNCHANGED <<rooms, roomNumber>>
  <2>1. RP!SeatsKept({}) /\ UNCHANGED mode
    BY <1>1, <1>4 DEF RP!SeatsKept, RP!Sits, RP!Watches, RP!InRoom, RP!RoomOf
  <2>2. \A q \in Players \ {p} : (q \in misled' \/ AsTold(q)') /\ FitsSeat(q)'
    BY <1>1, <1>3, <2>1, OthersAsTold, OthersFit
  <2>3. ~RP!Sits(p)' /\ ~RP!Watches(p)'
    BY <1>1, <1>4, SameState DEF RP!Sits, RP!Watches, RP!InRoom
  <2> QED
    BY <1>1, <1>2, <2>2, <2>3, ArrivalTeams DEF teams, announced, Teams
<1>5. ASSUME RP!Cardinality(DOMAIN rooms) < 1, NEW r, NEW perTeam, NEW obsOn,
             roomNumber' = [roomNumber EXCEPT ![p] = r],
             rooms' = [x \in DOMAIN rooms \cup {r} |->
                         IF x \in DOMAIN rooms THEN rooms[x] ELSE RP!NewRoom(p, perTeam, obsOn)]
      PROVE  SeatTypes' /\ TeamsInv'
  <2>1. DOMAIN rooms = {}
    <3>1. Cardinality(DOMAIN rooms) = 0
      BY <1>5, SameCardinality, FS_CardinalityType DEF OneRoom
    <3> QED
      BY <3>1, FS_EmptySet DEF OneRoom
  <2>2. ASSUME NEW q \in Players \ {p}
        PROVE  (q \in misled' \/ AsTold(q)') /\ FitsSeat(q)'
    <3>1. roomNumber[q] = 0
      BY <2>1, PlayersPlaced DEF Placed, RP!InRoom
    <3>2. roomNumber'[q] = 0
      BY <1>5, <3>1 DEF RP!IInv, RP!TypeOK
    <3>3. team'[q] = None /\ told'[q] = None
      BY <1>1, <3>2, SameState DEF Seats, Kept
    <3> QED
      BY <3>2, <3>3, OutsideTeams
  <2>3. ~RP!Watches(p)'
    <3>1. roomNumber'[p] = r /\ rooms'[r].observers = <<>>
      BY <1>5, <2>1 DEF RP!NewRoom, RP!IInv, RP!TypeOK
    <3> QED
      BY <3>1 DEF RP!Watches, RP!RoomOf, RP!ToSet
  <2> QED
    BY <1>1, <1>2, <2>2, <2>3, ArrivalTeams DEF teams, announced, Teams, Sides
<1> DEFINE next == (idCounter + 1) % NumberSpace
<1>6. \/ UNCHANGED <<rooms, roomNumber>>
      \/ /\ RP!Cardinality(DOMAIN rooms) < 1
         /\ roomNumber' = [roomNumber EXCEPT ![p] = next]
         /\ \E perTeam \in TeamSizes, obsOn \in BOOLEAN :
              rooms' = [x \in DOMAIN rooms \cup {next} |->
                          IF x \in DOMAIN rooms THEN rooms[x] ELSE RP!NewRoom(p, perTeam, obsOn)]
  BY <1>1 DEF RP!RoomCreation, RP!EnterRoom, RP!sessionVars
<1> HIDE DEF next
<1>7. CASE ~UNCHANGED <<rooms, roomNumber>>
  <2>1. PICK perTeam \in TeamSizes, obsOn \in BOOLEAN :
          /\ RP!Cardinality(DOMAIN rooms) < 1
          /\ roomNumber' = [roomNumber EXCEPT ![p] = next]
          /\ rooms' = [x \in DOMAIN rooms \cup {next} |->
                         IF x \in DOMAIN rooms THEN rooms[x] ELSE RP!NewRoom(p, perTeam, obsOn)]
    BY <1>6, <1>7
  <2> QED
    BY <1>5, <2>1
<1> QED
  BY <1>4, <1>7

\* Steps with no team in them
LEMMA OtherStepsTeams ==
  ASSUME RP!IInv, SeatTypes, TeamsInv, NEW p \in Players,
         \/ RoomStart(p) \/ MatchEnding(p) \/ RoomStep(p) \/ ConnectionLost(p)
         \/ \E i \in 1 .. Cardinality(Players) : ChangeHost(p, i)
  PROVE  SeatTypes' /\ TeamsInv'
<1>1. SeatsUnchanged /\ UNCHANGED mode
  BY DEF RoomStart, MatchEnding, RoomStep, NothingElse, ConnectionLost, ChangeHost
<1>2. /\ request' \in [Players -> Requests \cup {None}]
      /\ \A q \in Players : request'[q] \in {request[q], None}
  <2>1. Answered(p) \/ UNCHANGED request
    BY DEF RoomStart, MatchEnding, RoomStep, NothingElse, ConnectionLost, ChangeHost
  <2> QED
    BY <2>1, RequestsShrink DEF SeatTypes
<1>3. RP!SeatsKept({})
  <2>1. CASE RoomStart(p) \/ MatchEnding(p)
    <3>1. RP!RoomStart(p) \/ RP!MatchEnding(p)
      BY <2>1, SameSwitches DEF RoomStart, MatchEnding
    <3> QED
      BY <3>1, RP!EditsKeepSeats, RoomsConstants
  <2>2. CASE RoomStep(p)
    BY <2>2, RoomStepIsQuiet
  <2>3. CASE ConnectionLost(p)
    BY <2>3, LosingIsQuiet DEF Quiet
  <2>4. ASSUME NEW i \in 1 .. Cardinality(Players), ChangeHost(p, i)
        PROVE  RP!SeatsKept({})
    <3>1. i \in Nat
      OBVIOUS
    <3>2. RP!ChangeHost(p, i)
      BY <2>4, SameSwitches DEF ChangeHost
    <3> QED
      BY <3>1, <3>2, RP!ChangeHostKeepsSeats, RoomsConstants
  <2> QED
    BY <2>1, <2>2, <2>3, <2>4
<1> QED
  BY <1>1, <1>2, <1>3, TeamsUnchanged

\* Steps that touch no seat: the other requests, and batteries
LEMMA RequestsTeams ==
  ASSUME RP!IInv, SeatTypes, TeamsInv, NEW p \in Players,
         AskToStart(p) \/ ReportEnd(p) \/ RequestIgnored(p) \/ \E q \in Players : Battery(p, q)
  PROVE  SeatTypes' /\ TeamsInv'
<1>1. UNCHANGED <<roomVars, mode, seatVars>>
  BY DEF AskToStart, ReportEnd, RequestIgnored, Battery
<1>2. CASE AskToStart(p)
  <2> DEFINE r == [kind |-> "start"]
  <2>1. request' = [request EXCEPT ![p] = r] /\ r \in Requests
    BY <1>2 DEF AskToStart, Send, Requests
  <2>2. FitsSeat(p)'
    BY <2>1 DEF FitsSeat, Asked, SeatTypes
  <2> HIDE DEF r
  <2> QED
    BY <1>1, <2>1, <2>2, TeamsUntouched
<1>3. CASE ReportEnd(p)
  <2> DEFINE r == [kind |-> "end", listed |-> {q \in R!Members(R!RoomOf(p)) : inMatch[q]}]
  <2>1. request' = [request EXCEPT ![p] = r]
    BY <1>3 DEF ReportEnd, Send
  <2>2. R!Members(R!RoomOf(p)) \subseteq Players
    <3>1. RP!InRoom(p)
      BY <1>3, SameScreens DEF ReportEnd
    <3> QED
      BY <3>1, RP!OwnRoom, RoomsConstants, SameState
  <2>3. r \in Requests
    BY <2>2 DEF Requests
  <2>4. FitsSeat(p)'
    BY <2>1 DEF FitsSeat, Asked, SeatTypes
  <2> HIDE DEF r
  <2> QED
    BY <1>1, <2>1, <2>3, <2>4, TeamsUntouched
<1>4. CASE RequestIgnored(p)
  <2>1. request' = [request EXCEPT ![p] = None] /\ request'[p] = None
    BY <1>4 DEF RequestIgnored, Answered, SeatTypes
  <2> QED
    BY <1>1, <2>1, TeamsUntouched, NothingFits
<1>5. CASE \E q \in Players : Battery(p, q)
  <2>1. UNCHANGED request
    BY <1>5 DEF Battery
  <2>2. request' = [request EXCEPT ![p] = request[p]] /\ request[p] \in Requests \cup {None}
    BY <2>1 DEF SeatTypes
  <2>3. RP!SeatsKept({})
    BY <1>1, RoomsUntouched DEF Quiet
  <2>4. FitsSeat(p)'
    BY <2>1, <2>3, OthersFit
  <2> QED
    BY <1>1, <2>2, <2>4, TeamsUntouched
<1> QED
  BY <1>2, <1>3, <1>4, <1>5

LEMMA TeamsPreserved ==
  ASSUME RP!IInv, RP!IInv', OneRoom, SeatTypes, TeamsInv, Next
  PROVE  SeatTypes' /\ TeamsInv'
<1> SUFFICES ASSUME NEW p \in Players,
                    \/ RoomCreation(p) \/ \E r \in DOMAIN rooms : RoomJoin(p, r)
                    \/ AskToSwitch(p) \/ SwitchStep(p) \/ ChangeMode(p)
                    \/ AskToStart(p) \/ RoomStart(p)
                    \/ ReportEnd(p) \/ MatchEnding(p)
                    \/ \E q \in Players : Battery(p, q)
                    \/ RequestIgnored(p)
                    \/ RoomStep(p) \/ ConnectionLost(p)
                    \/ \E i \in 1 .. Cardinality(Players) : ChangeHost(p, i)
             PROVE  SeatTypes' /\ TeamsInv'
  BY DEF Next
<1>1. CASE SwitchStep(p)
  BY <1>1, SwitchSidesTeams, BecomeZombieTeams, BecomeObserverTeams, BecomePlayerTeams,
     SwitchRefusedTeams DEF SwitchStep
<1> QED
  BY <1>1, RoomCreationTeams, RoomJoinTeams, AskToSwitchTeams, ChangeModeTeams, OtherStepsTeams,
     RequestsTeams

----------------------------------------------------------------------------
(* Results *)

ResultTypes ==
  /\ due \subseteq Players
  /\ {overpaid, wronged, hostMoved} \subseteq BOOLEAN
  /\ moves \in 0 .. MaxMoves

\* A room is created where there was none.
LEMMA CreatingIsQuiet ==
  ASSUME RP!IInv, OneRoom, NEW p \in Players, RP!RoomCreation(p)
  PROVE  Quiet({p})
<1>1. CASE UNCHANGED <<rooms, roomNumber, inMatch>>
  BY <1>1 DEF Quiet, RP!SeatsKept, RP!HostsKept, RP!FlagsKept, RP!Sits, RP!Watches,
     RP!HostScreen, RP!InRoom, RP!RoomOf, RP!IsHost, RP!Host, RP!HasHost
<1>2. CASE /\ RP!Cardinality(DOMAIN rooms) < 1 /\ UNCHANGED inMatch
           /\ \A q \in Players \ {p} : roomNumber'[q] = roomNumber[q]
  <2>1. DOMAIN rooms = {}
    <3>1. Cardinality(DOMAIN rooms) = 0
      BY <1>2, SameCardinality, FS_CardinalityType DEF OneRoom
    <3> QED
      BY <3>1, FS_EmptySet DEF OneRoom
  <2>2. \A q \in Players \ {p} : roomNumber'[q] = 0
    BY <1>2, <2>1, PlayersPlaced DEF Placed, RP!InRoom
  <2> QED
    BY <1>2, <2>2, SameState DEF Quiet, RP!SeatsKept, RP!HostsKept, RP!FlagsKept
<1>3. \/ UNCHANGED <<rooms, roomNumber, inMatch>>
      \/ /\ RP!Cardinality(DOMAIN rooms) < 1 /\ UNCHANGED inMatch
         /\ roomNumber' = [roomNumber EXCEPT ![p] = (idCounter + 1) % NumberSpace]
  BY DEF RP!RoomCreation, RP!EnterRoom, RP!sessionVars
<1>4. roomNumber' = [roomNumber EXCEPT ![p] = (idCounter + 1) % NumberSpace]
        => \A q \in Players \ {p} : roomNumber'[q] = roomNumber[q]
  BY DEF RP!IInv, RP!TypeOK
<1> QED
  BY <1>1, <1>2, <1>3, <1>4

\* A step that counts no result, and leaves those who report an end where they are.
LEMMA ResultsKept ==
  ASSUME RP!IInv, ResultsInv, NEW S, RP!SeatsKept(S), RP!HostsKept(S),
         \A q \in Players : inMatch'[q] => inMatch[q] \/ q \in due',
         \A q \in Players \ S : inMatch[q] => inMatch'[q] \/ roomNumber'[q] = 0,
         due \subseteq due', UNCHANGED <<overpaid, wronged>>, hostMoved => hostMoved',
         \A q \in Players : Asked(q, "end")' => Asked(q, "end") /\ request'[q] = request[q],
         \A q \in S \cap Players : hostMoved' \/ ~Asked(q, "end")' \/ ~RP!InRoom(q)'
  PROVE  ResultsInv'
<1>1. ASSUME NEW q \in Players
      PROVE  inMatch'[q] => q \in due'
  BY DEF ResultsInv
<1>2. ASSUME ~hostMoved', NEW q \in Players, Asked(q, "end")', RP!InRoom(q)'
      PROVE  RP!HostScreen(q)' /\ inMatch'[q] /\ request'[q].listed \subseteq due'
  <2>1. q \notin S /\ roomNumber'[q] # 0
    BY <1>2, SameState DEF RP!InRoom
  <2>2. RP!InRoom(q)
    BY <2>1, PlayersPlaced, SameState DEF RP!SeatsKept, Placed
  <2>3. RP!HostScreen(q) /\ inMatch[q] /\ request[q].listed \subseteq due
    BY <1>2, <2>2 DEF ResultsInv, EndStands
  <2> QED
    BY <1>2, <2>1, <2>3, SameState DEF RP!HostsKept
<1> QED
  BY <1>1, <1>2 DEF ResultsInv, EndStands

\* A step whose exceptions have no end of a match in flight
LEMMA QuietResults ==
  ASSUME RP!IInv, ResultsInv, NEW S, Quiet(S),
         UNCHANGED <<due, overpaid, wronged, hostMoved>>,
         \A q \in Players : Asked(q, "end")' => Asked(q, "end") /\ request'[q] = request[q],
         \A q \in S : ~Asked(q, "end")'
  PROVE  ResultsInv'
BY ResultsKept, SameState DEF Quiet, RP!FlagsKept

\* An answer, and a request of another kind
LEMMA OtherRequests ==
  ASSUME SeatTypes, NEW p \in Players, NEW r, request' = [request EXCEPT ![p] = r],
         r = None \/ r.kind # "end"
  PROVE  /\ \A q \in Players : Asked(q, "end")' => Asked(q, "end") /\ request'[q] = request[q]
         /\ ~Asked(p, "end")'
BY DEF SeatTypes, Asked

\* handleRoomStart: whoever enters a match has a result coming.
LEMMA RoomStartResults ==
  ASSUME RP!IInv, SeatTypes, ResultsInv, NEW p \in Players, RoomStart(p)
  PROVE  ResultsInv'
<1>1. /\ RP!RoomStart(p) /\ Answered(p)
      /\ due' = due \cup {q \in Players : inMatch'[q] /\ ~inMatch[q]}
      /\ UNCHANGED <<overpaid, wronged, hostMoved>>
  BY SameSwitches DEF RoomStart
<1>2. RP!SeatsKept({}) /\ RP!HostsKept({})
  BY <1>1, RP!EditsKeepSeats, RoomsConstants
<1>3. \A q \in Players : inMatch[q] => inMatch'[q]
  BY <1>1 DEF RP!RoomStart
<1>4. \A q \in Players : Asked(q, "end")' => Asked(q, "end") /\ request'[q] = request[q]
  BY <1>1, OtherRequests DEF Answered
<1> QED
  BY <1>1, <1>2, <1>3, <1>4, ResultsKept

\* handleMatchEnding: nobody is in the match any more, and only the host has reported its end.
LEMMA MatchEndingResults ==
  ASSUME RP!IInv, OneRoom, SeatTypes, TeamsInv, ResultsInv, NEW p \in Players, MatchEnding(p)
  PROVE  ResultsInv'
<1>1. PICK stored \in SUBSET (request[p].listed \cap Seated(p)) :
        /\ StoreEndMatchStats(stored)
        /\ due' = due \ (request[p].listed \cap Seated(p))
        /\ wronged' = (wronged \/ \E q \in stored \ misled, winner \in Sides \cup {None} :
                         told[q] # None /\ MatchEnd(q, winner) # MatchEndAsTold(q, winner))
  BY DEF MatchEnding
<1>2. /\ Asked(p, "end") /\ Answered(p) /\ RP!MatchEnding(p) /\ UNCHANGED hostMoved
  BY SameSwitches DEF MatchEnding
<1>3. RP!InRoom(p) /\ Placed(p)
  BY <1>2, PlayersPlaced DEF RP!MatchEnding
<1>4. hostMoved \/ (RP!HostScreen(p) /\ request[p].listed \subseteq due)
  BY <1>2, <1>3 DEF ResultsInv, EndStands
<1>5. overpaid' => hostMoved'
  <2>1. overpaid' = (overpaid \/ ~(stored \subseteq due))
    BY <1>1 DEF StoreEndMatchStats
  <2> QED
    BY <1>1, <1>2, <1>4, <2>1 DEF ResultsInv
<1>6. ~wronged'
  <2>1. ASSUME NEW q \in stored \ misled, told[q] # None
        PROVE  told[q] = team[q]
    BY <1>1, <1>3, <2>1 DEF Placed, TeamsInv, AsTold
  <2> QED
    BY <1>1, <2>1 DEF ResultsInv, MatchEnd, MatchEndAsTold
<1>7. ASSUME NEW q \in Players, RP!InRoom(q)
      PROVE  roomNumber[q] = roomNumber[p] /\ RP!RoomOf(q) = RP!RoomOf(p)
  BY <1>3, <1>7, SameRoom DEF RP!InRoom, RP!RoomOf
<1>8. \A q \in Players : ~inMatch'[q]
  <2>1. ASSUME NEW q \in Players, inMatch[q]
        PROVE  q \in RP!Members(RP!RoomOf(p))
    <3>1. RP!InRoom(q)
      BY <2>1, PlayersPlaced DEF Placed
    <3> QED
      BY <1>7, <3>1, RP!OwnRoom, RoomsConstants
  <2> QED
    BY <1>2, <2>1 DEF RP!MatchEnding
<1>9. ASSUME ~hostMoved', NEW q \in Players, Asked(q, "end")', RP!InRoom(q)'
      PROVE  FALSE
  <2>1. q # p /\ Asked(q, "end")
    BY <1>2, <1>9 DEF SeatTypes, Answered, Asked
  <2>2. RP!InRoom(q)
    BY <1>2, <1>9 DEF RP!MatchEnding, RP!InRoom, RP!IInv, RP!TypeOK
  <2>3. RP!HostScreen(q) /\ RP!HostScreen(p)
    BY <1>2, <1>4, <1>9, <2>1, <2>2 DEF ResultsInv, EndStands
  <2>4. RP!Host(RP!RoomOf(q)) = q /\ RP!Host(RP!RoomOf(p)) = p
    BY <2>3 DEF RP!HostScreen, RP!IsHost
  <2> QED
    BY <1>7, <2>1, <2>2, <2>4
<1> QED
  BY <1>5, <1>6, <1>8, <1>9 DEF ResultsInv, EndStands

\* The report names those in the match, all of whom have a result coming.
LEMMA ReportEndResults ==
  ASSUME RP!IInv, SeatTypes, ResultsInv, NEW p \in Players, ReportEnd(p)
  PROVE  ResultsInv'
<1> DEFINE listed == {q \in R!Members(R!RoomOf(p)) : inMatch[q]}
           r == [kind |-> "end", listed |-> listed]
<1>1. /\ request' = [request EXCEPT ![p] = r]
      /\ RP!InRoom(p) /\ RP!HostScreen(p) /\ inMatch[p]
      /\ UNCHANGED <<roomVars, due, overpaid, wronged, hostMoved>>
  BY SameScreens, SameState DEF ReportEnd, Send, resultVars
<1>2. R!Members(R!RoomOf(p)) \subseteq Players
  BY <1>1, RP!OwnRoom, RoomsConstants, SameState
<1>3. listed \subseteq due
  BY <1>2 DEF ResultsInv
<1>4. request'[p].listed = listed /\ \A q \in Players \ {p} : request'[q] = request[q]
  BY <1>1 DEF SeatTypes
<1> HIDE DEF r, listed
<1>5. \A q : /\ RP!InRoom(q)' <=> RP!InRoom(q)
             /\ RP!HostScreen(q)' <=> RP!HostScreen(q)
  BY <1>1 DEF roomVars, RP!HostScreen, RP!InRoom, RP!RoomOf, RP!IsHost, RP!Host, RP!HasHost
<1>6. inMatch' = inMatch
  BY <1>1 DEF roomVars
<1>7. EndStands(p)'
  BY <1>1, <1>3, <1>4, <1>5, <1>6 DEF EndStands
<1>8. ASSUME NEW q \in Players \ {p}, EndStands(q)
      PROVE  EndStands(q)'
  BY <1>1, <1>4, <1>5, <1>6, <1>8 DEF EndStands, Asked
<1> QED
  BY <1>1, <1>6, <1>7, <1>8 DEF ResultsInv

\* Room::changeHostByNickname: who loses the host's seat has no end on the way, or the change
\* is recorded.
LEMMA ChangeHostResults ==
  ASSUME RP!IInv, SeatTypes, ResultsInv, NEW p \in Players,
         NEW i \in 1 .. Cardinality(Players), ChangeHost(p, i)
  PROVE  ResultsInv'
<1> DEFINE h == RP!Host(RP!RoomOf(p))
<1>1. /\ RP!ChangeHost(p, i) /\ hostMoved' = (hostMoved \/ inMatch[h])
      /\ UNCHANGED <<request, due, overpaid, wronged>>
  BY SameSwitches, SameState DEF ChangeHost, resultVars
<1>2. RP!SeatsKept({}) /\ RP!HostsKept({h})
  <2>1. i \in Nat
    OBVIOUS
  <2> QED
    BY <1>1, <2>1, RP!ChangeHostKeepsSeats, RoomsConstants
<1>3. RP!SeatsKept({h})
  BY <1>2 DEF RP!SeatsKept
<1>4. inMatch' = inMatch /\ roomNumber' = roomNumber
  BY <1>1 DEF RP!ChangeHost, RP!sessionVars
<1> HIDE DEF h
<1>5. \A q \in {h} \cap Players : hostMoved' \/ ~Asked(q, "end")' \/ ~RP!InRoom(q)'
  <2> SUFFICES ASSUME NEW q \in Players, q = h, Asked(q, "end")', RP!InRoom(q)', ~hostMoved'
               PROVE  FALSE
    OBVIOUS
  <2>1. Asked(q, "end") /\ ~hostMoved /\ ~inMatch[q]
    BY <1>1 DEF Asked
  <2>2. roomNumber[q] # 0
    BY <1>4, SameState DEF RP!InRoom
  <2>3. RP!InRoom(q)
    BY <2>2, PlayersPlaced DEF Placed
  <2>4. EndStands(q)
    BY <2>1 DEF ResultsInv
  <2> QED
    BY <2>1, <2>3, <2>4 DEF EndStands
<1>6. \A q \in Players : Asked(q, "end")' => Asked(q, "end") /\ request'[q] = request[q]
  BY <1>1 DEF Asked
<1>7. /\ \A q \in Players : inMatch'[q] => inMatch[q] \/ q \in due'
      /\ \A q \in Players \ {h} : inMatch[q] => inMatch'[q] \/ roomNumber'[q] = 0
      /\ due \subseteq due' /\ UNCHANGED <<overpaid, wronged>>
      /\ hostMoved => hostMoved'
  BY <1>1, <1>4
<1>8. RP!HostsKept({h})
  BY <1>2
<1> QED
  BY <1>3, <1>5, <1>6, <1>7, <1>8, ResultsKept

\* Whoever switches has no other request in flight.
LEMMA SwitchResults ==
  ASSUME RP!IInv, SeatTypes, ResultsInv, NEW p \in Players, SwitchStep(p)
  PROVE  ResultsInv'
<1>1. Quiet({p})
  <2>1. CASE SwitchSides(p) \/ BecomeZombie(p) \/ SwitchRefused(p)
    <3>1. UNCHANGED roomVars
      BY <2>1 DEF SwitchSides, BecomeZombie, SwitchRefused
    <3> QED
      BY <3>1, RoomsUntouched, QuietGrows
  <2>2. CASE BecomeObserver(p)
    BY <2>2, SameSwitches, WatchingIsQuiet DEF BecomeObserver
  <2>3. CASE BecomePlayer(p)
    BY <2>3, SameSwitches, SittingIsQuiet DEF BecomePlayer
  <2> QED
    BY <2>1, <2>2, <2>3 DEF SwitchStep
<1>2. Answered(p) /\ UNCHANGED <<due, overpaid, wronged, hostMoved>>
  BY DEF SwitchStep, SwitchSides, BecomeZombie, BecomeObserver, BecomePlayer, SwitchRefused,
     SwitchAnswered, resultVars
<1>3. /\ \A q \in Players : Asked(q, "end")' => Asked(q, "end") /\ request'[q] = request[q]
      /\ ~Asked(p, "end")'
  BY <1>2, OtherRequests DEF Answered
<1> QED
  BY <1>1, <1>2, <1>3, QuietResults

\* The steps that send nothing, of somebody with nothing in flight
LEMMA IdleResults ==
  ASSUME RP!IInv, OneRoom, ResultsInv, NEW p \in Players,
         \/ RoomCreation(p) \/ \E r \in DOMAIN rooms : RoomJoin(p, r)
         \/ ChangeMode(p) \/ RoomStep(p) \/ ConnectionLost(p)
  PROVE  ResultsInv'
<1>1. Idle(p) /\ UNCHANGED <<request, due, overpaid, wronged, hostMoved>>
  BY DEF RoomCreation, RoomJoin, ChangeMode, RoomStep, NothingElse, ConnectionLost, resultVars
<1>2. Quiet({p})
  <2>1. CASE RoomCreation(p)
    BY <2>1, SameCreation, CreatingIsQuiet DEF RoomCreation
  <2>2. CASE \E r \in DOMAIN rooms : RoomJoin(p, r)
    BY <2>2, SameJoin, SameScreens, JoiningIsQuiet DEF RoomJoin
  <2>3. CASE ChangeMode(p)
    BY <2>3, SameSwitches, SettingIsQuiet, QuietGrows DEF ChangeMode
  <2>4. CASE RoomStep(p)
    BY <2>4, RoomStepIsQuiet
  <2>5. CASE ConnectionLost(p)
    BY <2>5, LosingIsQuiet, QuietGrows
  <2> QED
    BY <2>1, <2>2, <2>3, <2>4, <2>5
<1>3. /\ \A q \in Players : Asked(q, "end")' => Asked(q, "end") /\ request'[q] = request[q]
      /\ ~Asked(p, "end")'
  BY <1>1 DEF Asked, Idle
<1> QED
  BY <1>1, <1>2, <1>3, QuietResults

\* Requests of another kind, and what is found
LEMMA RequestsResults ==
  ASSUME RP!IInv, SeatTypes, ResultsInv, NEW p \in Players,
         \/ AskToSwitch(p) \/ AskToStart(p) \/ RequestIgnored(p)
         \/ \E q \in Players : Battery(p, q)
  PROVE  ResultsInv'
<1>1. Quiet({}) /\ UNCHANGED <<due, overpaid, wronged, hostMoved>>
  BY RoomsUntouched DEF AskToSwitch, AskToStart, RequestIgnored, Battery, resultVars
<1>2. \A q \in Players : Asked(q, "end")' => Asked(q, "end") /\ request'[q] = request[q]
  <2>1. CASE AskToSwitch(p)
    <3>1. PICK t : request' = [request EXCEPT ![p] = [kind |-> "switch", to |-> t, mode |-> mode,
                                                        told |-> told[p]]]
      BY <2>1 DEF AskToSwitch, Send
    <3> QED
      BY <3>1, OtherRequests
  <2>2. CASE AskToStart(p)
    <3>1. request' = [request EXCEPT ![p] = [kind |-> "start"]]
      BY <2>2 DEF AskToStart, Send
    <3> QED
      BY <3>1, OtherRequests
  <2>3. CASE RequestIgnored(p)
    BY <2>3, OtherRequests DEF RequestIgnored, Answered
  <2>4. CASE \E q \in Players : Battery(p, q)
    BY <2>4 DEF Battery, Asked
  <2> QED
    BY <2>1, <2>2, <2>3, <2>4
<1> QED
  BY <1>1, <1>2, QuietResults

LEMMA ResultsPreserved ==
  ASSUME RP!IInv, OneRoom, SeatTypes, TeamsInv, ResultsInv, Next
  PROVE  ResultsInv'
<1> SUFFICES ASSUME NEW p \in Players,
                    \/ RoomCreation(p) \/ \E r \in DOMAIN rooms : RoomJoin(p, r)
                    \/ AskToSwitch(p) \/ SwitchStep(p) \/ ChangeMode(p)
                    \/ AskToStart(p) \/ RoomStart(p)
                    \/ ReportEnd(p) \/ MatchEnding(p)
                    \/ \E q \in Players : Battery(p, q)
                    \/ RequestIgnored(p)
                    \/ RoomStep(p) \/ ConnectionLost(p)
                    \/ \E i \in 1 .. Cardinality(Players) : ChangeHost(p, i)
             PROVE  ResultsInv'
  BY DEF Next
<1> QED
  BY SwitchResults, IdleResults, RequestsResults, RoomStartResults, ReportEndResults,
     MatchEndingResults, ChangeHostResults

\* The histories of results keep their types.
LEMMA ResultTypesPreserved ==
  ASSUME ResultTypes, Next
  PROVE  ResultTypes'
<1> SUFFICES ASSUME NEW p \in Players,
                    \/ RoomCreation(p) \/ \E r \in DOMAIN rooms : RoomJoin(p, r)
                    \/ AskToSwitch(p) \/ SwitchStep(p) \/ ChangeMode(p)
                    \/ AskToStart(p) \/ RoomStart(p)
                    \/ ReportEnd(p) \/ MatchEnding(p)
                    \/ \E q \in Players : Battery(p, q)
                    \/ RequestIgnored(p)
                    \/ RoomStep(p) \/ ConnectionLost(p)
                    \/ \E i \in 1 .. Cardinality(Players) : ChangeHost(p, i)
             PROVE  ResultTypes'
  BY DEF Next
<1>1. moves' \in {moves, moves + 1} /\ (moves' = moves \/ moves < MaxMoves)
  BY DEF RoomCreation, RoomJoin, AskToSwitch, SwitchStep, SwitchSides, BecomeZombie,
     BecomeObserver, BecomePlayer, SwitchRefused, SwitchAnswered, ChangeMode, AskToStart, RoomStart,
     ReportEnd, MatchEnding, Battery, RequestIgnored, RoomStep, NothingElse, ConnectionLost,
     ChangeHost
<1>2. moves' \in 0 .. MaxMoves
  BY <1>1, ConstantsAssumption DEF ResultTypes
<1>3. due' \subseteq Players /\ {overpaid', wronged'} \subseteq BOOLEAN
  <2>1. CASE RoomStart(p)
    BY <2>1 DEF RoomStart, ResultTypes
  <2>2. CASE MatchEnding(p)
    BY <2>2 DEF MatchEnding, StoreEndMatchStats, ResultTypes
  <2>3. CASE UNCHANGED resultVars
    BY <2>3 DEF resultVars, ResultTypes
  <2> QED
    BY <2>1, <2>2, <2>3 DEF RoomCreation, RoomJoin, AskToSwitch, SwitchStep, SwitchSides,
     BecomeZombie, BecomeObserver, BecomePlayer, SwitchRefused, SwitchAnswered, ChangeMode,
     AskToStart, ReportEnd, Battery, RequestIgnored, RoomStep, NothingElse, ConnectionLost,
     ChangeHost
<1>4. hostMoved' \in BOOLEAN
  <2>1. CASE \E i \in 1 .. Cardinality(Players) : ChangeHost(p, i)
    BY <2>1 DEF ChangeHost
  <2>2. CASE UNCHANGED hostMoved
    BY <2>2 DEF ResultTypes
  <2> QED
    BY <2>1, <2>2 DEF RoomCreation, RoomJoin, AskToSwitch, SwitchStep, SwitchSides,
     BecomeZombie, BecomeObserver, BecomePlayer, SwitchRefused, SwitchAnswered, ChangeMode,
     AskToStart, RoomStart, ReportEnd, MatchEnding, Battery, RequestIgnored, RoomStep,
     NothingElse, ConnectionLost
<1> QED
  BY <1>2, <1>3, <1>4 DEF ResultTypes

----------------------------------------------------------------------------
(* The theorems *)

\* The types by the parts that are proved one by one
LEMMA TypesInParts ==
  /\ TypeOK <=> RP!TypeOK /\ SeatTypes /\ PurseTypes /\ ResultTypes
  /\ TypeOK' <=> RP!TypeOK' /\ SeatTypes' /\ PurseTypes' /\ ResultTypes'
<1>1. R!TypeOK <=> RP!TypeOK
  BY SameTypes
<1>2. R!TypeOK' <=> RP!TypeOK'
  BY Zenon DEF R!TypeOK, RP!TypeOK, R!Room, RP!Room
<1>3. UNION {banked, stayed, misled, due} \subseteq Players
        <=> /\ banked \subseteq Players /\ stayed \subseteq Players
            /\ misled \subseteq Players /\ due \subseteq Players
  OBVIOUS
<1>4. UNION {banked', stayed', misled', due'} \subseteq Players
        <=> /\ banked' \subseteq Players /\ stayed' \subseteq Players
            /\ misled' \subseteq Players /\ due' \subseteq Players
  OBVIOUS
<1>5. TypeOK <=> RP!TypeOK /\ SeatTypes /\ PurseTypes /\ ResultTypes
  BY <1>1, <1>3, Zenon DEF TypeOK, SeatTypes, PurseTypes, ResultTypes
<1>6. TypeOK' <=> RP!TypeOK' /\ SeatTypes' /\ PurseTypes' /\ ResultTypes'
  BY <1>2, <1>4, Zenon DEF TypeOK, SeatTypes, PurseTypes, ResultTypes
<1> QED
  BY <1>5, <1>6

LEMMA InitSatisfies == Init => MatchInv
<1> SUFFICES ASSUME Init PROVE MatchInv
  OBVIOUS
<1>1. RP!IInv
  BY SameInit, RP!InitSatisfies, RoomsConstants DEF Init
<1>2. DOMAIN rooms = {} /\ \A p \in Players : roomNumber[p] = 0 /\ ~inMatch[p]
  <2>1. RP!Init
    BY SameInit DEF Init
  <2> QED
    BY <2>1, SameState DEF RP!Init
<1>3. OneRoom
  BY <1>2, FS_EmptySet DEF OneRoom
<1>4. TypeOK
  <2>1. RP!TypeOK
    BY <1>1 DEF RP!IInv
  <2>2. SeatTypes
    BY DEF Init, SeatTypes, Modes
  <2>3. PurseTypes
    <3>1. 0 \in 0 .. MaxPicks /\ 0 \in 0 .. MaxBattery
      BY ConstantsAssumption
    <3> QED
      BY <3>1 DEF Init, PurseTypes
  <2>4. ResultTypes
    <3>1. moves \in 0 .. MaxMoves
      BY ConstantsAssumption DEF Init
    <3>2. due \subseteq Players /\ {overpaid, wronged, hostMoved} \subseteq BOOLEAN
      BY DEF Init
    <3> QED
      BY <3>1, <3>2 DEF ResultTypes
  <2> QED
    BY <2>1, <2>2, <2>3, <2>4, TypesInParts
<1>5. TeamsInv
  <2>1. \A p \in Players : ~RP!Sits(p) /\ ~RP!Watches(p)
    BY <1>2, SameState DEF RP!Sits, RP!Watches, RP!InRoom
  <2> QED
    BY <2>1 DEF Init, TeamsInv, AsTold, FitsSeat, Asked
<1>6. ResultsInv
  BY <1>2 DEF Init, ResultsInv, EndStands, Asked
<1>7. PurseInv
  BY DEF Init, PurseInv, Stored
<1> QED
  BY <1>1, <1>3, <1>4, <1>5, <1>6, <1>7 DEF MatchInv

\* A step of others changes nothing.
LEMMA StutterPreserves ==
  ASSUME RP!IInv', MatchInv, UNCHANGED vars
  PROVE  MatchInv'
<1>1. OneRoom'
  BY DEF vars, roomVars, MatchInv, OneRoom
<1>2. UNCHANGED roomVars
  BY DEF vars
<1>3. \A p : /\ RP!Sits(p)' <=> RP!Sits(p)
             /\ RP!Watches(p)' <=> RP!Watches(p)
             /\ RP!InRoom(p)' <=> RP!InRoom(p)
             /\ RP!HostScreen(p)' <=> RP!HostScreen(p)
  BY <1>2 DEF roomVars, RP!Sits, RP!Watches, RP!InRoom, RP!RoomOf, RP!HostScreen, RP!IsHost,
     RP!Host, RP!HasHost
<1>4. TeamsInv'
  BY <1>3 DEF vars, seatVars, MatchInv, TeamsInv, AsTold, FitsSeat, Asked
<1>5. ResultsInv'
  BY <1>3 DEF vars, roomVars, resultVars, MatchInv, ResultsInv, EndStands, Asked
<1>6. PurseInv'
  BY DEF vars, purseVars, MatchInv, PurseInv, Stored
<1>7. TypeOK'
  <2>1. RP!TypeOK'
    BY DEF RP!IInv
  <2>2. SeatTypes /\ PurseTypes /\ ResultTypes
    BY TypesInParts DEF MatchInv
  <2>3. SeatTypes' /\ PurseTypes' /\ ResultTypes'
    BY <2>2 DEF vars, seatVars, purseVars, resultVars, SeatTypes, PurseTypes, ResultTypes
  <2> QED
    BY <2>1, <2>3, TypesInParts
<1> QED
  BY <1>1, <1>4, <1>5, <1>6, <1>7 DEF MatchInv

LEMMA NextPreserves ==
  ASSUME NoWrap, MatchInv, [Next]_vars
  PROVE  MatchInv'
<1>1. RP!IInv'
  BY RoomsPreserved DEF MatchInv, vars
<1>2. CASE UNCHANGED vars
  BY <1>1, <1>2, StutterPreserves
<1>3. CASE Next
  <2>1. RP!IInv /\ OneRoom /\ SeatTypes /\ PurseTypes /\ ResultTypes
        /\ TeamsInv /\ ResultsInv /\ PurseInv
    BY TypesInParts DEF MatchInv
  <2>2. OneRoom'
    BY <1>3, <2>1, OneRoomPreserved
  <2>3. SeatTypes' /\ TeamsInv'
    BY <1>1, <1>3, <2>1, TeamsPreserved
  <2>4. ResultTypes' /\ ResultsInv'
    BY <1>3, <2>1, ResultsPreserved, ResultTypesPreserved
  <2>5. PurseTypes' /\ PurseInv'
    BY <1>3, <2>1, PursePreserved
  <2>6. RP!TypeOK'
    BY <1>1 DEF RP!IInv
  <2>7. TypeOK'
    BY <2>3, <2>4, <2>5, <2>6, TypesInParts
  <2> QED
    BY <1>1, <2>2, <2>3, <2>4, <2>5, <2>7 DEF MatchInv
<1> QED
  BY <1>2, <1>3

\* What holds of teams, requests, results and batteries in every reachable state.
THEOREM InvariantHolds ==
  ASSUME NoWrap
  PROVE  Spec => []MatchInv
<1>1. MatchInv /\ [Next]_vars => MatchInv'
  BY NextPreserves
<1> QED
  BY <1>1, InitSatisfies, PTL DEF Spec

\* Rooms, teams, requests in flight, batteries and histories keep their types.
THEOREM TypeCorrect ==
  ASSUME NoWrap
  PROVE  Spec => []TypeOK
<1>1. MatchInv => TypeOK
  BY DEF MatchInv
<1> QED
  BY <1>1, InvariantHolds, PTL

\* For any number of players: the server and the clients agree on the team of a player, and it
\* is one of the mode's, after every join, switch, change of mode and match.
THEOREM EverybodyKnowsTheTeams ==
  ASSUME NoWrap
  PROVE  Spec => []TeamsAsTold
<1>1. MatchInv => TeamsAsTold
  <2> SUFFICES ASSUME MatchInv, NEW p \in Players \ misled
               PROVE  /\ told[p] \in {None, team[p]}
                      /\ p \in Seated(p) =>
                           IF TeamBased(mode) THEN team[p] \in Sides
                           ELSE team[p] \in {"all", "zombie"} \/ told[p] = "blue"
                      /\ Observing(p) => team[p] = "observer"
    BY DEF TeamsAsTold, TeamsAsShown, TeamsFitMode
  <2>1. AsTold(p) /\ Placed(p)
    BY PlayersPlaced DEF MatchInv, TeamsInv
  <2> QED
    BY <2>1 DEF AsTold, Placed
<1> QED
  BY <1>1, InvariantHolds, PTL

\* Team talk reaches those only whom the speaker's client shows in the speaker's team, however
\* teams, seats, modes and hosts have changed.
THEOREM TeamTalkStaysInTheTeam ==
  ASSUME NoWrap
  PROVE  Spec => []TeamTalkIsPrivate
<1>1. MatchInv => TeamTalkIsPrivate
  <2> SUFFICES ASSUME MatchInv, NEW p \in Players \ misled, R!InRoom(p), told[p] \in Sides,
                      NEW q \in Audience(p, "team"), q \notin misled
               PROVE  told[q] \in {None, told[p]}
    BY DEF TeamTalkIsPrivate
  <2>1. AsTold(p) /\ Placed(p) /\ RP!InRoom(p)
    BY PlayersPlaced, SameState DEF MatchInv, TeamsInv
  <2>2. told[p] = team[p]
    BY <2>1, ConstantsAssumption DEF AsTold, Sides, Teams
  <2>3. p \in Seated(p)
    BY <2>1, <2>2 DEF Placed, AsTold, Sides
  <2>4. q \in Seated(p) /\ team[q] = team[p]
    BY <2>3 DEF Audience, TeamAudience
  <2>5. AsTold(q)
    BY <2>1, <2>4 DEF MatchInv, TeamsInv, Placed
  <2> QED
    BY <2>2, <2>4, <2>5 DEF AsTold
<1> QED
  BY <1>1, InvariantHolds, PTL

\* The result of a match is counted once for each player, for the team its client showed,
\* unless a moderator moves the host's seat during the match.
THEOREM ResultsCounted ==
  ASSUME NoWrap
  PROVE  Spec => []ResultsCountedOnce
<1>1. MatchInv => ResultsCountedOnce
  BY DEF MatchInv, ResultsInv, ResultsCountedOnce, NoResultTwice, WinnersAsTold
<1> QED
  BY <1>1, InvariantHolds, PTL

\* No more batteries are stored than were found, but for those who stay for another match.
THEOREM BatteriesCounted ==
  ASSUME NoWrap
  PROVE  Spec => []BatteryCountedOnce
<1>1. MatchInv => BatteryCountedOnce
  <2> SUFFICES ASSUME MatchInv, NEW p \in Players, p \notin stayed
               PROVE  ~(battery[p] > found[p])
    BY DEF BatteryCountedOnce
  <2>1. /\ battery[p] \in Nat /\ pickedUp[p] \in Nat /\ found[p] \in Nat
        /\ Stored(p) <= found[p]
    BY TypesInParts, ConstantsAssumption DEF MatchInv, PurseTypes, PurseInv
  <2> QED
    BY <2>1 DEF Stored
<1> QED
  BY <1>1, InvariantHolds, PTL

=============================================================================
