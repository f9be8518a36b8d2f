----------------------------- MODULE MainMatch ------------------------------
(***************************************************************************)
(* Teams, matches and their results on the main server: what MainRooms     *)
(* leaves out of a room.  It composes with it: every step is a step of     *)
(* MainRooms together with what the same handler does to the teams of the  *)
(* seats (RoomPlayerInfo.team), the mode of the room, and the results and  *)
(* batteries of the players.                                               *)
(*                                                                         *)
(* A client decides by what it has been told, and its request is handled   *)
(* later.  Where the difference matters (a switch of teams, the start of a *)
(* match and its end) a request is in flight between the two, one for each *)
(* client; the way back is immediate.  told is the team of a player as the *)
(* room was last told.  After a change of mode the server gives new teams  *)
(* but tells nobody; told is then None.                                    *)
(*                                                                         *)
(* Experience and points are abstracted to whether the next level is       *)
(* reached, and the random battery to one that is found.  Moderators, and  *)
(* they alone, have the host changed by its name.                          *)
(***************************************************************************)
EXTENDS Naturals, FiniteSets, SequencesExt

CONSTANTS
  Players, Mods, NumberSpace, CreationBound, MaxObservers, TeamSizes,   \* see MainRooms
  MaxBattery,     \* maxBattery of an account
  Finders,        \* bound of the model: those who find batteries
  MaxPicks,       \* bound of the model: batteries a player finds
  MaxMoves,       \* bound of the model: team switches, changes of mode, starts and changes of
                  \* host asked for, and connections lost
  None

Teams == {"all", "red", "blue", "observer", "zombie"}
Sides == {"red", "blue"}

ASSUME ConstantsAssumption ==
  /\ None \notin Teams
  /\ Mods \subseteq Players /\ Finders \subseteq Players
  /\ NumberSpace \in Nat \ {0} /\ TeamSizes \subseteq Nat
  /\ {CreationBound, MaxObservers, MaxBattery, MaxPicks, MaxMoves} \subseteq Nat

VARIABLES
  online, roomNumber, inLobby, inMatch, rooms, idCounter, undefined,   \* see MainRooms
  mode,       \* m_settings.mode, of which only isModeTeamBased matters; of the one open room
  team,       \* RoomPlayerInfo.team of a member, None outside rooms
  told,       \* external: the team the clients in the room show for a member, or None
  request,    \* external: the request of a client in flight, or None
  pickedUp,   \* m_batteryObtainedInMatch
  battery,    \* m_accountInfo.battery, of which every player begins with none
  found,      \* history: batteries found by a player
  banked,     \* history: those whose battery has been stored since they entered the room
  stayed,     \* history: those who had what they had found stored a second time
  misled,     \* history: those whose switch met another situation than it was sent in
  due,        \* history: those who entered a match whose result has not been counted
  overpaid,   \* history: a result was counted twice
  wronged,    \* history: a result would be counted against what its player was told
  hostMoved,  \* history: the host was changed by hand while it was in a match
  moves

roomVars == <<online, roomNumber, inLobby, inMatch, rooms, idCounter, undefined>>
seatVars == <<team, told, misled>>
purseVars == <<pickedUp, battery, found, banked, stayed>>
resultVars == <<due, overpaid, wronged>>
vars == <<roomVars, mode, seatVars, request, purseVars, resultVars, hostMoved, moves>>

\* One room is open at a time: no handler looks beyond the room of its sender.
R == INSTANCE MainRooms WITH MaxRooms <- 1

Modes == {"teams", "free"}

\* Room::isModeTeamBased
TeamBased(m) == m = "teams"

\* Requests in flight; a switch remembers what its client had been told when it was sent.
Requests ==
  [kind : {"switch"}, to : Teams, mode : Modes, told : Teams \cup {None}]
  \cup [kind : {"start"}]
  \cup [kind : {"end"}, listed : SUBSET Players]

\* Room::getPlayer: only m_players are looked through
Seated(p) == IF R!InRoom(p) THEN ToSet(R!RoomOf(p).players) ELSE {}
Observing(p) == R!InRoom(p) /\ p \in ToSet(R!RoomOf(p).observers) \ Seated(p)

----------------------------------------------------------------------------
(* What a step does to those who have left, and to those who have not *)

Kept(f, default) ==
  [p \in Players |-> IF roomNumber'[p] = R!NoRoom THEN default ELSE f[p]]

StillThere(S) == {p \in S : roomNumber'[p] # R!NoRoom}

Seats(teams, announced, confused) ==
  /\ team' = Kept(teams, None)
  /\ told' = Kept(announced, None)
  /\ misled' = StillThere(confused)

\* mutant: Player::leaveRoom keeps m_batteryObtainedInMatch
LeaversKeepBatteries ==
  /\ banked' = StillThere(banked)
  /\ UNCHANGED <<pickedUp, battery, found, stayed>>

\* Player::leaveRoom: m_batteryObtainedInMatch = 0
LeaversLoseBatteries ==
  /\ pickedUp' = Kept(pickedUp, 0)
  /\ banked' = StillThere(banked)
  /\ UNCHANGED <<battery, found, stayed>>

SeatsUnchanged == Seats(team, told, misled)

\* The rest of a handler that gives nobody another team and counts no result
NothingElse ==
  /\ SeatsUnchanged /\ LeaversLoseBatteries
  /\ UNCHANGED <<mode, request, resultVars, hostMoved, moves>>

\* A client sends one request at a time.
Idle(p) == request[p] = None

----------------------------------------------------------------------------
(* Teams *)

\* Room::calculateNewPlayerTeam
CalculateNewPlayerTeam(members) ==
  IF Cardinality({q \in members : team[q] = "red"})
       >= Cardinality({q \in members : team[q] = "blue"})
  THEN "blue" ELSE "red"

\* The team of somebody who takes a player's seat
NewTeam(members) == IF TeamBased(mode) THEN CalculateNewPlayerTeam(members) ELSE "all"

\* handleRoomCreation: the host is blue, also in a mode without teams.  Nothing is created
\* when the number of rooms is at its limit.
RoomCreation(p) ==
  /\ Idle(p) /\ R!InLobbyScreen(p)
  /\ R!RoomCreation(p)
  /\ mode' \in (IF rooms' = rooms THEN {mode} ELSE Modes)
  /\ Seats([team EXCEPT ![p] = "blue"], [told EXCEPT ![p] = "blue"], misled)
  /\ LeaversLoseBatteries
  /\ UNCHANGED <<request, resultVars, hostMoved, moves>>

\* handleRoomJoin: the room is told of the team before addPlayer or addObserverPlayer.
RoomJoin(p, r) ==
  /\ Idle(p) /\ R!InLobbyScreen(p)
  /\ R!RoomJoin(p, r)
  /\ LET t == IF p \in ToSet(rooms'[r].observers) THEN "observer"
              ELSE NewTeam(ToSet(rooms[r].players))
     IN  Seats([team EXCEPT ![p] = t], [told EXCEPT ![p] = t], misled)
  /\ LeaversLoseBatteries
  /\ UNCHANGED <<mode, request, resultVars, hostMoved, moves>>

Send(p, r) == Idle(p) /\ request' = [request EXCEPT ![p] = r]

\* The other side, the observers' seats and back, or, in a match without teams, the zombies.
\* An observer asks for either side.
Offered(p) ==
  IF Observing(p) THEN IF TeamBased(mode) THEN Sides ELSE {"all"}
  ELSE IF R!InMatchScreen(p) THEN IF TeamBased(mode) THEN {} ELSE {"zombie"}
  ELSE {"observer"} \cup (IF TeamBased(mode) THEN Sides \ {told[p]} ELSE {})

AskToSwitch(p) ==
  /\ R!Request(p) /\ R!InRoom(p)
  /\ Observing(p) => ~inMatch[p]
  /\ moves < MaxMoves /\ moves' = moves + 1
  /\ \E t \in Offered(p) :
       Send(p, [kind |-> "switch", to |-> t, mode |-> mode, told |-> told[p]])
  /\ UNCHANGED <<roomVars, mode, seatVars, purseVars, resultVars, hostMoved>>

Asked(p, kind) == request[p] # None /\ request[p].kind = kind
Answered(p) == request' = [request EXCEPT ![p] = None]

\* mutant: the team asked for is not looked at, nor the one the player has
ToOtherSideAlwaysBlue(p) == [team EXCEPT ![p] = "blue"]
ToOtherSide(p) == [team EXCEPT ![p] = IF @ = "blue" THEN "red" ELSE "blue"]

\* The side an observer gets who takes a player's seat
Emptier(t, members) == ~TeamBased(mode) \/ CalculateNewPlayerTeam(members) = t

\* A switch meets what its client expected: the same mode, the same team, and a seat.
AsExpected(p) ==
  LET asked == request[p]
      room == R!RoomOf(p)
  IN  /\ asked.mode = mode
      /\ p \in Seated(p) =>
           /\ asked.told # None /\ asked.told = told[p] /\ asked.to # told[p]
           /\ asked.to = "observer" => ~R!IsObserverFull(room)
      /\ p \notin Seated(p) =>
           Len(room.players) < 2 * room.perTeam /\ Emptier(asked.to, Seated(p))

\* handleRoomMiscellaneous, order 159: whatever Room::changePlayerTeam does or returns, the
\* room is told that the player has the team that was asked for.
SwitchAnswered(p, teams) ==
  /\ Answered(p)
  /\ Seats(teams, [told EXCEPT ![p] = request[p].to],
           IF AsExpected(p) THEN misled ELSE misled \cup {p})
  /\ LeaversLoseBatteries
  /\ UNCHANGED <<mode, resultVars, hostMoved, moves>>

\* changePlayerTeam, one action for each of its outcomes
SwitchSides(p) ==
  /\ R!Request(p) /\ Asked(p, "switch") /\ p \in Seated(p)
  /\ request[p].to \in Sides \cup {"all"}
  /\ UNCHANGED roomVars
  /\ SwitchAnswered(p, ToOtherSide(p))

BecomeZombie(p) ==
  /\ R!Request(p) /\ Asked(p, "switch") /\ p \in Seated(p)
  /\ request[p].to = "zombie"
  /\ UNCHANGED roomVars
  /\ SwitchAnswered(p, [team EXCEPT ![p] = "zombie"])

BecomeObserver(p) ==
  /\ Asked(p, "switch") /\ request[p].to = "observer"
  /\ R!PlayerToObserver(p)
  /\ SwitchAnswered(p, [team EXCEPT ![p] = "observer"])

BecomePlayer(p) ==
  /\ Asked(p, "switch") /\ request[p].to \in Sides \cup {"all"}
  /\ R!ObserverToPlayer(p)
  /\ SwitchAnswered(p, [team EXCEPT ![p] = NewTeam(Seated(p))])

SwitchRefused(p) ==
  /\ R!Request(p) /\ Asked(p, "switch") /\ R!InRoom(p)
  /\ LET room == R!RoomOf(p) IN
     \/ p \in Seated(p) /\ request[p].to = "observer" /\ R!IsObserverFull(room)
     \/ /\ Observing(p)
        /\ \/ request[p].to \in {"observer", "zombie"}
           \/ Len(room.players) >= 2 * room.perTeam
  /\ UNCHANGED roomVars
  /\ SwitchAnswered(p, team)

\* Room::updatePlayersTeamToTeamBased and updatePlayersTeamToNonTeamBased
Rearranged(room, m) ==
  [p \in Players |->
     IF p \in ToSet(room.players)
     THEN IF ~TeamBased(m) THEN "all"
          ELSE IF R!IndexIn(room.players, p) % 2 = 1 THEN "blue" ELSE "red"
     ELSE team[p]]

\* handleRoomMiscellaneous with settings, and Room::updateRoomSettings
ChangeMode(p) ==
  /\ Idle(p) /\ R!InWaitingRoom(p) /\ R!HostScreen(p)
  /\ moves < MaxMoves /\ moves' = moves + 1
  /\ \E n \in TeamSizes : R!SetPlayersPerTeam(p, n)
  /\ \E m \in Modes \ {mode} :
       LET room == R!RoomOf(p)
           members == ToSet(room.players)
       IN  /\ mode' = m
           /\ Seats(Rearranged(room, m),
                    [q \in Players |-> IF q \in members THEN None ELSE told[q]],
                    misled \ members)
  /\ LeaversLoseBatteries
  /\ UNCHANGED <<request, resultVars, hostMoved>>

----------------------------------------------------------------------------
(* The match and its results *)

\* The client offers the start to the host, and to the others while a match runs.
AskToStart(p) ==
  /\ R!Request(p) /\ R!InWaitingRoom(p)
  /\ R!HostScreen(p) \/ R!RoomOf(p).started
  /\ moves < MaxMoves /\ moves' = moves + 1
  /\ Send(p, [kind |-> "start"])
  /\ UNCHANGED <<roomVars, mode, seatVars, purseVars, resultVars, hostMoved>>

\* handleRoomStart
RoomStart(p) ==
  /\ Asked(p, "start") /\ Answered(p)
  /\ R!RoomStart(p)
  /\ due' = due \cup {q \in Players : inMatch'[q] /\ ~inMatch[q]}
  /\ SeatsUnchanged /\ LeaversLoseBatteries
  /\ UNCHANGED <<mode, overpaid, wronged, hostMoved, moves>>

\* mutant: the battery is added twice
BatteryObtainedTwice(q) == pickedUp[q] + 2

\* Player::addBatteryObtainedInMatch
BatteryObtained(q) == pickedUp[q] + 1

\* handleBattery, unless the random amount is 0
Battery(p, q) ==
  /\ R!Request(p) /\ R!InMatchScreen(p) /\ q \in Seated(p) /\ inMatch[q]
  /\ q \in Finders /\ found[q] < MaxPicks
  /\ pickedUp' = [pickedUp EXCEPT ![q] = BatteryObtained(q)]
  /\ found' = [found EXCEPT ![q] = @ + 1]
  /\ UNCHANGED <<roomVars, mode, seatVars, request, battery, banked, stayed, resultVars,
                 hostMoved, moves>>

\* The host's client reports the end, with the scores of those it knows to be in the match.
ReportEnd(p) ==
  /\ R!Request(p) /\ R!InMatchScreen(p) /\ R!HostScreen(p)
  /\ Send(p, [kind |-> "end",
              listed |-> {q \in R!Members(R!RoomOf(p)) : inMatch[q]}])
  /\ UNCHANGED <<roomVars, mode, seatVars, purseVars, resultVars, hostMoved, moves>>

\* Room::storeEndMatchStatsFor; winner is None when the scores are equal.
MatchEnd(q, winner) ==
  IF winner = None THEN "draw" ELSE IF team[q] = winner THEN "won" ELSE "lost"

MatchEndAsTold(q, winner) ==
  IF winner = None THEN "draw" ELSE IF told[q] = winner THEN "won" ELSE "lost"

\* Player::storeBatteryObtainedInMatch; m_batteryObtainedInMatch is kept.
BatteryStored(q) ==
  IF battery[q] + pickedUp[q] >= MaxBattery THEN MaxBattery ELSE battery[q] + pickedUp[q]

\* Session::storeEndMatchStats, for the players in S
StoreEndMatchStats(S) ==
  /\ battery' = [q \in Players |-> IF q \in S THEN BatteryStored(q) ELSE battery[q]]
  /\ banked' = banked \cup {q \in S : pickedUp[q] > 0}
  /\ stayed' = stayed \cup (S \cap banked)
  /\ overpaid' = (overpaid \/ ~(S \subseteq due))
  /\ UNCHANGED <<pickedUp, found>>

\* handleMatchEnding: neither that the sender is the host nor that a match runs is checked.
\* The results of those who reach a new level, or have the highest, are stored; no others.
MatchEnding(p) ==
  /\ Asked(p, "end") /\ Answered(p)
  /\ R!MatchEnding(p)
  /\ LET listed == request[p].listed \cap Seated(p) IN
     \E stored \in SUBSET listed :
       /\ StoreEndMatchStats(stored)
       /\ due' = due \ listed
       /\ wronged' = (wronged \/ \E q \in stored \ misled, winner \in Sides \cup {None} :
                        told[q] # None /\ MatchEnd(q, winner) # MatchEndAsTold(q, winner))
  /\ SeatsUnchanged
  /\ UNCHANGED <<mode, hostMoved, moves>>

\* A request of somebody who is in no room any more: the handlers return.
RequestIgnored(p) ==
  /\ R!Request(p) /\ ~Idle(p) /\ ~R!InRoom(p)
  /\ Answered(p)
  /\ UNCHANGED <<roomVars, mode, seatVars, purseVars, resultVars, hostMoved, moves>>

----------------------------------------------------------------------------
(* Steps of MainRooms that only those who leave notice *)

\* Room::changeHostByNickname for a moderator, in any screen: the index is that of the name.
ChangeHost(p, i) ==
  /\ Idle(p) /\ p \in Mods
  /\ i # 1 /\ R!ChangeHost(p, i)
  /\ hostMoved' = (hostMoved \/ inMatch[R!Host(R!RoomOf(p))])
  /\ moves < MaxMoves /\ moves' = moves + 1
  /\ SeatsUnchanged /\ LeaversLoseBatteries
  /\ UNCHANGED <<mode, request, resultVars>>

RoomStep(p) ==
  /\ Idle(p)
  /\ \/ R!Connect(p)
     \/ R!InWaitingRoom(p) /\ R!RoomLeave(p)
     \/ R!InWaitingRoom(p) /\ p \notin R!RoomOf(p).ready /\ R!PlayerState(p, TRUE)
     \/ R!InMatchScreen(p) /\ R!MatchLeave(p)
     \/ R!Breakroom(p)
  /\ NothingElse

\* A connection that is lost with a request in flight is one lost before it was sent.
ConnectionLost(p) ==
  /\ Idle(p) /\ R!Disconnect(p)
  /\ moves < MaxMoves /\ moves' = moves + 1
  /\ SeatsUnchanged /\ LeaversLoseBatteries
  /\ UNCHANGED <<mode, request, resultVars, hostMoved>>

----------------------------------------------------------------------------
(* Specification *)

Init ==
  /\ R!Init
  /\ mode = "teams"
  /\ team = [p \in Players |-> None] /\ told = [p \in Players |-> None]
  /\ request = [p \in Players |-> None]
  /\ pickedUp = [p \in Players |-> 0] /\ battery = [p \in Players |-> 0]
  /\ found = [p \in Players |-> 0]
  /\ banked = {} /\ stayed = {} /\ misled = {} /\ due = {}
  /\ overpaid = FALSE /\ wronged = FALSE /\ hostMoved = FALSE
  /\ moves = 0

SwitchStep(p) ==
  SwitchSides(p) \/ BecomeZombie(p) \/ BecomeObserver(p) \/ BecomePlayer(p) \/ SwitchRefused(p)

Next ==
  \E p \in Players :
    \/ RoomCreation(p) \/ \E r \in DOMAIN rooms : RoomJoin(p, r)
    \/ AskToSwitch(p) \/ SwitchStep(p) \/ ChangeMode(p)
    \/ AskToStart(p) \/ RoomStart(p)
    \/ ReportEnd(p) \/ MatchEnding(p)
    \/ \E q \in Players : Battery(p, q)
    \/ RequestIgnored(p)
    \/ RoomStep(p) \/ ConnectionLost(p)
    \/ \E i \in 1 .. Cardinality(Players) : ChangeHost(p, i)

Spec == Init /\ [][Next]_vars

----------------------------------------------------------------------------
(* Chat in a room; it changes nothing. *)

\* Those where p is: in the match, or out of it
Near(p) == {q \in R!Members(R!RoomOf(p)) \ {p} : inMatch[q] = inMatch[p]}

\* mutant: team talk is sent to all
TeamAudienceOfAll(p) == Near(p) \cap Seated(p)

\* Room::broadcastToTeamExceptSelf; the team of an observer stays TEAM_ALL.
TeamAudience(p) ==
  LET target == IF p \in Seated(p) THEN team[p] ELSE "all" IN
  {q \in Near(p) \cap Seated(p) : team[q] = target}

\* Room::broadcastToMatchExceptSelf: the observers of a match talk among themselves.
MatchAudience(p) ==
  IF Observing(p) /\ p \notin Mods THEN Near(p) \ Seated(p) ELSE Near(p)

\* handleLobbyChatMessage, order 161, of somebody who may speak: those who are sent it
Audience(p, extra) ==
  IF extra = "team" THEN TeamAudience(p)
  ELSE IF inMatch[p] THEN MatchAudience(p) ELSE Near(p)

----------------------------------------------------------------------------
(* Properties *)

\* The types of the variables.
TypeOK ==
  /\ R!TypeOK
  /\ mode \in Modes
  /\ team \in [Players -> Teams \cup {None}] /\ told \in [Players -> Teams \cup {None}]
  /\ request \in [Players -> Requests \cup {None}]
  /\ pickedUp \in [Players -> 0 .. MaxPicks] /\ found \in [Players -> 0 .. MaxPicks]
  /\ battery \in [Players -> 0 .. MaxBattery]
  /\ UNION {banked, stayed, misled, due} \subseteq Players
  /\ {overpaid, wronged, hostMoved} \subseteq BOOLEAN
  /\ moves \in 0 .. MaxMoves

\* The clients show the team the server has for a player, as long as no switch of that player
\* met another situation than it was sent in: the answer to a switch repeats the request.
TeamsAsShown ==
  \A p \in Players \ misled : told[p] \in {None, team[p]}

\* The teams are those of the mode, through joins, switches, changes of mode and matches:
\* with teams every player has a side; without, none but the creator of the room.
TeamsFitMode ==
  \A p \in Players \ misled :
    /\ p \in Seated(p) =>
         IF TeamBased(mode) THEN team[p] \in Sides
         ELSE team[p] \in {"all", "zombie"} \/ told[p] = "blue"
    /\ Observing(p) => team[p] = "observer"

\* Both together: a player has one team for the server and for everybody's client, and it is
\* one that the mode has.
TeamsAsTold == TeamsAsShown /\ TeamsFitMode

\* What a player says to its team is heard by those only whom its client shows in that team,
\* through all joins, switches, changes of mode and hosts, unless a switch of theirs met
\* another situation than it was sent in.
TeamTalkIsPrivate ==
  \A p \in Players \ misled :
    R!InRoom(p) /\ told[p] \in Sides =>
      \A q \in Audience(p, "team") : q \in misled \/ told[q] \in {None, told[p]}

\* The result of a match is counted once for each player who entered it, whoever hosted it,
\* left it or entered it late, unless the host was changed by hand in the match: then two
\* clients may report the end, and the handler counts both.
NoResultTwice == overpaid => hostMoved

\* A battery found is stored once, unless its finder stays in the room and has another
\* result stored: m_batteryObtainedInMatch is reset only by leaving the room.
BatteryCountedOnce ==
  \A p \in Players : battery[p] > found[p] => p \in stayed

\* Victory and defeat are counted for the team the player's own client showed.
WinnersAsTold == ~wronged

\* Both together: each result is counted, once, for the team the player thought it was in.
ResultsCountedOnce == NoResultTwice /\ WinnersAsTold

=============================================================================
