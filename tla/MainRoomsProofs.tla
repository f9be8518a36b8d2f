-------------------------- MODULE MainRoomsProofs --------------------------
(***************************************************************************)
(* Proofs about MainRooms, for any number of players, rooms and seats.     *)
(*                                                                         *)
(* The invariants are proved together: that the vectors of the rooms agree *)
(* with the sessions is what shows that an erase removes the right player, *)
(* and that nobody is seated twice is what shows that it removes all of    *)
(* it.  Most requests are instances of one state change, Leaving: some     *)
(* players leave their rooms, whole rooms of them if these are closed.     *)
(* On top of it: how full rooms become whatever clients send, where        *)
(* players are while clients send requests from the screens that offer     *)
(* them, that the rooms implement the abstract directory, and who keeps    *)
(* the seat, the room and the match when somebody else takes a step.       *)
(***************************************************************************)
EXTENDS MainRooms, Integers, SequencesExt, Vectors, SequenceTheorems, FiniteSetTheorems,
        WellFoundedInduction, TLAPS

----------------------------------------------------------------------------
(* Sequences: those that stand in a std::vector *)

\* push_back adds one member, and no duplicate when it was not there.
LEMMA SeatsAfterAppend ==
  ASSUME NEW S, NEW s \in Seq(S), NEW p \in S
  PROVE  /\ Append(s, p) \in Seq(S)
         /\ ToSet(Append(s, p)) = ToSet(s) \cup {p}
         /\ IsInjective(s) /\ p \notin ToSet(s) => IsInjective(Append(s, p))
<1>1. DOMAIN s = 1 .. Len(s) /\ DOMAIN Append(s, p) = 1 .. Len(s) + 1
  BY AppendProperties
<1>2. \A i \in 1 .. Len(s) : Append(s, p)[i] = s[i]
  BY AppendProperties
<1>3. Append(s, p)[Len(s) + 1] = p /\ Len(s) \in Nat
  BY AppendProperties
<1>4. ToSet(Append(s, p)) = ToSet(s) \cup {p}
  BY <1>1, <1>2, <1>3 DEF ToSet
<1>5. IsInjective(s) /\ p \notin ToSet(s) => IsInjective(Append(s, p))
  BY <1>1, <1>2, <1>3 DEF ToSet, IsInjective
<1> QED
  BY <1>4, <1>5, AppendProperties

\* The elements left by an erase: those behind the gap move up by one.
LEMMA RemoveAtElements ==
  ASSUME NEW S, NEW s \in Seq(S), NEW i \in DOMAIN s
  PROVE  /\ RemoveAt(s, i) \in Seq(S)
         /\ Len(RemoveAt(s, i)) = Len(s) - 1
         /\ \A j \in 1 .. Len(s) - 1 : RemoveAt(s, i)[j] = IF j < i THEN s[j] ELSE s[j + 1]
<1> DEFINE before == SubSeq(s, 1, i - 1)
           after == SubSeq(s, i + 1, Len(s))
<1>1. before \in Seq(S) /\ Len(before) = i - 1 /\ \A j \in 1 .. i - 1 : before[j] = s[j]
  OBVIOUS
<1>2. after \in Seq(S) /\ Len(after) = Len(s) - i
      /\ \A j \in 1 .. Len(s) - i : after[j] = s[i + j]
  OBVIOUS
<1>3. RemoveAt(s, i) = before \o after
  BY DEF RemoveAt
<1> HIDE DEF before, after
<1> QED
  BY SMTT(30), <1>1, <1>2, <1>3, ConcatProperties

\* erase takes exactly the erased member off a sequence without duplicates.
LEMMA SeatsAfterRemove ==
  ASSUME NEW S, NEW s \in Seq(S), NEW i \in DOMAIN s, IsInjective(s)
  PROVE  /\ RemoveAt(s, i) \in Seq(S)
         /\ ToSet(RemoveAt(s, i)) = ToSet(s) \ {s[i]}
         /\ IsInjective(RemoveAt(s, i))
<1> DEFINE t == RemoveAt(s, i)
<1>1. /\ t \in Seq(S) /\ DOMAIN t = 1 .. Len(s) - 1
      /\ DOMAIN s = 1 .. Len(s) /\ Len(s) \in Nat
      /\ \A j \in 1 .. Len(s) - 1 : t[j] = IF j < i THEN s[j] ELSE s[j + 1]
  BY RemoveAtElements
<1> HIDE DEF t
<1>2. IsInjective(t)
  <2> SUFFICES ASSUME NEW j \in DOMAIN t, NEW k \in DOMAIN t, t[j] = t[k]
               PROVE  j = k
    BY DEF IsInjective
  <2>1. j \in 1 .. Len(s) - 1 /\ k \in 1 .. Len(s) - 1 /\ i \in 1 .. Len(s)
    BY <1>1
  <2>2. \A a, b \in 1 .. Len(s) : s[a] = s[b] => a = b
    BY <1>1 DEF IsInjective
  <2>3. CASE j < i /\ k < i
    BY <1>1, <2>1, <2>2, <2>3
  <2>4. CASE ~(j < i) /\ ~(k < i)
    BY <1>1, <2>1, <2>2, <2>4
  <2>5. CASE ~(j < i <=> k < i)
    BY <1>1, <2>1, <2>2, <2>5
  <2> QED
    BY <2>3, <2>4, <2>5
<1>3. ToSet(t) \subseteq ToSet(s) \ {s[i]}
  BY <1>1 DEF ToSet, IsInjective
<1>4. ASSUME NEW x \in ToSet(s), x # s[i]
      PROVE  x \in ToSet(t)
  <2>1. PICK k \in DOMAIN s : s[k] = x
    BY DEF ToSet
  <2>2. CASE k < i
    BY <1>1, <1>4, <2>1, <2>2 DEF ToSet
  <2>3. CASE k > i
    <3>1. k - 1 \in DOMAIN t /\ t[k - 1] = x
      BY <1>1, <2>1, <2>3
    <3> QED
      BY <3>1 DEF ToSet
  <2> QED
    BY <1>1, <1>4, <2>1, <2>2, <2>3
<1> QED
  BY <1>1, <1>2, <1>3, <1>4 DEF t

\* std::swap moves nobody in or out.
LEMMA SeatsAfterSwap ==
  ASSUME NEW S, NEW s \in Seq(S), NEW i \in DOMAIN s, IsInjective(s),
         NEW t, t = [s EXCEPT ![1] = s[i], ![i] = s[1]]
  PROVE  /\ t \in Seq(S) /\ DOMAIN t = DOMAIN s
         /\ t[i] = s[1]
         /\ ToSet(t) = ToSet(s)
         /\ IsInjective(t)
<1>1. /\ DOMAIN s = 1 .. Len(s) /\ Len(s) \in Nat /\ 1 \in DOMAIN s
      /\ \A j \in DOMAIN s : s[j] \in S
  OBVIOUS
<1>2. t \in Seq(S) /\ DOMAIN t = DOMAIN s
  BY <1>1, SeqDef
<1>3. \A j \in DOMAIN s : t[j] = IF j = i THEN s[1] ELSE IF j = 1 THEN s[i] ELSE s[j]
  BY <1>1
<1>4. ToSet(t) = ToSet(s)
  <2>1. ToSet(t) \subseteq ToSet(s)
    BY <1>1, <1>2, <1>3 DEF ToSet
  <2>2. ASSUME NEW k \in DOMAIN s
        PROVE  s[k] \in ToSet(t)
    BY <1>1, <1>2, <1>3 DEF ToSet
  <2> QED
    BY <2>1, <2>2 DEF ToSet
<1>5. IsInjective(t)
  BY <1>1, <1>2, <1>3 DEF IsInjective
<1> QED
  BY <1>1, <1>2, <1>3, <1>4, <1>5

\* The 16-bit counter of rooms does not wrap around.  After that a new room may have the
\* number of an old one, which RoomsManager::addRoom keeps, and MembersAgree is lost.
NoWrap == CreationBound < NumberSpace

SeatsOf(room) ==
  /\ IsInjective(room.players) /\ IsInjective(room.observers)
  /\ ToSet(room.players) \cap ToSet(room.observers) = {}
  /\ room.ready \subseteq Members(room)

\* Only members are READY: starting a match puts nobody else into it.
ReadyInside ==
  \A r \in DOMAIN rooms : rooms[r].ready \subseteq Members(rooms[r])

\* The numbers in use have been handed out, so the next one is free.
NumbersInOrder == DOMAIN rooms \subseteq 1 .. idCounter

IInv ==
  /\ TypeOK
  /\ NumbersInOrder
  /\ MembersAgree
  /\ SeatedOnce
  /\ ReadyInside
  /\ MembersOnline
  /\ InMatchInsideRoom

----------------------------------------------------------------------------
(* Rooms *)

\* Room::removeHostFromMatch and removePlayer of a host: the swap and the erase take exactly the
\* host out.
LEMMA HostReplaced ==
  ASSUME NEW room \in Room, SeatsOf(room), NEW i \in Successors(room)
  PROVE  /\ HostReplacedBy(room, i) \in Room
         /\ SeatsOf(HostReplacedBy(room, i))
         /\ Host(room) \in ToSet(room.players)
         /\ Members(HostReplacedBy(room, i)) = Members(room) \ {Host(room)}
<1> DEFINE s == room.players
           swapped == SwapHost(s, i)
           left == RemoveAt(swapped, i)
<1>1. s \in Seq(Players) /\ i \in DOMAIN s /\ 1 \in DOMAIN s /\ IsInjective(s)
  BY DEF Room, Successors, SeatsOf
<1>2. /\ swapped \in Seq(Players) /\ i \in DOMAIN swapped /\ swapped[i] = Host(room)
      /\ ToSet(swapped) = ToSet(s) /\ IsInjective(swapped)
  <2> HIDE DEF s
  <2> QED BY <1>1, SeatsAfterSwap DEF SwapHost, Host, s
<1>3. left \in Seq(Players) /\ ToSet(left) = ToSet(s) \ {Host(room)} /\ IsInjective(left)
  <2> HIDE DEF s, swapped
  <2> QED BY <1>2, SeatsAfterRemove
<1>4. Host(room) \in ToSet(s)
  BY <1>1 DEF Host, ToSet
<1>5. HostReplacedBy(room, i) = [room EXCEPT !.players = left, !.ready = @ \ {Host(room)}]
  BY DEF HostReplacedBy
<1> HIDE DEF left, swapped
<1>6. HostReplacedBy(room, i) \in Room
  BY <1>3, <1>5 DEF Room
<1>7. /\ HostReplacedBy(room, i).players = left
      /\ HostReplacedBy(room, i).observers = room.observers
      /\ HostReplacedBy(room, i).ready = room.ready \ {Host(room)}
  BY <1>5 DEF Room
<1> QED
  BY <1>3, <1>4, <1>6, <1>7 DEF SeatsOf, Members

\* What erasing one entry of either vector leaves.
LEMMA MemberErased ==
  ASSUME NEW room \in Room, SeatsOf(room), NEW p \in Players
  PROVE  /\ p \in ToSet(room.players) =>
              /\ PlayerErased(room, p) \in Room
              /\ SeatsOf(PlayerErased(room, p))
              /\ Members(PlayerErased(room, p)) = Members(room) \ {p}
         /\ p \in ToSet(room.observers) =>
              /\ ObserverErased(room, p) \in Room
              /\ SeatsOf(ObserverErased(room, p))
              /\ Members(ObserverErased(room, p)) = Members(room) \ {p}
<1>1. /\ room.players \in Seq(Players) /\ room.observers \in Seq(Players)
      /\ room.ready \ {p} \in SUBSET Players
  BY DEF Room
<1>2. ASSUME NEW s \in Seq(Players), IsInjective(s), p \in ToSet(s)
      PROVE  LET t == RemoveAt(s, IndexIn(s, p)) IN
             t \in Seq(Players) /\ ToSet(t) = ToSet(s) \ {p} /\ IsInjective(t)
  <2>1. IndexIn(s, p) \in DOMAIN s /\ s[IndexIn(s, p)] = p
    BY <1>2 DEF IndexIn, ToSet
  <2> QED
    BY <1>2, <2>1, SeatsAfterRemove
<1>3. ASSUME p \in ToSet(room.players)
      PROVE  /\ PlayerErased(room, p) \in Room
             /\ SeatsOf(PlayerErased(room, p))
             /\ Members(PlayerErased(room, p)) = Members(room) \ {p}
  <2> DEFINE t == RemoveAt(room.players, IndexIn(room.players, p))
  <2>1. t \in Seq(Players) /\ ToSet(t) = ToSet(room.players) \ {p} /\ IsInjective(t)
    BY <1>1, <1>2, <1>3 DEF SeatsOf
  <2>2. PlayerErased(room, p) = [room EXCEPT !.players = t, !.ready = @ \ {p}]
    BY DEF PlayerErased
  <2> HIDE DEF t
  <2>3. /\ PlayerErased(room, p) \in Room
        /\ PlayerErased(room, p).players = t
        /\ PlayerErased(room, p).observers = room.observers
        /\ PlayerErased(room, p).ready = room.ready \ {p}
    BY <2>1, <2>2 DEF Room
  <2> QED
    BY <1>3, <2>1, <2>3 DEF SeatsOf, Members
<1>4. ASSUME p \in ToSet(room.observers)
      PROVE  /\ ObserverErased(room, p) \in Room
             /\ SeatsOf(ObserverErased(room, p))
             /\ Members(ObserverErased(room, p)) = Members(room) \ {p}
  <2> DEFINE t == RemoveAt(room.observers, IndexIn(room.observers, p))
  <2>1. t \in Seq(Players) /\ ToSet(t) = ToSet(room.observers) \ {p} /\ IsInjective(t)
    BY <1>1, <1>2, <1>4 DEF SeatsOf
  <2>2. ObserverErased(room, p) = [room EXCEPT !.observers = t, !.ready = @ \ {p}]
    BY DEF ObserverErased
  <2> HIDE DEF t
  <2>3. /\ ObserverErased(room, p) \in Room
        /\ ObserverErased(room, p).observers = t
        /\ ObserverErased(room, p).players = room.players
        /\ ObserverErased(room, p).ready = room.ready \ {p}
    BY <2>1, <2>2 DEF Room
  <2> QED
    BY <1>4, <2>1, <2>3 DEF SeatsOf, Members
<1> QED
  BY <1>3, <1>4

\* Room::removePlayer takes exactly p out, whichever of its branches runs.
LEMMA RemovedExactly ==
  ASSUME NEW room \in Room, SeatsOf(room), NEW p \in Players, NEW left \in PlayerRemoved(room, p)
  PROVE  left \in Room /\ SeatsOf(left) /\ Members(left) = Members(room) \ {p}
<1>1. CASE p \in ToSet(room.players) /\ IsHost(room, p) /\ Successors(room) # {}
  BY <1>1, HostReplaced DEF PlayerRemoved, IsHost
<1>2. CASE p \in ToSet(room.players) /\ ~(IsHost(room, p) /\ Successors(room) # {})
  BY <1>2, MemberErased DEF PlayerRemoved
<1>3. CASE p \notin ToSet(room.players) /\ p \in ToSet(room.observers)
  BY <1>3, MemberErased DEF PlayerRemoved
<1>4. CASE p \notin Members(room)
  BY <1>4 DEF PlayerRemoved, Members
<1> QED
  BY <1>1, <1>2, <1>3, <1>4 DEF Members

----------------------------------------------------------------------------
(* The table of rooms *)

\* What the invariant says of one room, as Room's own methods may assume it.
LEMMA Seats ==
  ASSUME IInv, NEW r \in DOMAIN rooms
  PROVE  /\ rooms[r] \in Room /\ SeatsOf(rooms[r])
         /\ Members(rooms[r]) = {p \in Players : roomNumber[p] = r}
         /\ Members(rooms[r]) \subseteq online
         /\ r # NoRoom
BY DEF IInv, TypeOK, SeatedOnce, ReadyInside, SeatsOf, MembersAgree, MembersOnline, NumbersInOrder, NoRoom

\* A step in which the players of S leave their rooms, whole rooms of them if these close,
\* and nobody enters one.
Leaving(S) ==
  /\ S \subseteq Players
  /\ DOMAIN rooms' \subseteq DOMAIN rooms
  /\ rooms' = [r \in DOMAIN rooms' |-> rooms'[r]]
  /\ \A r \in DOMAIN rooms' :
       /\ rooms'[r] \in Room /\ SeatsOf(rooms'[r])
       /\ Members(rooms'[r]) = Members(rooms[r]) \ S
  /\ \A r \in DOMAIN rooms \ DOMAIN rooms' : Members(rooms[r]) \subseteq S
  /\ roomNumber' = [p \in Players |-> IF p \in S THEN NoRoom ELSE roomNumber[p]]
  /\ \A p \in Players : inMatch'[p] => p \notin S /\ InRoom(p)
  /\ inMatch' \in [Players -> BOOLEAN]
  /\ inLobby' \in [Players -> BOOLEAN]
  /\ online \ S \subseteq online' /\ online' \subseteq Players
  /\ idCounter' = idCounter
  /\ undefined' \in BOOLEAN

\* Such a step keeps the invariant: this is where it matters that both sides are updated.
LEMMA LeavingPreserves ==
  ASSUME IInv, NEW S, Leaving(S)
  PROVE  IInv'
<1>1. TypeOK'
  BY ConstantsAssumption DEF IInv, TypeOK, Leaving, NoRoom
<1>2. NumbersInOrder'
  BY DEF IInv, NumbersInOrder, Leaving
<1>3. SeatedOnce' /\ ReadyInside'
  BY DEF SeatedOnce, ReadyInside, SeatsOf, Members, Leaving
<1>4. \A r \in DOMAIN rooms' : Members(rooms'[r]) = {p \in Players : roomNumber'[p] = r}
  BY Seats DEF Leaving
<1>5. \A p \in Players : roomNumber'[p] # NoRoom => roomNumber'[p] \in DOMAIN rooms'
  <2> SUFFICES ASSUME NEW p \in Players, roomNumber'[p] # NoRoom
               PROVE  roomNumber'[p] \in DOMAIN rooms'
    OBVIOUS
  <2>1. p \notin S /\ roomNumber'[p] = roomNumber[p]
    BY DEF Leaving
  <2>2. roomNumber[p] \in DOMAIN rooms
    BY <2>1 DEF IInv, MembersAgree
  <2>3. p \in Members(rooms[roomNumber[p]])
    BY <2>2, Seats
  <2> QED
    BY <2>1, <2>2, <2>3 DEF Leaving
<1>6. MembersAgree'
  BY <1>4, <1>5 DEF MembersAgree, Members
<1>7. MembersOnline'
  <2> SUFFICES ASSUME NEW r \in DOMAIN rooms'
               PROVE  Members(rooms'[r]) \subseteq online'
    BY DEF MembersOnline, Members
  <2> QED
    BY Seats DEF Leaving
<1>8. InMatchInsideRoom'
  <2> SUFFICES ASSUME NEW p \in Players, inMatch'[p]
               PROVE  roomNumber'[p] # NoRoom /\ roomNumber'[p] \in DOMAIN rooms'
    BY DEF InMatchInsideRoom, InRoom
  <2>1. p \notin S /\ roomNumber[p] # NoRoom
    BY DEF Leaving, InRoom
  <2>2. roomNumber'[p] = roomNumber[p]
    BY <2>1 DEF Leaving
  <2> QED
    BY <1>5, <2>1, <2>2
<1> QED
  BY <1>1, <1>2, <1>3, <1>6, <1>7, <1>8 DEF IInv

\* Player::leaveRoom for the players of S.
LEMMA SessionsLeave ==
  ASSUME IInv, NEW S \in SUBSET Players, LeaveRoom(S)
  PROVE  /\ roomNumber' = [p \in Players |-> IF p \in S THEN NoRoom ELSE roomNumber[p]]
         /\ \A p \in Players : inMatch'[p] => p \notin S /\ InRoom(p)
         /\ inMatch' \in [Players -> BOOLEAN]
         /\ inLobby' \in [Players -> BOOLEAN]
BY DEF IInv, TypeOK, LeaveRoom, InMatchInsideRoom

\* One room changes, losing those of its members that are in S.
LEMMA RoomChanges ==
  ASSUME IInv, NEW r \in DOMAIN rooms, NEW new, NEW S \in SUBSET Players,
         new \in Room, SeatsOf(new), Members(new) = Members(rooms[r]) \ S,
         \A p \in S : roomNumber[p] \in {r, NoRoom},
         rooms' = [rooms EXCEPT ![r] = new],
         roomNumber' = [p \in Players |-> IF p \in S THEN NoRoom ELSE roomNumber[p]],
         \A p \in Players : inMatch'[p] => p \notin S /\ InRoom(p),
         inMatch' \in [Players -> BOOLEAN], inLobby' \in [Players -> BOOLEAN],
         online \ S \subseteq online', online' \subseteq Players,
         UNCHANGED <<idCounter, undefined>>
  PROVE  Leaving(S)
<1>1. DOMAIN rooms' = DOMAIN rooms /\ rooms' = [x \in DOMAIN rooms' |-> rooms'[x]]
  BY DEF IInv, TypeOK
<1>2. ASSUME NEW x \in DOMAIN rooms'
      PROVE  /\ rooms'[x] \in Room /\ SeatsOf(rooms'[x])
             /\ Members(rooms'[x]) = Members(rooms[x]) \ S
  <2>1. CASE x = r
    BY <1>1, <2>1
  <2>2. CASE x # r
    <3>1. rooms'[x] = rooms[x] /\ x \in DOMAIN rooms
      BY <1>1, <2>2
    <3>2. Members(rooms[x]) \cap S = {}
      BY <2>2, <3>1, Seats
    <3> QED
      BY <3>1, <3>2, Seats
  <2> QED
    BY <2>1, <2>2
<1>3. undefined' \in BOOLEAN
  BY DEF IInv, TypeOK
<1> QED
  BY <1>1, <1>2, <1>3 DEF Leaving

\* One room changes, and nobody leaves it.
LEMMA RoomEdited ==
  ASSUME IInv, NEW r \in DOMAIN rooms, NEW new,
         new \in Room, SeatsOf(new), Members(new) = Members(rooms[r]),
         rooms' = [rooms EXCEPT ![r] = new],
         \A p \in Players : inMatch'[p] => InRoom(p),
         inMatch' \in [Players -> BOOLEAN],
         UNCHANGED <<online, roomNumber, inLobby, idCounter, undefined>>
  PROVE  IInv'
<1>1. /\ roomNumber' = [p \in Players |-> IF p \in {} THEN NoRoom ELSE roomNumber[p]]
      /\ inLobby' \in [Players -> BOOLEAN]
      /\ online' \subseteq Players
  BY DEF IInv, TypeOK
<1>2. Leaving({})
  BY <1>1, RoomChanges
<1> QED
  BY <1>2, LeavingPreserves

\* RoomsManager::removeRoom empties the room before it erases the entry.
LEMMA ClosedRoomLeaves ==
  ASSUME IInv, NEW r \in DOMAIN rooms, CloseRoom(r),
         online \ Members(rooms[r]) \subseteq online', online' \subseteq Players,
         UNCHANGED <<idCounter, undefined>>
  PROVE  Leaving(Members(rooms[r]))
<1> DEFINE S == Members(rooms[r])
<1>1. S \in SUBSET Players
  BY Seats
<1>2. /\ DOMAIN rooms' = DOMAIN rooms \ {r}
      /\ rooms' = [x \in DOMAIN rooms' |-> rooms'[x]]
      /\ \A x \in DOMAIN rooms' : rooms'[x] = rooms[x]
  BY DEF CloseRoom
<1>3. ASSUME NEW x \in DOMAIN rooms'
      PROVE  /\ rooms'[x] \in Room /\ SeatsOf(rooms'[x])
             /\ Members(rooms'[x]) = Members(rooms[x]) \ S
  <2>1. Members(rooms[x]) \cap S = {}
    BY <1>2, Seats
  <2> QED
    BY <1>2, <2>1, Seats
<1>4. LeaveRoom(S)
  BY DEF CloseRoom
<1> HIDE DEF S
<1>5. undefined' \in BOOLEAN
  BY DEF IInv, TypeOK
<1>6. DOMAIN rooms \ DOMAIN rooms' = {r}
  BY <1>2
<1>7. \A x \in DOMAIN rooms \ DOMAIN rooms' : Members(rooms[x]) \subseteq S
  BY <1>6 DEF S
<1>8. online \ S \subseteq online'
  BY DEF S
<1>9. Leaving(S)
  BY <1>1, <1>2, <1>3, <1>4, <1>5, <1>7, <1>8, SessionsLeave DEF Leaving
<1> QED
  BY <1>9 DEF S

\* Room::removePlayer, and the closing of the room it may ask for.
LEMMA RemovePlayerPreserves ==
  ASSUME IInv, NEW p \in Players, InRoom(p), NEW S \in {{}, {p}},
         RemovePlayer(roomNumber[p], p, S),
         online \ {p} \subseteq online', online' \subseteq Players,
         UNCHANGED <<idCounter, undefined>>
  PROVE  IInv'
<1> DEFINE r == roomNumber[p]
<1>1. r \in DOMAIN rooms /\ p \in Members(rooms[r])
  BY Seats DEF InRoom
<1>2. PICK left \in PlayerRemoved(rooms[r], p) :
        IF MustClose(rooms[r], p, left)
        THEN CloseRoom(r)
        ELSE rooms' = [rooms EXCEPT ![r] = left] /\ LeaveRoom(S \cup ({p} \cap Members(rooms[r])))
  BY DEF RemovePlayer
<1>3. CASE CloseRoom(r)
  <2>1. Leaving(Members(rooms[r]))
    BY <1>1, <1>3, ClosedRoomLeaves
  <2> QED
    BY <2>1, LeavingPreserves
<1>4. CASE rooms' = [rooms EXCEPT ![r] = left] /\ LeaveRoom(S \cup ({p} \cap Members(rooms[r])))
  <2>1. S \cup ({p} \cap Members(rooms[r])) = {p}
    BY <1>1
  <2>2. left \in Room /\ SeatsOf(left) /\ Members(left) = Members(rooms[r]) \ {p}
    BY <1>1, <1>2, Seats, RemovedExactly
  <2>3. LeaveRoom({p})
    BY <1>4, <2>1
  <2> HIDE DEF r
  <2>4. \A q \in {p} : roomNumber[q] \in {r, NoRoom}
    BY DEF r
  <2>5. Leaving({p})
    BY ZenonT(30), <1>1, <1>4, <2>2, <2>3, <2>4, SessionsLeave, RoomChanges
  <2> QED
    BY <2>5, LeavingPreserves
<1> QED
  BY <1>2, <1>3, <1>4

\* Room::removeHostFromMatch, and the closing of the room it may ask for.
LEMMA RemoveHostFromMatchPreserves ==
  ASSUME IInv, NEW p \in Players, InRoom(p), HasHost(RoomOf(p)), IsHost(RoomOf(p), p),
         RemoveHostFromMatch(roomNumber[p]),
         online \ {p} \subseteq online', online' \subseteq Players,
         UNCHANGED <<idCounter, undefined>>
  PROVE  IInv'
<1> DEFINE r == roomNumber[p]
           room == rooms[r]
<1>1. /\ r \in DOMAIN rooms /\ room \in Room /\ SeatsOf(room)
      /\ p \in Members(room) /\ Host(room) = p
  BY Seats DEF InRoom, RoomOf, IsHost
<1>2. CASE CloseRoom(r)
  <2>1. Leaving(Members(rooms[r]))
    BY <1>1, <1>2, ClosedRoomLeaves
  <2> QED
    BY <2>1, LeavingPreserves
<1>3. ASSUME NEW i \in Successors(room), NEW ongoing \in BOOLEAN,
             rooms' = [rooms EXCEPT ![r] =
                         [HostReplacedBy(room, i) EXCEPT !.started = room.started /\ ongoing]],
             LeaveRoom({Host(room)})
      PROVE  IInv'
  <2> DEFINE base == HostReplacedBy(room, i)
             new == [base EXCEPT !.started = room.started /\ ongoing]
  <2>1. base \in Room /\ SeatsOf(base) /\ Members(base) = Members(room) \ {p}
    BY <1>1, HostReplaced
  <2>2. (room.started /\ ongoing) \in BOOLEAN
    BY <1>1 DEF Room
  <2>3. rooms' = [rooms EXCEPT ![r] = new]
    BY <1>3
  <2> HIDE DEF base, room
  <2>4. new \in Room /\ SeatsOf(new) /\ Members(new) = Members(rooms[r]) \ {p}
    BY <2>1, <2>2 DEF Room, SeatsOf, Members, room
  <2>5. LeaveRoom({p})
    BY <1>1, <1>3
  <2> HIDE DEF r, new
  <2>6. \A q \in {p} : roomNumber[q] \in {r, NoRoom}
    BY DEF r
  <2>7. /\ roomNumber' = [q \in Players |-> IF q \in {p} THEN NoRoom ELSE roomNumber[q]]
        /\ \A q \in Players : inMatch'[q] => q \notin {p} /\ InRoom(q)
        /\ inMatch' \in [Players -> BOOLEAN] /\ inLobby' \in [Players -> BOOLEAN]
    BY <2>5, SessionsLeave
  <2>8. r \in DOMAIN rooms /\ {p} \in SUBSET Players
    BY <1>1
  <2>9. Leaving({p})
    BY <2>3, <2>4, <2>6, <2>7, <2>8, RoomChanges
  <2> QED
    BY <2>9, LeavingPreserves
<1>4. SuccessorsInMatch(room) \subseteq Successors(room)
  BY DEF SuccessorsInMatch
<1>5. \/ CloseRoom(r)
      \/ \E i \in Successors(room), ongoing \in BOOLEAN :
           /\ rooms' = [rooms EXCEPT ![r] =
                 [HostReplacedBy(room, i) EXCEPT !.started = room.started /\ ongoing]]
           /\ LeaveRoom({Host(room)})
  <2>1. CASE \E i \in SuccessorsInMatch(room) :
               /\ rooms' = [rooms EXCEPT ![r] =
                     [HostReplacedBy(room, i) EXCEPT !.started = room.started /\ TRUE]]
               /\ LeaveRoom({Host(room)})
    BY <1>4, <2>1
  <2>2. CASE \E i \in Successors(room) :
               /\ rooms' = [rooms EXCEPT ![r] =
                     [HostReplacedBy(room, i) EXCEPT !.started = room.started /\ FALSE]]
               /\ LeaveRoom({Host(room)})
    BY <2>2
  <2> QED
    BY <2>1, <2>2, Zenon DEF RemoveHostFromMatch
<1> QED
  BY <1>2, <1>3, <1>5

----------------------------------------------------------------------------
(* One lemma per kind of request *)

\* SessionsManager::addSession.
LEMMA ConnectPreserves ==
  ASSUME IInv, NEW p \in Players, Connect(p)
  PROVE  IInv'
BY DEF Connect, sessionVars, IInv, TypeOK, NumbersInOrder, MembersAgree, Members, SeatedOnce,
       ReadyInside, MembersOnline, InMatchInsideRoom, InRoom

\* Recording that m_players[0] of an empty room has been read changes nothing else.
LEMMA UndefinedReadPreserves ==
  ASSUME IInv, UndefinedRead
  PROVE  IInv'
BY DEF UndefinedRead, sessionVars, IInv, TypeOK, NumbersInOrder, MembersAgree, Members,
       SeatedOnce, ReadyInside, MembersOnline, InMatchInsideRoom, InRoom

\* SessionsManager::removeSession, in each of its four branches.
LEMMA DisconnectPreserves ==
  ASSUME IInv, NEW p \in Players, Disconnect(p)
  PROVE  IInv'
<1>1. /\ online' = online \ {p} /\ online' \subseteq Players
      /\ UNCHANGED <<idCounter, undefined>>
  BY DEF Disconnect, IInv, TypeOK
<1>2. CASE roomNumber[p] = NoRoom /\ LeaveRoom({p}) /\ UNCHANGED rooms
  <2>1. \A r \in DOMAIN rooms : Members(rooms[r]) \cap {p} = {}
    BY <1>2, Seats
  <2>2. rooms' = [r \in DOMAIN rooms' |-> rooms'[r]] /\ undefined' \in BOOLEAN
    BY <1>1, <1>2 DEF IInv, TypeOK
  <2>3. Leaving({p})
    BY <1>1, <1>2, <2>1, <2>2, Seats, SessionsLeave DEF Leaving
  <2> QED
    BY <2>3, LeavingPreserves
<1>3. CASE /\ InRoom(p) /\ HasHost(RoomOf(p)) /\ IsHost(RoomOf(p), p)
           /\ RemoveHostFromMatch(roomNumber[p])
  BY <1>1, <1>3, RemoveHostFromMatchPreserves
<1>4. ASSUME InRoom(p), LeaveRoom({p}), NEW left \in PlayerRemoved(RoomOf(p), p),
             rooms' = [rooms EXCEPT ![roomNumber[p]] = left]
      PROVE  IInv'
  <2> DEFINE r == roomNumber[p]
  <2>1. r \in DOMAIN rooms /\ RoomOf(p) = rooms[r]
    BY <1>4 DEF InRoom, RoomOf
  <2>2. left \in Room /\ SeatsOf(left) /\ Members(left) = Members(rooms[r]) \ {p}
    BY <2>1, Seats, RemovedExactly
  <2>3. rooms' = [rooms EXCEPT ![r] = left]
    BY <1>4
  <2>4. \A q \in {p} : roomNumber[q] \in {r, NoRoom}
    OBVIOUS
  <2> HIDE DEF r
  <2>5. /\ roomNumber' = [q \in Players |-> IF q \in {p} THEN NoRoom ELSE roomNumber[q]]
        /\ \A q \in Players : inMatch'[q] => q \notin {p} /\ InRoom(q)
        /\ inMatch' \in [Players -> BOOLEAN] /\ inLobby' \in [Players -> BOOLEAN]
    BY <1>4, SessionsLeave
  <2>6. Leaving({p})
    BY <1>1, <2>1, <2>2, <2>3, <2>4, <2>5, RoomChanges
  <2> QED
    BY <2>6, LeavingPreserves
<1>5. CASE InRoom(p) /\ RemovePlayer(roomNumber[p], p, {p})
  BY <1>1, <1>5, RemovePlayerPreserves
<1> QED
  BY <1>2, <1>3, <1>4, <1>5 DEF Disconnect

\* A player outside all rooms is seated in one.
LEMMA EnteringPreserves ==
  ASSUME IInv, NEW p \in online, roomNumber[p] = NoRoom,
         NEW r \in 1 .. NumberSpace - 1, NEW new, new \in Room, SeatsOf(new),
         Members(new) = {p} \cup IF r \in DOMAIN rooms THEN Members(rooms[r]) ELSE {},
         rooms' = [x \in DOMAIN rooms \cup {r} |-> IF x = r THEN new ELSE rooms[x]],
         EnterRoom(p, r), UNCHANGED <<online, undefined>>,
         idCounter' \in 0 .. NumberSpace - 1, NumbersInOrder'
  PROVE  IInv'
<1>1. p \in Players /\ r # NoRoom
  BY DEF IInv, TypeOK, NoRoom
<1>2. \A x \in DOMAIN rooms' \ {r} : rooms'[x] = rooms[x] /\ x \in DOMAIN rooms
  OBVIOUS
<1>3. rooms'[r] = new /\ r \in DOMAIN rooms'
  OBVIOUS
<1>4. TypeOK'
  BY <1>1, <1>2, <1>3 DEF IInv, TypeOK, EnterRoom
<1>5. SeatedOnce' /\ ReadyInside'
  BY <1>2, <1>3, Seats DEF SeatedOnce, ReadyInside, SeatsOf, Members
<1>6. \A q \in Players : roomNumber'[q] = IF q = p THEN r ELSE roomNumber[q]
  BY <1>1 DEF IInv, TypeOK, EnterRoom
<1>7. \A x \in DOMAIN rooms' : Members(rooms'[x]) = {q \in Players : roomNumber'[q] = x}
  <2>1. ASSUME NEW x \in DOMAIN rooms', x # r
        PROVE  Members(rooms'[x]) = {q \in Players : roomNumber'[q] = x}
    <3>1. Members(rooms[x]) = {q \in Players : roomNumber[q] = x} /\ x # NoRoom
      BY <1>2, <2>1, Seats
    <3> QED
      BY <1>2, <1>6, <2>1, <3>1
  <2>2. Members(new) = {q \in Players : roomNumber'[q] = r}
    <3>1. CASE r \in DOMAIN rooms
      BY <1>1, <1>6, <3>1, Seats
    <3>2. CASE r \notin DOMAIN rooms
      <4>1. \A q \in Players : roomNumber[q] # r
        BY <1>1, <3>2 DEF IInv, MembersAgree
      <4> QED
        BY <1>1, <1>6, <3>2, <4>1
    <3> QED
      BY <3>1, <3>2
  <2> QED
    BY <1>3, <2>1, <2>2
<1>8. MembersAgree'
  <2>1. \A q \in Players : roomNumber'[q] # NoRoom => roomNumber'[q] \in DOMAIN rooms'
    BY <1>6 DEF IInv, MembersAgree
  <2> QED
    BY <1>7, <2>1 DEF MembersAgree, Members
<1>9. MembersOnline'
  <2>1. Members(new) \subseteq online
    BY Seats
  <2> QED
    BY <1>2, <1>3, <2>1, Seats DEF MembersOnline, Members
<1>10. InMatchInsideRoom'
  BY <1>6 DEF IInv, InMatchInsideRoom, InRoom, EnterRoom
<1> QED
  BY <1>4, <1>5, <1>8, <1>9, <1>10 DEF IInv

\* handleRoomCreation: the number of a new room is free, as long as the counter has not wrapped.
LEMMA RoomCreationPreserves ==
  ASSUME NoWrap, IInv, NEW p \in Players, InLobbyScreen(p), RoomCreation(p)
  PROVE  IInv'
<1> DEFINE r == (idCounter + 1) % NumberSpace
<1>1. idCounter \in Nat /\ idCounter + 1 \in 1 .. NumberSpace - 1
  BY ConstantsAssumption DEF NoWrap, IInv, TypeOK, RoomCreation
<1>2. r = idCounter + 1
  BY <1>1, ConstantsAssumption
<1> HIDE DEF r
<1>3. /\ idCounter' = r /\ p \in online /\ roomNumber[p] = NoRoom
      /\ UNCHANGED <<online, undefined>>
  BY DEF RoomCreation, Request, InLobbyScreen, r
<1>4. r \notin DOMAIN rooms
  BY <1>1, <1>2 DEF IInv, NumbersInOrder
<1>5. CASE UNCHANGED <<rooms, sessionVars>>
  <2>1. TypeOK' /\ NumbersInOrder'
    BY <1>1, <1>2, <1>3, <1>5 DEF sessionVars, IInv, TypeOK, NumbersInOrder
  <2>2. MembersAgree' /\ SeatedOnce' /\ ReadyInside'
    BY <1>5 DEF sessionVars, IInv, MembersAgree, Members, SeatedOnce, ReadyInside
  <2>3. MembersOnline' /\ InMatchInsideRoom'
    BY <1>3, <1>5 DEF sessionVars, IInv, MembersOnline, Members, InMatchInsideRoom, InRoom
  <2> QED
    BY <2>1, <2>2, <2>3 DEF IInv
<1>6. ASSUME EnterRoom(p, r), NEW perTeam \in TeamSizes, NEW obsOn \in BOOLEAN,
             NEW new, new = [players |-> <<p>>, observers |-> <<>>, ready |-> {}, kicked |-> {},
                             started |-> FALSE, perTeam |-> perTeam, obsOn |-> obsOn],
             rooms' = [x \in DOMAIN rooms \cup {r} |-> IF x \in DOMAIN rooms THEN rooms[x] ELSE new]
      PROVE  IInv'
  <2>1. rooms' = [x \in DOMAIN rooms \cup {r} |-> IF x = r THEN new ELSE rooms[x]]
    BY <1>4, <1>6
  <2>2. new \in Room
    BY <1>6 DEF Room
  <2>3. ToSet(new.players) = {p} /\ ToSet(new.observers) = {}
    BY <1>6 DEF ToSet
  <2>4. SeatsOf(new)
    <3>1. new.players = <<p>> /\ new.observers = <<>> /\ new.ready = {}
      BY <1>6
    <3>2. IsInjective(<<p>>) /\ IsInjective(<<>>)
      BY DEF IsInjective
    <3> QED
      BY <2>3, <3>1, <3>2 DEF SeatsOf
  <2>5. NumbersInOrder'
    BY <1>1, <1>2, <1>3, <2>1 DEF IInv, NumbersInOrder
  <2>6. Members(new) = {p} \cup IF r \in DOMAIN rooms THEN Members(rooms[r]) ELSE {}
    BY <1>4, <2>3 DEF Members
  <2>7. r \in 1 .. NumberSpace - 1 /\ idCounter' \in 0 .. NumberSpace - 1
    BY <1>1, <1>2, <1>3
  <2>8. EnterRoom(p, r)
    BY <1>6
  <2> QED
    BY <1>3, <2>1, <2>2, <2>4, <2>5, <2>6, <2>7, <2>8, EnteringPreserves
<1> QED
  BY <1>5, <1>6 DEF RoomCreation, NewRoom, r

\* handleRoomJoin, as a player or as an observer.
LEMMA RoomJoinPreserves ==
  ASSUME IInv, NEW p \in Players, InLobbyScreen(p), NEW r \in DOMAIN rooms, RoomJoin(p, r)
  PROVE  IInv'
<1> DEFINE room == rooms[r]
<1>1. /\ room \in Room /\ SeatsOf(room) /\ p \notin Members(room)
      /\ roomNumber[p] = NoRoom /\ p \in online
  BY Seats DEF InLobbyScreen, RoomJoin, Request
<1>2. r \in 1 .. NumberSpace - 1
  BY ConstantsAssumption DEF IInv, TypeOK, NumbersInOrder
<1>3. NumbersInOrder'
  BY DEF RoomJoin, AddPlayer, AddObserverPlayer, IInv, NumbersInOrder
<1>4. \E new : /\ rooms' = [rooms EXCEPT ![r] = new]
               /\ new \in Room /\ SeatsOf(new) /\ Members(new) = Members(room) \cup {p}
  <2> DEFINE players == Append(room.players, p)
             observers == Append(room.observers, p)
  <2>1. /\ room.players \in Seq(Players) /\ room.observers \in Seq(Players)
        /\ p \notin ToSet(room.players) /\ p \notin ToSet(room.observers)
        /\ IsInjective(room.players) /\ IsInjective(room.observers)
        /\ ToSet(room.players) \cap ToSet(room.observers) = {}
        /\ room.ready \subseteq Members(room)
    BY <1>1 DEF Room, SeatsOf, Members
  <2>2. /\ players \in Seq(Players) /\ ToSet(players) = ToSet(room.players) \cup {p}
        /\ observers \in Seq(Players) /\ ToSet(observers) = ToSet(room.observers) \cup {p}
        /\ IsInjective(players) /\ IsInjective(observers)
    BY <2>1, SeatsAfterAppend
  <2>3. CASE rooms' = [rooms EXCEPT ![r].players = Append(@, p)]
    <3> DEFINE new == [room EXCEPT !.players = players]
    <3>1. rooms' = [rooms EXCEPT ![r] = new]
      BY <2>3
    <3> HIDE DEF players, room
    <3>2. new \in Room /\ new.players = players /\ new.observers = room.observers
         /\ new.ready = room.ready
      BY <1>1, <2>2 DEF Room
    <3> HIDE DEF new
    <3>3. SeatsOf(new) /\ Members(new) = Members(room) \cup {p}
      BY <2>1, <2>2, <3>2 DEF SeatsOf, Members
    <3> QED
      BY <3>1, <3>2, <3>3
  <2>4. CASE rooms' = [rooms EXCEPT ![r].observers = Append(@, p)]
    <3> DEFINE new == [room EXCEPT !.observers = observers]
    <3>1. rooms' = [rooms EXCEPT ![r] = new]
      BY <2>4
    <3> HIDE DEF observers, room
    <3>2. new \in Room /\ new.observers = observers /\ new.players = room.players
         /\ new.ready = room.ready
      BY <1>1, <2>2 DEF Room
    <3> HIDE DEF new
    <3>3. SeatsOf(new) /\ Members(new) = Members(room) \cup {p}
      BY <2>1, <2>2, <3>2 DEF SeatsOf, Members
    <3> QED
      BY <3>1, <3>2, <3>3
  <2> QED
    BY <2>3, <2>4 DEF RoomJoin, AddPlayer, AddObserverPlayer
<1>5. PICK new : /\ rooms' = [rooms EXCEPT ![r] = new]
                 /\ new \in Room /\ SeatsOf(new) /\ Members(new) = Members(room) \cup {p}
  BY <1>4
<1>6. rooms' = [x \in DOMAIN rooms \cup {r} |-> IF x = r THEN new ELSE rooms[x]]
  BY <1>5 DEF IInv, TypeOK
<1>7. Members(new) = {p} \cup IF r \in DOMAIN rooms THEN Members(rooms[r]) ELSE {}
  BY <1>5
<1>8. /\ EnterRoom(p, r) /\ UNCHANGED <<online, undefined>>
      /\ idCounter' \in 0 .. NumberSpace - 1
  BY DEF RoomJoin, IInv, TypeOK
<1> HIDE DEF room
<1> QED
  BY <1>1, <1>2, <1>3, <1>5, <1>6, <1>7, <1>8, EnteringPreserves

\* handleRoomLeave, LEAVE_NORMAL.
LEMMA RoomLeavePreserves ==
  ASSUME IInv, NEW p \in Players, RoomLeave(p)
  PROVE  IInv'
<1>1. /\ InRoom(p) /\ RemovePlayer(roomNumber[p], p, {})
      /\ online \ {p} \subseteq online' /\ online' \subseteq Players
      /\ UNCHANGED <<idCounter, undefined>>
  BY DEF RoomLeave, IInv, TypeOK
<1> QED
  BY <1>1, RemovePlayerPreserves

\* What a kick leaves of the kicked player's room.
LEMMA KickedExactly ==
  ASSUME NEW room \in Room, SeatsOf(room), NEW t \in Players,
         NEW left \in PlayerRemoved(room, t), NEW q \in Players
  PROVE  LET new == [left EXCEPT !.kicked = @ \cup {q}] IN
         new \in Room /\ SeatsOf(new) /\ Members(new) = Members(room) \ {t}
<1>1. left \in Room /\ SeatsOf(left) /\ Members(left) = Members(room) \ {t}
  BY RemovedExactly
<1> QED
  BY <1>1 DEF Room, SeatsOf, Members

\* handleRoomLeave, KICK_PLAYER: a target from another room stays where it is.
LEMMA RoomLeaveKickPreserves ==
  ASSUME IInv, NEW p \in Players, NEW t \in Players, RoomLeaveKick(p, t)
  PROVE  IInv'
<1> DEFINE r == roomNumber[p]
           S == {t} \cap Members(rooms[r])
<1>1. r \in DOMAIN rooms /\ RoomOf(p) = rooms[r] /\ rooms[r] \in Room /\ SeatsOf(rooms[r])
  BY Seats DEF RoomLeaveKick, InRoom, RoomOf
<1>2. PICK left \in PlayerRemoved(rooms[r], t) :
        rooms' = [rooms EXCEPT ![r] = [left EXCEPT !.kicked = @ \cup {t}]]
  BY <1>1 DEF RoomLeaveKick
<1> DEFINE new == [left EXCEPT !.kicked = @ \cup {t}]
<1>3. new \in Room /\ SeatsOf(new) /\ Members(new) = Members(rooms[r]) \ {t}
  BY <1>1, KickedExactly
<1>4. /\ LeaveRoom(S) /\ online \ S \subseteq online' /\ online' \subseteq Players
      /\ UNCHANGED <<idCounter, undefined>>
  BY <1>1 DEF RoomLeaveKick, IInv, TypeOK
<1>5. S \in SUBSET Players /\ \A q \in S : roomNumber[q] \in {r, NoRoom}
  BY <1>1, Seats
<1>6. Members(new) = Members(rooms[r]) \ S
  BY <1>3
<1>7. rooms' = [rooms EXCEPT ![r] = new]
  BY <1>2
<1> HIDE DEF r, S, new
<1>8. Leaving(S)
  <2>1. /\ roomNumber' = [q \in Players |-> IF q \in S THEN NoRoom ELSE roomNumber[q]]
        /\ \A q \in Players : inMatch'[q] => q \notin S /\ InRoom(q)
        /\ inMatch' \in [Players -> BOOLEAN] /\ inLobby' \in [Players -> BOOLEAN]
    BY <1>4, <1>5, SessionsLeave
  <2> QED
    BY <1>1, <1>3, <1>4, <1>5, <1>6, <1>7, <2>1, RoomChanges
<1> QED
  BY <1>8, LeavingPreserves

\* The seats of a room are rearranged among its members.
LEMMA RearrangingPreserves ==
  ASSUME IInv, NEW p \in Players, InRoom(p),
         NEW players \in Seq(Players), NEW observers \in Seq(Players),
         IsInjective(players), IsInjective(observers),
         ToSet(players) \cap ToSet(observers) = {},
         ToSet(players) \cup ToSet(observers) = Members(RoomOf(p)),
         rooms' = [rooms EXCEPT ![roomNumber[p]] =
                     [RoomOf(p) EXCEPT !.players = players, !.observers = observers]],
         UNCHANGED <<online, sessionVars, idCounter, undefined>>
  PROVE  IInv'
<1> DEFINE r == roomNumber[p]
           new == [RoomOf(p) EXCEPT !.players = players, !.observers = observers]
<1>1. r \in DOMAIN rooms /\ RoomOf(p) = rooms[r] /\ rooms[r] \in Room
  BY Seats DEF InRoom, RoomOf
<1>2. /\ new \in Room /\ new.players = players /\ new.observers = observers
      /\ new.ready = RoomOf(p).ready /\ RoomOf(p).ready \subseteq Members(RoomOf(p))
  BY <1>1, Seats DEF Room, SeatsOf
<1>3. /\ UNCHANGED <<online, roomNumber, inLobby, idCounter, undefined>>
      /\ inMatch' \in [Players -> BOOLEAN] /\ \A q \in Players : inMatch'[q] => InRoom(q)
  BY DEF sessionVars, IInv, TypeOK, InMatchInsideRoom
<1>4. rooms' = [rooms EXCEPT ![r] = new]
  OBVIOUS
<1> HIDE DEF new
<1>5. SeatsOf(new) /\ Members(new) = Members(rooms[r])
  BY <1>1, <1>2 DEF SeatsOf, Members
<1> HIDE DEF r
<1> QED
  BY <1>1, <1>2, <1>3, <1>4, <1>5, RoomEdited

\* A handler finds the sender's room with its seats in order.
LEMMA OwnRoom ==
  ASSUME IInv, NEW p \in Players, InRoom(p)
  PROVE  /\ RoomOf(p) \in Room /\ SeatsOf(RoomOf(p))
         /\ RoomOf(p).players \in Seq(Players) /\ RoomOf(p).observers \in Seq(Players)
         /\ IsInjective(RoomOf(p).players) /\ IsInjective(RoomOf(p).observers)
         /\ ToSet(RoomOf(p).players) \cap ToSet(RoomOf(p).observers) = {}
         /\ p \in Members(RoomOf(p)) /\ Members(RoomOf(p)) \subseteq Players
         /\ \A q \in Members(RoomOf(p)) : InRoom(q) /\ roomNumber[q] = roomNumber[p]
<1>1. /\ RoomOf(p) \in Room /\ SeatsOf(RoomOf(p))
      /\ Members(RoomOf(p)) = {q \in Players : roomNumber[q] = roomNumber[p]}
  BY Seats DEF InRoom, RoomOf
<1>2. /\ p \in Members(RoomOf(p)) /\ Members(RoomOf(p)) \subseteq Players
      /\ \A q \in Members(RoomOf(p)) : InRoom(q) /\ roomNumber[q] = roomNumber[p]
  BY <1>1 DEF InRoom
<1> QED
  BY <1>1, <1>2 DEF Room, SeatsOf

\* Room::changeHost.
LEMMA ChangeHostPreserves ==
  ASSUME IInv, NEW p \in Players, NEW i \in Nat, ChangeHost(p, i)
  PROVE  IInv'
<1> DEFINE players == SwapHost(RoomOf(p).players, i)
<1>1. /\ InRoom(p) /\ i \in DOMAIN RoomOf(p).players
      /\ rooms' = [rooms EXCEPT ![roomNumber[p]].players = SwapHost(@, i)]
      /\ UNCHANGED <<online, sessionVars, idCounter, undefined>>
  BY DEF ChangeHost
<1>2. /\ players \in Seq(Players) /\ ToSet(players) = ToSet(RoomOf(p).players)
      /\ IsInjective(players)
  BY <1>1, OwnRoom, SeatsAfterSwap DEF SwapHost
<1>3. rooms' = [rooms EXCEPT ![roomNumber[p]] =
                  [RoomOf(p) EXCEPT !.players = players, !.observers = RoomOf(p).observers]]
  BY <1>1, OwnRoom DEF RoomOf, Room
<1> HIDE DEF players
<1>4. /\ ToSet(players) \cap ToSet(RoomOf(p).observers) = {}
      /\ ToSet(players) \cup ToSet(RoomOf(p).observers) = Members(RoomOf(p))
  BY <1>1, <1>2, OwnRoom DEF Members
<1>5. RoomOf(p).observers \in Seq(Players) /\ IsInjective(RoomOf(p).observers)
  BY <1>1, OwnRoom
<1> QED
  BY <1>1, <1>2, <1>3, <1>4, <1>5, RearrangingPreserves

\* Room::changePlayerTeam from m_players to m_observerPlayers.
LEMMA PlayerToObserverPreserves ==
  ASSUME IInv, NEW p \in Players, PlayerToObserver(p)
  PROVE  IInv'
<1> DEFINE room == RoomOf(p)
           i == IndexIn(room.players, p)
           players == RemoveAt(room.players, i)
           observers == Append(room.observers, p)
<1>1. /\ InRoom(p) /\ p \in ToSet(room.players)
      /\ rooms' = [rooms EXCEPT ![roomNumber[p]] =
                     [room EXCEPT !.players = players, !.observers = observers]]
      /\ UNCHANGED <<online, sessionVars, idCounter, undefined>>
  BY DEF PlayerToObserver
<1>2. i \in DOMAIN room.players /\ room.players[i] = p
  BY <1>1 DEF IndexIn, ToSet
<1> HIDE DEF i
<1>3. /\ room.players \in Seq(Players) /\ room.observers \in Seq(Players)
      /\ IsInjective(room.players) /\ IsInjective(room.observers)
      /\ ToSet(room.players) \cap ToSet(room.observers) = {}
      /\ Members(room) = ToSet(room.players) \cup ToSet(room.observers)
      /\ p \notin ToSet(room.observers)
  BY <1>1, OwnRoom DEF Members
<1> HIDE DEF room
<1>4. /\ players \in Seq(Players) /\ ToSet(players) = ToSet(room.players) \ {p}
      /\ IsInjective(players)
  BY <1>2, <1>3, SeatsAfterRemove
<1>5. /\ observers \in Seq(Players) /\ ToSet(observers) = ToSet(room.observers) \cup {p}
      /\ IsInjective(observers)
  BY <1>3, SeatsAfterAppend
<1> HIDE DEF players, observers
<1>6. /\ ToSet(players) \cup ToSet(observers) = Members(room)
      /\ ToSet(players) \cap ToSet(observers) = {}
  BY <1>1, <1>3, <1>4, <1>5
<1> QED
  BY <1>1, <1>4, <1>5, <1>6, RearrangingPreserves DEF room

\* Room::changePlayerTeam from m_observerPlayers to m_players.
LEMMA ObserverToPlayerPreserves ==
  ASSUME IInv, NEW p \in Players, ObserverToPlayer(p)
  PROVE  IInv'
<1> DEFINE room == RoomOf(p)
           i == IndexIn(room.observers, p)
           players == Append(room.players, p)
           observers == RemoveAt(room.observers, i)
<1>1. /\ InRoom(p) /\ p \in ToSet(room.observers) \ ToSet(room.players)
      /\ rooms' = [rooms EXCEPT ![roomNumber[p]] =
                     [room EXCEPT !.players = players, !.observers = observers]]
      /\ UNCHANGED <<online, sessionVars, idCounter, undefined>>
  BY DEF ObserverToPlayer
<1>2. i \in DOMAIN room.observers /\ room.observers[i] = p
  BY <1>1 DEF IndexIn, ToSet
<1> HIDE DEF i
<1>3. /\ room.players \in Seq(Players) /\ room.observers \in Seq(Players)
      /\ IsInjective(room.players) /\ IsInjective(room.observers)
      /\ ToSet(room.players) \cap ToSet(room.observers) = {}
      /\ Members(room) = ToSet(room.players) \cup ToSet(room.observers)
      /\ p \notin ToSet(room.players)
  BY <1>1, OwnRoom DEF Members
<1> HIDE DEF room
<1>4. /\ observers \in Seq(Players) /\ ToSet(observers) = ToSet(room.observers) \ {p}
      /\ IsInjective(observers)
  BY <1>2, <1>3, SeatsAfterRemove
<1>5. /\ players \in Seq(Players) /\ ToSet(players) = ToSet(room.players) \cup {p}
      /\ IsInjective(players)
  BY <1>3, SeatsAfterAppend
<1> HIDE DEF players, observers
<1>6. /\ ToSet(players) \cup ToSet(observers) = Members(room)
      /\ ToSet(players) \cap ToSet(observers) = {}
  BY <1>1, <1>3, <1>4, <1>5
<1> QED
  BY <1>1, <1>4, <1>5, <1>6, RearrangingPreserves DEF room

\* Other fields of the room than its two vectors change, and who is in a match.
LEMMA SettingPreserves ==
  ASSUME IInv, NEW p \in Players, InRoom(p),
         NEW new \in Room, new.players = RoomOf(p).players, new.observers = RoomOf(p).observers,
         new.ready \subseteq Members(RoomOf(p)),
         rooms' = [rooms EXCEPT ![roomNumber[p]] = new],
         inMatch' \in [Players -> BOOLEAN],
         \A q \in Players : inMatch'[q] => inMatch[q] \/ q \in Members(RoomOf(p)),
         UNCHANGED <<online, roomNumber, inLobby, idCounter, undefined>>
  PROVE  IInv'
<1> DEFINE r == roomNumber[p]
<1>1. r \in DOMAIN rooms /\ RoomOf(p) = rooms[r] /\ SeatsOf(rooms[r])
  BY Seats DEF InRoom, RoomOf
<1>2. SeatsOf(new) /\ Members(new) = Members(rooms[r])
  BY <1>1 DEF SeatsOf, Members
<1>3. \A q \in Players : inMatch'[q] => InRoom(q)
  BY OwnRoom DEF IInv, InMatchInsideRoom
<1>4. rooms' = [rooms EXCEPT ![r] = new]
  OBVIOUS
<1> HIDE DEF r
<1> QED
  BY <1>1, <1>2, <1>3, <1>4, RoomEdited

\* handlePlayerState and the settings of the room.
LEMMA SettingsPreserve ==
  ASSUME IInv, NEW p \in Players,
         \/ \E isReady \in BOOLEAN : PlayerState(p, isReady)
         \/ \E n \in TeamSizes : SetPlayersPerTeam(p, n)
         \/ SwitchObserverMode(p)
  PROVE  IInv'
<1> DEFINE room == RoomOf(p)
<1>1. /\ InRoom(p)
      /\ UNCHANGED <<online, roomNumber, inLobby, inMatch, idCounter, undefined>>
  BY DEF PlayerState, SetPlayersPerTeam, SwitchObserverMode, sessionVars
<1>2. /\ inMatch' \in [Players -> BOOLEAN]
      /\ \A q \in Players : inMatch'[q] => inMatch[q] \/ q \in Members(room)
  BY <1>1 DEF IInv, TypeOK
<1>3. \E new \in Room : /\ new.players = room.players /\ new.observers = room.observers
                        /\ new.ready \subseteq Members(room)
                        /\ rooms' = [rooms EXCEPT ![roomNumber[p]] = new]
  <2>1. /\ room \in Room /\ p \in Members(room) /\ Members(room) \subseteq Players
        /\ room.ready \subseteq Members(room)
    BY <1>1, OwnRoom DEF SeatsOf
  <2>2. ASSUME NEW isReady \in BOOLEAN, PlayerState(p, isReady)
        PROVE  <1>3!:
    <3> DEFINE ready == IF isReady THEN room.ready \cup ({p} \cap Members(room))
                        ELSE room.ready \ {p}
               new == [room EXCEPT !.ready = ready]
    <3>1. rooms' = [rooms EXCEPT ![roomNumber[p]] = new]
      BY <2>2, Zenon DEF PlayerState, RoomOf
    <3>2. ready \in SUBSET Players /\ ready \subseteq Members(room)
      BY <2>1 DEF Room
    <3> HIDE DEF ready, room
    <3>3. /\ new \in Room /\ new.players = room.players /\ new.observers = room.observers
          /\ new.ready = ready
      BY <2>1, <3>2 DEF Room
    <3> QED
      BY <3>1, <3>2, <3>3 DEF room
  <2>3. ASSUME NEW n \in TeamSizes, SetPlayersPerTeam(p, n)
        PROVE  <1>3!:
    <3> DEFINE new == [room EXCEPT !.perTeam = n]
    <3>1. rooms' = [rooms EXCEPT ![roomNumber[p]] = new]
      BY <2>3 DEF SetPlayersPerTeam, RoomOf
    <3>2. /\ new \in Room /\ new.players = room.players /\ new.observers = room.observers
          /\ new.ready \subseteq Members(room)
      BY <2>1 DEF Room
    <3> QED
      BY <3>1, <3>2
  <2>4. ASSUME SwitchObserverMode(p)
        PROVE  <1>3!:
    <3> DEFINE new == [room EXCEPT !.obsOn = ~@]
    <3>1. rooms' = [rooms EXCEPT ![roomNumber[p]] = new]
      BY <2>4 DEF SwitchObserverMode, RoomOf
    <3>2. /\ new \in Room /\ new.players = room.players /\ new.observers = room.observers
          /\ new.ready \subseteq Members(room)
      BY <2>1 DEF Room
    <3> QED
      BY <3>1, <3>2
  <2> QED
    BY <2>2, <2>3, <2>4
<1> QED
  BY <1>1, <1>2, <1>3, SettingPreserves

\* handleRoomStart: those who enter the match are members of the room.
LEMMA RoomStartPreserves ==
  ASSUME IInv, NEW p \in Players, RoomStart(p)
  PROVE  IInv'
<1> DEFINE room == RoomOf(p)
           ready == IF room.started THEN room.ready \ {p} ELSE {}
           new == [room EXCEPT !.started = TRUE, !.ready = ready]
           entering == {p} \cup (IF room.started THEN {} ELSE room.ready)
<1>1. /\ InRoom(p) /\ rooms' = [rooms EXCEPT ![roomNumber[p]] = new]
      /\ inMatch' = [q \in Players |-> q \in entering \/ inMatch[q]]
      /\ UNCHANGED <<online, roomNumber, inLobby, idCounter, undefined>>
  BY DEF RoomStart
<1>2. /\ room \in Room /\ p \in Members(room) /\ room.ready \subseteq Members(room)
      /\ Members(room) \subseteq Players
  BY <1>1, OwnRoom DEF SeatsOf
<1>3. ready \in SUBSET Players /\ ready \subseteq Members(room) /\ entering \subseteq Members(room)
  BY <1>2
<1>4. /\ inMatch' \in [Players -> BOOLEAN]
      /\ \A q \in Players : inMatch'[q] => inMatch[q] \/ q \in Members(room)
  BY <1>1, <1>3 DEF IInv, TypeOK
<1> HIDE DEF ready, room
<1>5. new \in Room /\ new.players = room.players /\ new.observers = room.observers
      /\ new.ready = ready
  BY <1>2, <1>3 DEF Room
<1> HIDE DEF new
<1> QED
  BY <1>1, <1>3, <1>4, <1>5, SettingPreserves DEF room

\* handleMatchEnding with Room::endMatch.
LEMMA MatchEndingPreserves ==
  ASSUME IInv, NEW p \in Players, MatchEnding(p)
  PROVE  IInv'
<1> DEFINE room == RoomOf(p)
           ending == {q \in Members(room) : inMatch[q]}
           ready == room.ready \ ending
           new == [room EXCEPT !.started = FALSE, !.ready = ready]
<1>1. /\ InRoom(p) /\ rooms' = [rooms EXCEPT ![roomNumber[p]] = new]
      /\ inMatch' = [q \in Players |-> q \notin ending /\ inMatch[q]]
      /\ UNCHANGED <<online, roomNumber, inLobby, idCounter, undefined>>
  BY DEF MatchEnding
<1>2. room \in Room /\ ready \in SUBSET Players /\ ready \subseteq Members(room)
  BY <1>1, OwnRoom DEF Room, SeatsOf
<1> HIDE DEF ready, room
<1>3. /\ new \in Room /\ new.players = room.players /\ new.observers = room.observers
      /\ new.ready = ready
  BY <1>2 DEF Room
<1> HIDE DEF new
<1>4. /\ inMatch' \in [Players -> BOOLEAN]
      /\ \A q \in Players : inMatch'[q] => inMatch[q]
  BY <1>1 DEF IInv, TypeOK
<1> QED
  BY <1>1, <1>2, <1>3, <1>4, SettingPreserves DEF room

\* handleMatchLeave, of a host and of another player.
LEMMA MatchLeavePreserves ==
  ASSUME IInv, NEW p \in Players, MatchLeave(p)
  PROVE  IInv'
<1>1. InRoom(p) /\ HasHost(RoomOf(p)) /\ UNCHANGED <<online, idCounter, undefined>>
  BY DEF MatchLeave
<1>2. CASE IsHost(RoomOf(p), p) /\ RemoveHostFromMatch(roomNumber[p])
  <2>1. online \ {p} \subseteq online' /\ online' \subseteq Players
    BY <1>1 DEF IInv, TypeOK
  <2> QED
    BY <1>1, <1>2, <2>1, RemoveHostFromMatchPreserves
<1>3. CASE /\ inMatch' = [inMatch EXCEPT ![p] = FALSE]
           /\ rooms' = [rooms EXCEPT ![roomNumber[p]].ready = @ \ {p}]
           /\ UNCHANGED <<roomNumber, inLobby>>
  <2> DEFINE room == RoomOf(p)
             ready == room.ready \ {p}
             new == [room EXCEPT !.ready = ready]
  <2>1. room \in Room /\ ready \in SUBSET Players /\ ready \subseteq Members(room)
    BY <1>1, OwnRoom DEF Room, SeatsOf
  <2>2. rooms' = [rooms EXCEPT ![roomNumber[p]] = new]
    BY <1>3 DEF RoomOf
  <2> HIDE DEF ready, room
  <2>3. /\ new \in Room /\ new.players = room.players /\ new.observers = room.observers
        /\ new.ready = ready
    BY <2>1 DEF Room
  <2> HIDE DEF new
  <2>4. /\ inMatch' \in [Players -> BOOLEAN]
        /\ \A q \in Players : inMatch'[q] => inMatch[q]
    BY <1>3 DEF IInv, TypeOK
  <2> QED
    BY <1>1, <1>3, <2>1, <2>2, <2>3, <2>4, SettingPreserves DEF room
<1> QED
  BY <1>2, <1>3 DEF MatchLeave

\* /kick: whichever player the stale reference denotes, only the target leaves the room.
LEMMA KickPlayerPreserves ==
  ASSUME IInv, NEW p \in Players, NEW t \in Players, KickPlayer(p, t)
  PROVE  IInv'
<1> DEFINE r == roomNumber[p]
           room == RoomOf(p)
<1>1. /\ InRoom(p) /\ t \in Members(room)
      /\ UNCHANGED <<online, idCounter, undefined>>
  BY DEF KickPlayer
<1>2. r \in DOMAIN rooms /\ room = rooms[r] /\ room \in Room /\ SeatsOf(room)
  BY <1>1, Seats DEF InRoom, RoomOf
<1>3. roomNumber[t] = r
  BY <1>1, OwnRoom
<1>4. PICK left \in PlayerRemoved(room, t) :
        /\ rooms' = [rooms EXCEPT ![r] =
                       [left EXCEPT !.kicked = @ \cup {StaleSlot(room, left, t)}]]
        /\ inLobby' = [q \in Players |-> q \in {t, StaleSlot(room, left, t)} \/ inLobby[q]]
        /\ roomNumber' = [roomNumber EXCEPT ![t] = NoRoom]
        /\ inMatch' = [inMatch EXCEPT ![t] = FALSE]
  BY DEF KickPlayer
<1> DEFINE slot == StaleSlot(room, left, t)
           new == [left EXCEPT !.kicked = @ \cup {slot}]
<1> HIDE DEF room
<1>5. left \in Room
  BY <1>2, <1>4, RemovedExactly
<1>6. slot \in Players
  <2>1. ASSUME NEW before \in Seq(Players), NEW after \in Seq(Players), t \in ToSet(before)
        PROVE  SlotAfter(before, after, t) \in Players
    <3>1. IndexIn(before, t) \in DOMAIN before
      BY <2>1 DEF IndexIn, ToSet
    <3> QED
      BY <3>1 DEF SlotAfter
  <2>2. /\ room.players \in Seq(Players) /\ room.observers \in Seq(Players)
        /\ left.players \in Seq(Players) /\ left.observers \in Seq(Players)
    BY <1>2, <1>5 DEF Room
  <2>3. t \in ToSet(room.players) \/ t \in ToSet(room.observers)
    BY <1>1 DEF Members
  <2> QED
    BY <2>1, <2>2, <2>3 DEF StaleSlot
<1>7. new \in Room /\ SeatsOf(new) /\ Members(new) = Members(rooms[r]) \ {t}
  <2> HIDE DEF slot
  <2> QED
    BY <1>2, <1>4, <1>6, KickedExactly
<1>8. rooms' = [rooms EXCEPT ![r] = new]
  BY <1>4
<1> HIDE DEF new
<1>9. /\ roomNumber' = [q \in Players |-> IF q \in {t} THEN NoRoom ELSE roomNumber[q]]
      /\ inMatch' \in [Players -> BOOLEAN] /\ inLobby' \in [Players -> BOOLEAN]
      /\ \A q \in Players : inMatch'[q] => q \notin {t} /\ InRoom(q)
      /\ online \ {t} \subseteq online' /\ online' \subseteq Players
  BY <1>1, <1>4 DEF IInv, TypeOK, InMatchInsideRoom
<1> HIDE DEF r
<1>10. Leaving({t})
  BY <1>1, <1>2, <1>3, <1>7, <1>8, <1>9, RoomChanges
<1> QED
  BY <1>10, LeavingPreserves

\* /breakroom.
LEMMA BreakroomPreserves ==
  ASSUME IInv, NEW p \in Players, Breakroom(p)
  PROVE  IInv'
<1>1. /\ roomNumber[p] \in DOMAIN rooms /\ CloseRoom(roomNumber[p])
      /\ UNCHANGED <<online, idCounter, undefined>>
  BY DEF Breakroom, InRoom
<1>2. online' \subseteq Players
  BY <1>1 DEF IInv, TypeOK
<1>3. Leaving(Members(rooms[roomNumber[p]]))
  BY <1>1, <1>2, ClosedRoomLeaves
<1> QED
  BY <1>3, LeavingPreserves

----------------------------------------------------------------------------
(* Theorems *)

\* The server starts without sessions and rooms.
LEMMA InitSatisfies == Init => IInv
<1> SUFFICES ASSUME Init PROVE IInv
  OBVIOUS
<1>1. DOMAIN rooms = {} /\ rooms \in [DOMAIN rooms -> Room]
  BY DEF Init
<1>2. TypeOK /\ NumbersInOrder
  <2>1. NoRoom \in 0 .. NumberSpace - 1
    BY ConstantsAssumption DEF NoRoom
  <2> QED
    BY <1>1, <2>1 DEF Init, TypeOK, NumbersInOrder, NoRoom
<1> QED
  BY <1>1, <1>2 DEF Init, IInv, MembersAgree, SeatedOnce, ReadyInside, MembersOnline,
     InMatchInsideRoom, InRoom

\* Every step of the server keeps the invariant.
LEMMA NextPreserves ==
  ASSUME NoWrap, IInv, [Next]_vars
  PROVE  IInv'
<1>1. CASE UNCHANGED vars
  BY <1>1 DEF vars, IInv, TypeOK, NumbersInOrder, MembersAgree, Members, SeatedOnce,
     ReadyInside, MembersOnline, InMatchInsideRoom, InRoom
<1>2. ASSUME NEW p \in Players, SessionStep(p)
      PROVE  IInv'
  BY <1>2, ConnectPreserves, DisconnectPreserves, UndefinedReadPreserves
     DEF SessionStep, DisconnectUndefined
<1>3. ASSUME NEW p \in Players, InLobbyScreen(p), LobbyStep(p)
      PROVE  IInv'
  BY <1>3, RoomCreationPreserves, RoomJoinPreserves, UndefinedReadPreserves
     DEF LobbyStep, RoomInfoUndefined
<1>4. ASSUME NEW p \in Players, WaitingRoomStep(p)
      PROVE  IInv'
  BY <1>4, RoomLeavePreserves, PlayerToObserverPreserves, ObserverToPlayerPreserves,
     SettingsPreserve DEF WaitingRoomStep
<1>5. ASSUME NEW p \in Players, HostStep(p)
      PROVE  IInv'
  <2>1. \A i \in 1 .. Cardinality(Players) : i \in Nat
    OBVIOUS
  <2> QED
    BY <1>5, <2>1, RoomLeaveKickPreserves, ChangeHostPreserves, SettingsPreserve DEF HostStep
<1>6. ASSUME NEW p \in Players, RoomStart(p) \/ MatchStep(p) \/ MatchEnding(p)
      PROVE  IInv'
  BY <1>6, RoomStartPreserves, MatchLeavePreserves, MatchEndingPreserves,
     UndefinedReadPreserves DEF MatchStep, MatchUndefined
<1>7. ASSUME NEW p \in Players, ModeratorStep(p)
      PROVE  IInv'
  BY <1>7, BreakroomPreserves, KickPlayerPreserves DEF ModeratorStep
<1> QED
  BY <1>1, <1>2, <1>3, <1>4, <1>5, <1>6, <1>7 DEF Next

\* Sending requests only from the screen that offers them restricts the steps.
LEMMA PlayNextIsNext == PlayNext => Next
BY DEF PlayNext, Next

\* Whatever clients send, the server keeps the invariant.
THEOREM InvariantHolds ==
  ASSUME NoWrap
  PROVE  Spec => []IInv
<1>1. IInv /\ [Next]_vars => IInv'
  BY NextPreserves
<1> QED
  BY <1>1, InitSatisfies, PTL DEF Spec

\* So it does when clients behave.
THEOREM InvariantHoldsInPlay ==
  ASSUME NoWrap
  PROVE  PlaySpec => []IInv
<1>1. IInv /\ [PlayNext]_vars => IInv'
  BY NextPreserves, PlayNextIsNext
<1> QED
  BY <1>1, InitSatisfies, PTL DEF PlaySpec

\* Room numbers, vectors, flags and the counter keep their types: no number is ever
\* outside 16 bits, and the slot read by /kick after the erasure is a player.
THEOREM TypeCorrect ==
  ASSUME NoWrap
  PROVE  Spec => []TypeOK
<1>1. IInv => TypeOK
  BY DEF IInv
<1> QED
  BY <1>1, InvariantHolds, PTL

\* The room a session points to and the vectors of the rooms agree.
THEOREM SessionsAndRoomsAgree ==
  ASSUME NoWrap
  PROVE  Spec => []MembersAgree
<1>1. IInv => MembersAgree
  BY DEF IInv
<1> QED
  BY <1>1, InvariantHolds, PTL

\* Nobody holds two seats.
THEOREM NobodySeatedTwice ==
  ASSUME NoWrap
  PROVE  Spec => []SeatedOnce
<1>1. IInv => SeatedOnce
  BY DEF IInv
<1> QED
  BY <1>1, InvariantHolds, PTL

\* The session pointers that rooms hold are those of live sessions.
THEOREM NoDanglingSessions ==
  ASSUME NoWrap
  PROVE  Spec => []MembersOnline
<1>1. IInv => MembersOnline
  BY DEF IInv
<1> QED
  BY <1>1, InvariantHolds, PTL

\* Nobody is in a match outside a room.
THEOREM MatchesAreInRooms ==
  ASSUME NoWrap
  PROVE  Spec => []InMatchInsideRoom
<1>1. IInv => InMatchInsideRoom
  BY DEF IInv
<1> QED
  BY <1>1, InvariantHolds, PTL

\* Sessions and rooms stay consistent, for any number of players, rooms and seats.
THEOREM RoomsStayConsistent ==
  ASSUME NoWrap
  PROVE  Spec => []RoomsConsistent
<1>1. IInv => RoomsConsistent
  BY DEF IInv, RoomsConsistent
<1> QED
  BY <1>1, InvariantHolds, PTL

----------------------------------------------------------------------------
(* The first seat *)

\* An erase behind the host leaves the host where it is.
LEMMA FirstStays ==
  ASSUME NEW S, NEW s \in Seq(S), NEW i \in DOMAIN s, i # 1
  PROVE  RemoveAt(s, i) # <<>> /\ RemoveAt(s, i)[1] = s[1]
<1>1. /\ RemoveAt(s, i) \in Seq(S) /\ Len(RemoveAt(s, i)) = Len(s) - 1
      /\ \A j \in 1 .. Len(s) - 1 : RemoveAt(s, i)[j] = IF j < i THEN s[j] ELSE s[j + 1]
  BY RemoveAtElements
<1>2. Len(s) >= 2 /\ i > 1 /\ Len(s) \in Nat
  OBVIOUS
<1>3. RemoveAt(s, i)[1] = s[1]
  BY <1>1, <1>2
<1>4. RemoveAt(s, i) # <<>>
  <2> SUFFICES ASSUME RemoveAt(s, i) = <<>> PROVE FALSE
    OBVIOUS
  <2> QED
    BY <1>1, <1>2
<1> QED
  BY <1>3, <1>4

\* After the swap and the erase the successor sits first, and those behind are the others.
LEMMA SuccessorSitsFirst ==
  ASSUME NEW room \in Room, NEW i \in Successors(room)
  PROVE  LET left == HostReplacedBy(room, i) IN
         /\ HasHost(left) /\ Host(left) = room.players[i]
         /\ left.kicked = room.kicked /\ left.observers = room.observers
         /\ left.started = room.started /\ left.perTeam = room.perTeam
         /\ Len(left.players) = Len(room.players) - 1
<1> DEFINE s == room.players
           swapped == SwapHost(s, i)
<1>1. s \in Seq(Players) /\ i \in DOMAIN s /\ 1 \in DOMAIN s /\ i # 1
  BY DEF Room, Successors
<1> HIDE DEF s
<1>2. swapped \in Seq(Players) /\ DOMAIN swapped = DOMAIN s /\ Len(swapped) = Len(s)
  BY <1>1 DEF SwapHost
<1>3. swapped[1] = s[i]
  BY <1>1 DEF SwapHost
<1> HIDE DEF swapped
<1>4. RemoveAt(swapped, i) # <<>> /\ RemoveAt(swapped, i)[1] = s[i]
  BY <1>1, <1>2, <1>3, FirstStays
<1>5. Len(RemoveAt(swapped, i)) = Len(s) - 1
  <2>1. i \in DOMAIN swapped
    BY <1>1, <1>2
  <2>2. Len(RemoveAt(swapped, i)) = Len(swapped) - 1
    BY <1>2, <2>1, RemoveAtElements
  <2> QED
    BY <1>2, <2>2
<1>6. HostReplacedBy(room, i) =
        [room EXCEPT !.players = RemoveAt(swapped, i), !.ready = @ \ {Host(room)}]
  BY DEF HostReplacedBy, swapped, s
<1>7. /\ HostReplacedBy(room, i).players = RemoveAt(swapped, i)
      /\ HostReplacedBy(room, i).kicked = room.kicked
      /\ HostReplacedBy(room, i).observers = room.observers
      /\ HostReplacedBy(room, i).started = room.started
      /\ HostReplacedBy(room, i).perTeam = room.perTeam
  BY <1>6 DEF Room
<1> QED
  BY <1>4, <1>5, <1>7 DEF HasHost, Host, s

\* What erasing p, who is no host with successors, leaves of a room.
LEMMA ErasedRoom ==
  ASSUME NEW room \in Room, NEW p \in Players
  PROVE  /\ p \in ToSet(room.players) =>
              LET left == PlayerErased(room, p) IN
              /\ left.kicked = room.kicked /\ left.observers = room.observers
              /\ left.started = room.started /\ left.perTeam = room.perTeam
              /\ Len(left.players) = Len(room.players) - 1
              /\ Host(room) # p => HasHost(left) /\ Host(left) = Host(room)
         /\ p \in ToSet(room.observers) =>
              LET left == ObserverErased(room, p) IN
              /\ left.kicked = room.kicked /\ left.players = room.players
              /\ left.started = room.started /\ left.perTeam = room.perTeam
              /\ Len(left.observers) = Len(room.observers) - 1
<1>1. ASSUME NEW s \in Seq(Players), p \in ToSet(s)
      PROVE  LET i == IndexIn(s, p) IN
             /\ i \in DOMAIN s /\ s[i] = p
             /\ Len(RemoveAt(s, i)) = Len(s) - 1
             /\ s[1] # p => RemoveAt(s, i) # <<>> /\ RemoveAt(s, i)[1] = s[1]
  <2>1. IndexIn(s, p) \in DOMAIN s /\ s[IndexIn(s, p)] = p
    BY <1>1 DEF IndexIn, ToSet
  <2> DEFINE i == IndexIn(s, p)
  <2> HIDE DEF i
  <2>2. i \in DOMAIN s /\ s[i] = p
    BY <2>1 DEF i
  <2>3. Len(RemoveAt(s, i)) = Len(s) - 1
    BY <2>2, RemoveAtElements
  <2>4. s[1] # p => RemoveAt(s, i) # <<>> /\ RemoveAt(s, i)[1] = s[1]
    BY <2>2, FirstStays
  <2> QED
    BY <2>2, <2>3, <2>4 DEF i
<1>2. room.players \in Seq(Players) /\ room.observers \in Seq(Players)
  BY DEF Room
<1>3. ASSUME p \in ToSet(room.players)
      PROVE  LET left == PlayerErased(room, p) IN
             /\ left.kicked = room.kicked /\ left.observers = room.observers
             /\ left.started = room.started /\ left.perTeam = room.perTeam
             /\ Len(left.players) = Len(room.players) - 1
             /\ Host(room) # p => HasHost(left) /\ Host(left) = Host(room)
  <2> DEFINE t == RemoveAt(room.players, IndexIn(room.players, p))
  <2>1. /\ Len(t) = Len(room.players) - 1
        /\ room.players[1] # p => t # <<>> /\ t[1] = room.players[1]
    BY <1>1, <1>2, <1>3
  <2>2. PlayerErased(room, p) = [room EXCEPT !.players = t, !.ready = @ \ {p}]
    BY DEF PlayerErased
  <2> HIDE DEF t
  <2>3. /\ PlayerErased(room, p).players = t
        /\ PlayerErased(room, p).kicked = room.kicked
        /\ PlayerErased(room, p).observers = room.observers
        /\ PlayerErased(room, p).started = room.started
        /\ PlayerErased(room, p).perTeam = room.perTeam
    BY <2>2 DEF Room
  <2> QED
    BY <2>1, <2>3 DEF Host, HasHost
<1>4. ASSUME p \in ToSet(room.observers)
      PROVE  LET left == ObserverErased(room, p) IN
             /\ left.kicked = room.kicked /\ left.players = room.players
             /\ left.started = room.started /\ left.perTeam = room.perTeam
             /\ Len(left.observers) = Len(room.observers) - 1
  <2> DEFINE t == RemoveAt(room.observers, IndexIn(room.observers, p))
  <2>1. Len(t) = Len(room.observers) - 1
    BY <1>1, <1>2, <1>4
  <2>2. ObserverErased(room, p) = [room EXCEPT !.observers = t, !.ready = @ \ {p}]
    BY DEF ObserverErased
  <2> HIDE DEF t
  <2>3. /\ ObserverErased(room, p).observers = t
        /\ ObserverErased(room, p).kicked = room.kicked
        /\ ObserverErased(room, p).players = room.players
        /\ ObserverErased(room, p).started = room.started
        /\ ObserverErased(room, p).perTeam = room.perTeam
    BY <2>2 DEF Room
  <2> QED
    BY <2>1, <2>3
<1> QED
  BY <1>3, <1>4

\* What Room::removePlayer leaves: the host only changes if it is the one who is removed.
LEMMA RemovedRoom ==
  ASSUME NEW room \in Room, NEW p \in Players, NEW left \in PlayerRemoved(room, p)
  PROVE  /\ left.kicked = room.kicked
         /\ left.started = room.started /\ left.perTeam = room.perTeam
         /\ Len(left.players) <= Len(room.players)
         /\ Len(left.observers) <= Len(room.observers)
         /\ HasHost(room) /\ Host(room) # p => HasHost(left) /\ Host(left) = Host(room)
<1>1. Len(room.players) \in Nat /\ Len(room.observers) \in Nat
  BY DEF Room
<1>2. CASE p \in ToSet(room.players) /\ IsHost(room, p) /\ Successors(room) # {}
  <2>1. PICK i \in Successors(room) : left = HostReplacedBy(room, i)
    BY <1>2 DEF PlayerRemoved
  <2> QED
    BY <1>1, <1>2, <2>1, SuccessorSitsFirst DEF IsHost
<1>3. CASE p \in ToSet(room.players) /\ ~(IsHost(room, p) /\ Successors(room) # {})
  <2>1. left = PlayerErased(room, p)
    BY <1>3 DEF PlayerRemoved
  <2> QED
    BY <1>1, <1>3, <2>1, ErasedRoom
<1>4. CASE p \notin ToSet(room.players) /\ p \in ToSet(room.observers)
  <2>1. left = ObserverErased(room, p)
    BY <1>4 DEF PlayerRemoved
  <2> QED
    BY <1>1, <1>4, <2>1, ErasedRoom DEF HasHost, Host
<1>5. CASE p \notin Members(room)
  BY <1>1, <1>5 DEF PlayerRemoved, Members
<1> QED
  BY <1>2, <1>3, <1>4, <1>5 DEF Members

----------------------------------------------------------------------------
(* How full rooms become *)

\* No room has more observers than there are seats for them.
ObserversSeated ==
  \A r \in DOMAIN rooms : Len(rooms[r].observers) <= MaxObservers

\* A room takes another player only on a free seat.
GrowsOnlyToSeats(before, after) ==
  /\ Len(after.players) > Len(before.players)
       => \/ Len(after.players) <= 2 * before.perTeam
          \/ before.perTeam = 0 /\ Len(after.players) = 1
  /\ Len(after.observers) <= Len(before.observers) \/ Len(after.observers) <= MaxObservers

\* Every room that is there before and after is such a room, and a new one has no observers.
RoomsGrowOnlyToSeats ==
  /\ \A r \in DOMAIN rooms \cap DOMAIN rooms' : GrowsOnlyToSeats(rooms[r], rooms'[r])
  /\ \A r \in DOMAIN rooms' \ DOMAIN rooms : rooms'[r].observers = <<>>

\* Nothing grows in a room that loses members or keeps them.
LEMMA SmallerGrowsNot ==
  ASSUME NEW before \in Room, NEW after \in Room,
         Len(after.players) <= Len(before.players), Len(after.observers) <= Len(before.observers)
  PROVE  GrowsOnlyToSeats(before, after)
<1>1. Len(before.players) \in Nat /\ Len(after.players) \in Nat
  BY DEF Room
<1> QED
  BY <1>1 DEF GrowsOnlyToSeats

\* Only one room changes.
LEMMA OneRoomGrows ==
  ASSUME IInv, NEW r \in DOMAIN rooms, NEW new \in Room, rooms' = [rooms EXCEPT ![r] = new],
         GrowsOnlyToSeats(rooms[r], new)
  PROVE  RoomsGrowOnlyToSeats
<1> SUFFICES ASSUME NEW x \in DOMAIN rooms \cap DOMAIN rooms'
             PROVE  GrowsOnlyToSeats(rooms[x], rooms'[x])
  BY DEF RoomsGrowOnlyToSeats
<1>1. CASE x = r
  BY <1>1
<1>2. CASE x # r
  <2>1. rooms'[x] = rooms[x] /\ rooms[x] \in Room
    BY <1>2, Seats
  <2>2. Len(rooms[x].players) \in Nat /\ Len(rooms[x].observers) \in Nat
    BY <2>1 DEF Room
  <2> QED
    BY <2>1, <2>2, SmallerGrowsNot
<1> QED
  BY <1>1, <1>2

\* Rooms are closed, and none changes.
LEMMA NoRoomGrows ==
  ASSUME IInv, \A x \in DOMAIN rooms \cap DOMAIN rooms' : rooms'[x] = rooms[x],
         \A x \in DOMAIN rooms' \ DOMAIN rooms : rooms'[x].observers = <<>>
  PROVE  RoomsGrowOnlyToSeats
<1> SUFFICES ASSUME NEW x \in DOMAIN rooms \cap DOMAIN rooms'
             PROVE  GrowsOnlyToSeats(rooms[x], rooms'[x])
  BY DEF RoomsGrowOnlyToSeats
<1>1. rooms'[x] = rooms[x] /\ rooms[x] \in Room
  BY Seats
<1>2. Len(rooms[x].players) \in Nat /\ Len(rooms[x].observers) \in Nat
  BY <1>1 DEF Room
<1> QED
  BY <1>1, <1>2, SmallerGrowsNot

LEMMA ClosingGrowsNot ==
  ASSUME IInv, NEW r, CloseRoom(r)
  PROVE  RoomsGrowOnlyToSeats
BY NoRoomGrows DEF CloseRoom

\* Room::removePlayer
LEMMA RemovalGrowsNot ==
  ASSUME IInv, NEW r \in DOMAIN rooms, NEW p \in Players,
         NEW left \in PlayerRemoved(rooms[r], p), NEW new \in Room,
         new.players = left.players, new.observers = left.observers,
         rooms' = [rooms EXCEPT ![r] = new]
  PROVE  RoomsGrowOnlyToSeats
<1>1. rooms[r] \in Room
  BY Seats
<1>2. GrowsOnlyToSeats(rooms[r], new)
  BY <1>1, RemovedRoom, SmallerGrowsNot
<1> QED
  BY <1>2, OneRoomGrows

LEMMA RemovePlayerGrowsNot ==
  ASSUME IInv, NEW p \in Players, InRoom(p), NEW S, RemovePlayer(roomNumber[p], p, S)
  PROVE  RoomsGrowOnlyToSeats
<1> DEFINE r == roomNumber[p]
<1>1. r \in DOMAIN rooms /\ rooms[r] \in Room /\ SeatsOf(rooms[r])
  BY Seats DEF InRoom
<1>2. PICK left \in PlayerRemoved(rooms[r], p) :
        CloseRoom(r) \/ rooms' = [rooms EXCEPT ![r] = left]
  BY DEF RemovePlayer
<1> HIDE DEF r
<1>3. left \in Room
  BY <1>1, <1>2, RemovedExactly
<1> QED
  BY <1>1, <1>2, <1>3, ClosingGrowsNot, RemovalGrowsNot

\* Room::removeHostFromMatch
LEMMA RemoveHostGrowsNot ==
  ASSUME IInv, NEW r \in DOMAIN rooms, RemoveHostFromMatch(r)
  PROVE  RoomsGrowOnlyToSeats
<1> DEFINE room == rooms[r]
<1>1. room \in Room /\ SeatsOf(room)
  BY Seats
<1>2. SuccessorsInMatch(room) \subseteq Successors(room)
  BY DEF SuccessorsInMatch
<1>3. ASSUME NEW i \in Successors(room), NEW ongoing \in BOOLEAN,
             rooms' = [rooms EXCEPT ![r] =
                         [HostReplacedBy(room, i) EXCEPT !.started = room.started /\ ongoing]]
      PROVE  RoomsGrowOnlyToSeats
  <2> DEFINE left == HostReplacedBy(room, i)
             new == [left EXCEPT !.started = room.started /\ ongoing]
  <2> HIDE DEF room, left
  <2>1. left \in Room /\ Len(left.players) = Len(room.players) - 1 /\ left.observers = room.observers
    BY <1>1, HostReplaced, SuccessorSitsFirst DEF left
  <2>2. room.started \in BOOLEAN /\ Len(room.players) \in Nat /\ Len(room.observers) \in Nat
    BY <1>1 DEF Room
  <2>3. new \in Room /\ new.players = left.players /\ new.observers = left.observers
    BY <2>1, <2>2 DEF Room
  <2>4. rooms' = [rooms EXCEPT ![r] = new]
    BY <1>3 DEF left
  <2> HIDE DEF new
  <2>5. GrowsOnlyToSeats(room, new)
    BY <1>1, <2>1, <2>2, <2>3, SmallerGrowsNot
  <2> QED
    BY <2>3, <2>4, <2>5, OneRoomGrows DEF room
<1>4. ASSUME CloseRoom(r)
      PROVE  RoomsGrowOnlyToSeats
  BY <1>4, ClosingGrowsNot
<1> QED
  BY <1>2, <1>3, <1>4, Zenon DEF RemoveHostFromMatch

\* An edit of the room of p that moves nobody, or only among its players.
LEMMA EditGrowsNot ==
  ASSUME IInv, NEW p \in Players, InRoom(p), NEW new \in Room,
         rooms' = [rooms EXCEPT ![roomNumber[p]] = new],
         Len(new.players) = Len(RoomOf(p).players), new.observers = RoomOf(p).observers
  PROVE  RoomsGrowOnlyToSeats
<1> DEFINE r == roomNumber[p]
<1>1. r \in DOMAIN rooms /\ RoomOf(p) = rooms[r] /\ rooms[r] \in Room
  BY Seats DEF InRoom, RoomOf
<1>2. Len(rooms[r].players) \in Nat /\ Len(rooms[r].observers) \in Nat
  BY <1>1 DEF Room
<1> HIDE DEF r
<1>3. GrowsOnlyToSeats(rooms[r], new)
  BY <1>1, <1>2, SmallerGrowsNot
<1> QED
  BY <1>1, <1>3, OneRoomGrows DEF r

LEMMA DisconnectGrowsNot ==
  ASSUME IInv, NEW p \in Players, Disconnect(p)
  PROVE  RoomsGrowOnlyToSeats
<1>1. CASE UNCHANGED rooms
  BY <1>1, NoRoomGrows
<1>2. CASE InRoom(p) /\ RemoveHostFromMatch(roomNumber[p])
  BY <1>2, RemoveHostGrowsNot DEF InRoom
<1>3. CASE InRoom(p) /\ \E left \in PlayerRemoved(RoomOf(p), p) :
                          rooms' = [rooms EXCEPT ![roomNumber[p]] = left]
  <2> DEFINE r == roomNumber[p]
  <2>1. r \in DOMAIN rooms /\ rooms[r] \in Room /\ SeatsOf(rooms[r])
    BY <1>3, Seats DEF InRoom
  <2>2. PICK left \in PlayerRemoved(rooms[r], p) : rooms' = [rooms EXCEPT ![r] = left]
    BY <1>3 DEF RoomOf
  <2> HIDE DEF r
  <2>3. left \in Room
    BY <2>1, <2>2, RemovedExactly
  <2> QED
    BY <2>1, <2>2, <2>3, RemovalGrowsNot
<1>4. CASE InRoom(p) /\ RemovePlayer(roomNumber[p], p, {p})
  BY <1>4, RemovePlayerGrowsNot
<1> QED
  BY <1>1, <1>2, <1>3, <1>4 DEF Disconnect

LEMMA RoomJoinGrowsToSeats ==
  ASSUME IInv, NEW p \in Players, NEW r, RoomJoin(p, r)
  PROVE  RoomsGrowOnlyToSeats
<1> DEFINE room == rooms[r]
<1>1. r \in DOMAIN rooms /\ room \in Room
  BY Seats DEF RoomJoin
<1>2. /\ room.players \in Seq(Players) /\ room.observers \in Seq(Players)
      /\ room.perTeam \in Nat
  BY <1>1, ConstantsAssumption DEF Room
<1>3. CASE ~IsRoomFullObserverExcluded(room) /\ AddPlayer(r, p)
  <2> DEFINE players == Append(room.players, p)
             new == [room EXCEPT !.players = players]
  <2>1. rooms' = [rooms EXCEPT ![r] = new]
    BY <1>3 DEF AddPlayer
  <2>2. /\ players \in Seq(Players) /\ Len(players) = Len(room.players) + 1
        /\ Len(room.players) \in Nat /\ Len(room.observers) \in Nat
    BY <1>2
  <2>3. Len(room.players) < IF room.perTeam = 0 THEN 1 ELSE 2 * room.perTeam
    BY <1>2, <1>3, <2>2 DEF IsRoomFullObserverExcluded
  <2> HIDE DEF players, room
  <2>4. new \in Room /\ new.players = players /\ new.observers = room.observers
    BY <1>1, <2>2 DEF Room
  <2> HIDE DEF new
  <2>5. \/ Len(new.players) <= 2 * room.perTeam
        \/ room.perTeam = 0 /\ Len(new.players) = 1
    <3>1. CASE room.perTeam = 0
      <4>1. Len(room.players) < 1
        BY <2>3, <3>1
      <4>2. Len(players) = 1
        BY <2>2, <4>1
      <4> QED
        BY <2>4, <3>1, <4>2
    <3>2. CASE room.perTeam # 0
      BY <1>2, <2>2, <2>3, <2>4, <3>2
    <3> QED
      BY <3>1, <3>2
  <2>6. GrowsOnlyToSeats(room, new)
    BY <2>2, <2>4, <2>5 DEF GrowsOnlyToSeats
  <2> QED
    BY <1>1, <2>1, <2>4, <2>6, OneRoomGrows DEF room
<1>4. CASE ~IsObserverFull(room) /\ AddObserverPlayer(r, p)
  <2> DEFINE observers == Append(room.observers, p)
             new == [room EXCEPT !.observers = observers]
  <2>1. rooms' = [rooms EXCEPT ![r] = new]
    BY <1>4 DEF AddObserverPlayer
  <2>2. /\ observers \in Seq(Players) /\ Len(observers) = Len(room.observers) + 1
        /\ Len(room.players) \in Nat /\ Len(room.observers) \in Nat
    BY <1>2
  <2>3. Len(room.observers) < MaxObservers
    BY <1>4, <2>2, ConstantsAssumption DEF IsObserverFull
  <2> HIDE DEF observers, room
  <2>4. new \in Room /\ new.observers = observers /\ new.players = room.players
    BY <1>1, <2>2 DEF Room
  <2> HIDE DEF new
  <2>5. GrowsOnlyToSeats(room, new)
    BY <2>2, <2>3, <2>4, ConstantsAssumption DEF GrowsOnlyToSeats
  <2> QED
    BY <1>1, <2>1, <2>4, <2>5, OneRoomGrows DEF room
<1> QED
  BY <1>3, <1>4 DEF RoomJoin

\* A switch to the observers, and one back.
LEMMA SwitchGrowsToSeats ==
  ASSUME IInv, NEW p \in Players, PlayerToObserver(p) \/ ObserverToPlayer(p)
  PROVE  RoomsGrowOnlyToSeats
<1> DEFINE room == RoomOf(p)
           r == roomNumber[p]
<1>1. /\ InRoom(p) /\ r \in DOMAIN rooms /\ room = rooms[r] /\ room \in Room
      /\ room.players \in Seq(Players) /\ room.observers \in Seq(Players)
      /\ room.perTeam \in Nat
  <2>1. InRoom(p)
    BY DEF PlayerToObserver, ObserverToPlayer
  <2> QED
    BY <2>1, OwnRoom, ConstantsAssumption DEF InRoom, RoomOf, Room
<1>2. Len(room.players) \in Nat /\ Len(room.observers) \in Nat
  BY <1>1
<1>3. ASSUME NEW s \in Seq(Players), p \in ToSet(s)
      PROVE  LET t == RemoveAt(s, IndexIn(s, p)) IN t \in Seq(Players) /\ Len(t) = Len(s) - 1
  <2>1. IndexIn(s, p) \in DOMAIN s
    BY <1>3 DEF IndexIn, ToSet
  <2> QED
    BY <2>1, RemoveAtElements
<1>4. CASE PlayerToObserver(p)
  <2> DEFINE players == RemoveAt(room.players, IndexIn(room.players, p))
             observers == Append(room.observers, p)
             new == [room EXCEPT !.players = players, !.observers = observers]
  <2>1. rooms' = [rooms EXCEPT ![r] = new]
    BY <1>4, Zenon DEF PlayerToObserver
  <2>2. players \in Seq(Players) /\ Len(players) = Len(room.players) - 1
    BY <1>1, <1>3, <1>4 DEF PlayerToObserver
  <2>3. observers \in Seq(Players) /\ Len(observers) = Len(room.observers) + 1
    BY <1>1
  <2>4. Len(room.observers) < MaxObservers
    BY <1>2, <1>4, ConstantsAssumption DEF PlayerToObserver, IsObserverFull
  <2> HIDE DEF players, observers, room
  <2>5. new \in Room /\ new.players = players /\ new.observers = observers
    BY <1>1, <2>2, <2>3 DEF Room
  <2> HIDE DEF new
  <2>6. GrowsOnlyToSeats(room, new)
    BY <1>2, <2>2, <2>3, <2>4, <2>5, ConstantsAssumption DEF GrowsOnlyToSeats
  <2> QED
    BY <1>1, <2>1, <2>5, <2>6, OneRoomGrows
<1>5. CASE ObserverToPlayer(p)
  <2> DEFINE players == Append(room.players, p)
             observers == RemoveAt(room.observers, IndexIn(room.observers, p))
             new == [room EXCEPT !.players = players, !.observers = observers]
  <2>1. rooms' = [rooms EXCEPT ![r] = new]
    BY <1>5, Zenon DEF ObserverToPlayer
  <2>2. observers \in Seq(Players) /\ Len(observers) = Len(room.observers) - 1
    BY <1>1, <1>3, <1>5 DEF ObserverToPlayer
  <2>3. players \in Seq(Players) /\ Len(players) = Len(room.players) + 1
    BY <1>1
  <2>4. Len(room.players) < 2 * room.perTeam
    BY <1>5 DEF ObserverToPlayer
  <2> HIDE DEF players, observers, room
  <2>5. new \in Room /\ new.players = players /\ new.observers = observers
    BY <1>1, <2>2, <2>3 DEF Room
  <2> HIDE DEF new
  <2>6. GrowsOnlyToSeats(room, new)
    BY <1>1, <1>2, <2>2, <2>3, <2>4, <2>5 DEF GrowsOnlyToSeats
  <2> QED
    BY <1>1, <2>1, <2>5, <2>6, OneRoomGrows
<1> QED
  BY <1>4, <1>5

LEMMA RoomLeaveKickGrowsNot ==
  ASSUME IInv, NEW p \in Players, NEW t \in Players, RoomLeaveKick(p, t)
  PROVE  RoomsGrowOnlyToSeats
<1> DEFINE r == roomNumber[p]
<1>1. r \in DOMAIN rooms /\ rooms[r] \in Room /\ SeatsOf(rooms[r])
  BY Seats DEF RoomLeaveKick, InRoom
<1>2. PICK left \in PlayerRemoved(rooms[r], t) :
        rooms' = [rooms EXCEPT ![r] = [left EXCEPT !.kicked = @ \cup {t}]]
  BY DEF RoomLeaveKick, RoomOf
<1> DEFINE new == [left EXCEPT !.kicked = @ \cup {t}]
<1> HIDE DEF r
<1>3. left \in Room
  BY <1>1, <1>2, RemovedExactly
<1>4. new \in Room /\ new.players = left.players /\ new.observers = left.observers
  BY <1>3 DEF Room
<1>5. rooms' = [rooms EXCEPT ![r] = new]
  BY <1>2
<1> HIDE DEF new
<1> QED
  BY <1>1, <1>2, <1>4, <1>5, RemovalGrowsNot

LEMMA KickPlayerGrowsNot ==
  ASSUME IInv, NEW p \in Players, NEW t \in Players, KickPlayer(p, t), IInv'
  PROVE  RoomsGrowOnlyToSeats
<1> DEFINE r == roomNumber[p]
<1>1. r \in DOMAIN rooms /\ rooms[r] \in Room /\ SeatsOf(rooms[r])
  BY Seats DEF KickPlayer, InRoom
<1>2. PICK left \in PlayerRemoved(rooms[r], t) :
        rooms' = [rooms EXCEPT ![r] =
                    [left EXCEPT !.kicked = @ \cup {StaleSlot(rooms[r], left, t)}]]
  BY DEF KickPlayer, RoomOf
<1> DEFINE slot == StaleSlot(rooms[r], left, t)
           new == [left EXCEPT !.kicked = @ \cup {slot}]
<1> HIDE DEF r, slot
<1>3. left \in Room
  BY <1>1, <1>2, RemovedExactly
<1>4. new.players = left.players /\ new.observers = left.observers
  BY <1>3 DEF Room
<1>5. rooms' = [rooms EXCEPT ![r] = new]
  BY <1>2 DEF slot
<1> HIDE DEF new
<1>6. new \in Room
  <2>1. DOMAIN rooms' = DOMAIN rooms /\ rooms'[r] = new
    BY <1>1, <1>5 DEF IInv, TypeOK
  <2> QED
    BY <1>1, <2>1 DEF IInv, TypeOK
<1> QED
  BY <1>1, <1>2, <1>4, <1>5, <1>6, RemovalGrowsNot

\* ChangeHost, and the handlers that touch other fields of a room than its vectors.
LEMMA EditsGrowNot ==
  ASSUME IInv, IInv', NEW p \in Players,
         \/ \E i \in Nat : ChangeHost(p, i)
         \/ \E isReady \in BOOLEAN : PlayerState(p, isReady)
         \/ \E n \in TeamSizes : SetPlayersPerTeam(p, n)
         \/ SwitchObserverMode(p)
         \/ RoomStart(p)
         \/ MatchEnding(p)
         \/ MatchLeave(p) /\ ~IsHost(RoomOf(p), p)
  PROVE  RoomsGrowOnlyToSeats
<1> DEFINE r == roomNumber[p]
           room == RoomOf(p)
<1>1. InRoom(p)
  BY DEF ChangeHost, PlayerState, SetPlayersPerTeam, SwitchObserverMode, RoomStart, MatchEnding,
         MatchLeave
<1>2. r \in DOMAIN rooms /\ room = rooms[r] /\ room \in Room
  BY <1>1, OwnRoom DEF InRoom, RoomOf
<1>3. \E new : /\ rooms' = [rooms EXCEPT ![r] = new]
               /\ Len(new.players) = Len(room.players) /\ new.observers = room.observers
  <2>1. ASSUME NEW i \in Nat, ChangeHost(p, i)
        PROVE  <1>3!:
    <3> DEFINE new == [room EXCEPT !.players = SwapHost(@, i)]
    <3>1. rooms' = [rooms EXCEPT ![r] = new]
      BY <2>1 DEF ChangeHost, RoomOf
    <3>2. room.players \in Seq(Players) /\ i \in DOMAIN room.players
      BY <1>2, <2>1 DEF ChangeHost, Room
    <3>3. Len(SwapHost(room.players, i)) = Len(room.players)
      BY <3>2 DEF SwapHost
    <3> HIDE DEF room
    <3>4. new.players = SwapHost(room.players, i) /\ new.observers = room.observers
      BY <1>2 DEF Room
    <3> HIDE DEF new
    <3> QED
      BY <3>1, <3>3, <3>4
  <2>2. ASSUME NEW isReady \in BOOLEAN, PlayerState(p, isReady)
        PROVE  <1>3!:
    <3> DEFINE new == [room EXCEPT !.ready = IF isReady THEN @ \cup ({p} \cap Members(room))
                                             ELSE @ \ {p}]
    <3>1. rooms' = [rooms EXCEPT ![r] = new]
      BY <2>2, Zenon DEF PlayerState, RoomOf
    <3>2. new.players = room.players /\ new.observers = room.observers
      BY <1>2 DEF Room
    <3> QED
      BY <3>1, <3>2
  <2>3. ASSUME NEW n \in TeamSizes, SetPlayersPerTeam(p, n)
        PROVE  <1>3!:
    <3> DEFINE new == [room EXCEPT !.perTeam = n]
    <3>1. rooms' = [rooms EXCEPT ![r] = new]
      BY <2>3 DEF SetPlayersPerTeam, RoomOf
    <3>2. new.players = room.players /\ new.observers = room.observers
      BY <1>2 DEF Room
    <3> QED
      BY <3>1, <3>2
  <2>4. ASSUME SwitchObserverMode(p)
        PROVE  <1>3!:
    <3> DEFINE new == [room EXCEPT !.obsOn = ~@]
    <3>1. rooms' = [rooms EXCEPT ![r] = new]
      BY <2>4 DEF SwitchObserverMode, RoomOf
    <3>2. new.players = room.players /\ new.observers = room.observers
      BY <1>2 DEF Room
    <3> QED
      BY <3>1, <3>2
  <2>5. ASSUME RoomStart(p)
        PROVE  <1>3!:
    <3> DEFINE new == [room EXCEPT !.started = TRUE,
                                   !.ready = IF room.started THEN @ \ {p} ELSE {}]
    <3>1. rooms' = [rooms EXCEPT ![r] = new]
      BY <2>5, Zenon DEF RoomStart
    <3>2. new.players = room.players /\ new.observers = room.observers
      BY <1>2 DEF Room
    <3> QED
      BY <3>1, <3>2
  <2>6. ASSUME MatchEnding(p)
        PROVE  <1>3!:
    <3> DEFINE ending == {q \in Members(room) : inMatch[q]}
               new == [room EXCEPT !.started = FALSE, !.ready = @ \ ending]
    <3>1. rooms' = [rooms EXCEPT ![r] = new]
      BY <2>6, Zenon DEF MatchEnding
    <3>2. new.players = room.players /\ new.observers = room.observers
      BY <1>2 DEF Room
    <3> QED
      BY <3>1, <3>2
  <2>7. ASSUME MatchLeave(p), ~IsHost(RoomOf(p), p)
        PROVE  <1>3!:
    <3> DEFINE new == [room EXCEPT !.ready = @ \ {p}]
    <3>1. rooms' = [rooms EXCEPT ![r] = new]
      BY <2>7 DEF MatchLeave, RoomOf
    <3>2. new.players = room.players /\ new.observers = room.observers
      BY <1>2 DEF Room
    <3> QED
      BY <3>1, <3>2
  <2> QED
    BY <2>1, <2>2, <2>3, <2>4, <2>5, <2>6, <2>7
<1>4. PICK new : /\ rooms' = [rooms EXCEPT ![r] = new]
                 /\ Len(new.players) = Len(room.players) /\ new.observers = room.observers
  BY <1>3
<1>5. new \in Room
  <2>1. DOMAIN rooms' = DOMAIN rooms /\ rooms'[r] = new
    BY <1>2, <1>4
  <2> QED
    BY <1>2, <2>1 DEF IInv, TypeOK
<1> QED
  BY <1>1, <1>4, <1>5, EditGrowsNot

\* Every step takes players and observers on free seats only.
LEMMA NextGrowsToSeats ==
  ASSUME IInv, IInv', [Next]_vars
  PROVE  RoomsGrowOnlyToSeats
<1>1. CASE UNCHANGED rooms
  BY <1>1, NoRoomGrows
<1>2. ASSUME NEW p \in Players, RoomCreation(p)
      PROVE  RoomsGrowOnlyToSeats
  <2>1. CASE UNCHANGED rooms
    BY <2>1, NoRoomGrows
  <2>2. CASE \E perTeam \in TeamSizes, obsOn \in BOOLEAN :
               rooms' = [x \in DOMAIN rooms \cup {(idCounter + 1) % NumberSpace} |->
                           IF x \in DOMAIN rooms THEN rooms[x] ELSE NewRoom(p, perTeam, obsOn)]
    <3>1. /\ \A x \in DOMAIN rooms \cap DOMAIN rooms' : rooms'[x] = rooms[x]
          /\ \A x \in DOMAIN rooms' \ DOMAIN rooms : rooms'[x].observers = <<>>
      BY <2>2 DEF NewRoom
    <3> QED
      BY <3>1, NoRoomGrows
  <2> QED
    BY <1>2, <2>1, <2>2 DEF RoomCreation
<1>3. ASSUME NEW p \in Players, MatchLeave(p)
      PROVE  RoomsGrowOnlyToSeats
  BY <1>3, RemoveHostGrowsNot, EditsGrowNot DEF MatchLeave, InRoom
<1>4. ASSUME NEW p \in Players, SessionStep(p)
      PROVE  RoomsGrowOnlyToSeats
  BY <1>1, <1>4, DisconnectGrowsNot DEF SessionStep, Connect, DisconnectUndefined, UndefinedRead
<1>5. ASSUME NEW p \in Players, LobbyStep(p)
      PROVE  RoomsGrowOnlyToSeats
  BY <1>1, <1>2, <1>5, RoomJoinGrowsToSeats DEF LobbyStep, RoomInfoUndefined, UndefinedRead
<1>6. ASSUME NEW p \in Players, WaitingRoomStep(p)
      PROVE  RoomsGrowOnlyToSeats
  BY <1>6, RemovePlayerGrowsNot, SwitchGrowsToSeats, EditsGrowNot
     DEF WaitingRoomStep, RoomLeave
<1>7. ASSUME NEW p \in Players, HostStep(p)
      PROVE  RoomsGrowOnlyToSeats
  <2>1. \A i \in 1 .. Cardinality(Players) : i \in Nat
    OBVIOUS
  <2> QED
    BY <1>7, <2>1, RoomLeaveKickGrowsNot, EditsGrowNot DEF HostStep
<1>8. ASSUME NEW p \in Players, RoomStart(p) \/ MatchStep(p) \/ MatchEnding(p)
      PROVE  RoomsGrowOnlyToSeats
  BY <1>1, <1>3, <1>8, EditsGrowNot DEF MatchStep, MatchUndefined, UndefinedRead
<1>9. ASSUME NEW p \in Players, ModeratorStep(p)
      PROVE  RoomsGrowOnlyToSeats
  BY <1>9, ClosingGrowsNot, KickPlayerGrowsNot DEF ModeratorStep, Breakroom
<1> QED
  BY <1>1, <1>4, <1>5, <1>6, <1>7, <1>8, <1>9 DEF Next, vars

\* The observers keep within their seats.
LEMMA ObserversKeepSeated ==
  ASSUME IInv, IInv', ObserversSeated, RoomsGrowOnlyToSeats
  PROVE  ObserversSeated'
<1> SUFFICES ASSUME NEW r \in DOMAIN rooms'
             PROVE  Len(rooms'[r].observers) <= MaxObservers
  BY DEF ObserversSeated
<1>1. CASE r \in DOMAIN rooms
  <2>1. Len(rooms[r].observers) \in Nat /\ Len(rooms'[r].observers) \in Nat
    <3>1. rooms[r] \in Room /\ rooms'[r] \in Room
      BY <1>1 DEF IInv, TypeOK
    <3> QED
      BY <3>1 DEF Room
  <2>2. \/ Len(rooms'[r].observers) <= Len(rooms[r].observers)
        \/ Len(rooms'[r].observers) <= MaxObservers
    BY <1>1 DEF RoomsGrowOnlyToSeats, GrowsOnlyToSeats
  <2>3. Len(rooms[r].observers) <= MaxObservers
    BY <1>1 DEF ObserversSeated
  <2> QED
    BY <2>1, <2>2, <2>3, ConstantsAssumption
<1>2. CASE r \notin DOMAIN rooms
  <2>1. Len(rooms'[r].observers) = 0
    BY <1>2 DEF RoomsGrowOnlyToSeats
  <2> QED
    BY <2>1, ConstantsAssumption
<1> QED
  BY <1>1, <1>2

\* Whoever enters a room, as a player or an observer, takes a free seat, however seats are
\* switched, settings changed and players kicked: for any numbers of players and seats.
THEOREM SeatsStayRespected ==
  ASSUME NoWrap
  PROVE  Spec => SeatsRespected
<1> DEFINE A == \A r \in DOMAIN rooms \cap DOMAIN rooms' :
                  LET before == rooms[r]
                      after == rooms'[r]
                  IN  /\ Len(after.players) > Len(before.players)
                           => \/ Len(after.players) <= 2 * before.perTeam
                              \/ before.perTeam = 0 /\ Len(after.players) = 1
                      /\ Len(after.observers) <= MaxObservers
<1>1. Init => ObserversSeated
  BY DEF Init, ObserversSeated
<1>2. IInv /\ ObserversSeated /\ [Next]_vars => IInv' /\ ObserversSeated' /\ A
  <2> SUFFICES ASSUME IInv, ObserversSeated, [Next]_vars
               PROVE  IInv' /\ ObserversSeated' /\ A
    OBVIOUS
  <2>1. IInv'
    BY NextPreserves
  <2>2. RoomsGrowOnlyToSeats
    BY <2>1, NextGrowsToSeats
  <2>3. ObserversSeated'
    BY <2>1, <2>2, ObserversKeepSeated
  <2>4. A
    BY <2>2, <2>3 DEF RoomsGrowOnlyToSeats, GrowsOnlyToSeats, ObserversSeated
  <2> QED
    BY <2>1, <2>3, <2>4
<1>3. IInv /\ ObserversSeated /\ [Next]_vars => [A]_vars
  BY <1>2
<1> HIDE DEF A
<1>4. Spec => [][A]_vars
  BY <1>1, <1>2, <1>3, InitSatisfies, PTL DEF Spec
<1> QED
  BY <1>4 DEF SeatsRespected, A

----------------------------------------------------------------------------
(* Where players are *)

Fighting == {p \in Players : inMatch[p]}

\* A room's match, host and kicked list fit those of its members who are in the match.  A
\* match that runs has a host: otherwise an observer who takes a seat would become the host
\* without being in the match.
InPlace(room, fighting) ==
  /\ room.started => HasHost(room) /\ Host(room) \in fighting
  /\ ~room.started => ToSet(room.players) \cap fighting = {}
  /\ room.kicked \cap Members(room) = {}

PlaceInv ==
  /\ LobbyOrRoom
  /\ \A r \in DOMAIN rooms : InPlace(rooms[r], Fighting)

LEMMA PlacesOfAll ==
  ASSUME IInv, PlaceInv
  PROVE  EverybodyInPlace
<1>1. \A r \in DOMAIN rooms : ToSet(rooms[r].players) \subseteq Players
  BY Seats DEF Members
<1> QED
  BY <1>1 DEF PlaceInv, InPlace, Fighting, EverybodyInPlace, MatchHasItsHost, NobodyLeftInMatch,
     KickedAreOut

\* Only those of its members who are in the match matter to a room.
LEMMA SameFighters ==
  ASSUME NEW room, NEW M, NEW N, InPlace(room, M), M \cap Members(room) = N \cap Members(room),
         room \in Room
  PROVE  InPlace(room, N)
<1>1. HasHost(room) => Host(room) \in Members(room)
  <2>1. room.players \in Seq(Players)
    BY DEF Room
  <2>2. HasHost(room) => 1 \in DOMAIN room.players
    BY <2>1 DEF HasHost
  <2> QED
    BY <2>2 DEF Host, Members, ToSet
<1> QED
  BY <1>1 DEF InPlace, Members

\* Only room r changes, and only those who are in it, or in none, change their flags.
LEMMA OneRoomInPlace ==
  ASSUME IInv, PlaceInv, NEW r,
         \A x \in DOMAIN rooms' \ {r} : x \in DOMAIN rooms /\ rooms'[x] = rooms[x],
         \A q \in Players : roomNumber[q] \notin {r, NoRoom} => inMatch'[q] = inMatch[q],
         r \in DOMAIN rooms' => InPlace(rooms'[r], Fighting'),
         LobbyOrRoom'
  PROVE  PlaceInv'
<1> SUFFICES ASSUME NEW x \in DOMAIN rooms', x # r
             PROVE  InPlace(rooms'[x], Fighting')
  BY DEF PlaceInv
<1>1. x \in DOMAIN rooms /\ rooms'[x] = rooms[x] /\ rooms[x] \in Room
  BY Seats
<1>2. Members(rooms[x]) = {p \in Players : roomNumber[p] = x} /\ x # NoRoom
  BY <1>1, Seats
<1>3. InPlace(rooms[x], Fighting)
  BY <1>1 DEF PlaceInv
<1>4. Fighting \cap Members(rooms[x]) = Fighting' \cap Members(rooms[x])
  BY <1>2 DEF Fighting
<1> QED
  BY <1>1, <1>3, <1>4, SameFighters

\* Nothing changes but the table of those who are connected, and flags of those in no room.
LEMMA NoRoomInPlace ==
  ASSUME IInv, PlaceInv, UNCHANGED rooms, LobbyOrRoom',
         \A q \in Players : roomNumber[q] # NoRoom => inMatch'[q] = inMatch[q]
  PROVE  PlaceInv'
<1>1. NoRoom \notin DOMAIN rooms
  BY Seats
<1> QED
  BY <1>1, OneRoomInPlace

\* Player::leaveRoom for the players in S
LEMMA LeaversInLobby ==
  ASSUME IInv, PlaceInv, NEW S \in SUBSET Players, LeaveRoom(S)
  PROVE  /\ LobbyOrRoom'
         /\ Fighting' = Fighting \ S
         /\ \A q \in Players \ S : inMatch'[q] = inMatch[q]
<1>1. /\ \A q \in Players : roomNumber'[q] = IF q \in S THEN NoRoom ELSE roomNumber[q]
      /\ \A q \in Players : inLobby'[q] = (q \in S \/ inLobby[q])
      /\ \A q \in Players : inMatch'[q] = (q \notin S /\ inMatch[q])
      /\ inMatch \in [Players -> BOOLEAN]
  BY Zenon DEF LeaveRoom, IInv, TypeOK
<1>2. LobbyOrRoom'
  BY <1>1 DEF LobbyOrRoom, PlaceInv
<1>3. Fighting' = Fighting \ S
  BY <1>1 DEF Fighting
<1>4. \A q \in Players \ S : inMatch'[q] = inMatch[q]
  BY <1>1
<1> QED
  BY <1>2, <1>3, <1>4

\* A player other than the host, or one who is not in the match, is taken out of a room.
LEMMA RemovedInPlace ==
  ASSUME NEW room \in Room, SeatsOf(room), NEW M, InPlace(room, M), NEW p \in Players,
         NEW left \in PlayerRemoved(room, p),
         p \notin M \/ ~HasHost(room) \/ Host(room) # p
  PROVE  InPlace(left, M \ {p})
<1>1. left \in Room /\ Members(left) = Members(room) \ {p}
  BY RemovedExactly
<1>2. /\ left.kicked = room.kicked /\ left.started = room.started
      /\ HasHost(room) /\ Host(room) # p => HasHost(left) /\ Host(left) = Host(room)
  BY RemovedRoom
<1>3. room.started => Host(room) # p /\ HasHost(left) /\ Host(left) \in M \ {p}
  BY <1>2 DEF InPlace
<1>4. ASSUME ~room.started
      PROVE  ToSet(left.players) \cap M = {}
  <2>1. ToSet(left.players) \subseteq ToSet(room.players)
    <3>1. CASE p \in ToSet(room.players) /\ IsHost(room, p) /\ Successors(room) # {}
      <4>1. PICK i \in Successors(room) : left = HostReplacedBy(room, i)
        BY <3>1 DEF PlayerRemoved
      <4>2. left.observers = room.observers /\ SeatsOf(left)
        BY <4>1, SuccessorSitsFirst, HostReplaced
      <4> QED
        BY <1>1, <4>2 DEF SeatsOf, Members
    <3>2. CASE p \in ToSet(room.players) /\ ~(IsHost(room, p) /\ Successors(room) # {})
      <4>1. left = PlayerErased(room, p)
        BY <3>2 DEF PlayerRemoved
      <4>2. left.observers = room.observers /\ SeatsOf(left)
        BY <3>2, <4>1, ErasedRoom, MemberErased
      <4> QED
        BY <1>1, <4>2 DEF SeatsOf, Members
    <3>3. CASE p \notin ToSet(room.players) /\ p \in ToSet(room.observers)
      BY <3>3, ErasedRoom DEF PlayerRemoved
    <3>4. CASE p \notin Members(room)
      BY <3>4 DEF PlayerRemoved, Members
    <3> QED
      BY <3>1, <3>2, <3>3, <3>4 DEF Members
  <2> QED
    BY <1>4, <2>1 DEF InPlace
<1>5. left.kicked \cap Members(left) = {}
  BY <1>1, <1>2 DEF InPlace
<1> QED
  BY <1>2, <1>3, <1>4, <1>5 DEF InPlace

\* The room of p becomes `new', and only its members change their flags.
LEMMA OwnRoomInPlace ==
  ASSUME IInv, PlaceInv, NEW p \in Players, InRoom(p), NEW new,
         rooms' = [rooms EXCEPT ![roomNumber[p]] = new],
         \A q \in Players : roomNumber[q] \notin {roomNumber[p], NoRoom} => inMatch'[q] = inMatch[q],
         InPlace(new, Fighting'), LobbyOrRoom'
  PROVE  PlaceInv'
<1> DEFINE r == roomNumber[p]
<1>1. r \in DOMAIN rooms
  BY DEF InRoom
<1>2. /\ \A x \in DOMAIN rooms' \ {r} : x \in DOMAIN rooms /\ rooms'[x] = rooms[x]
      /\ rooms'[r] = new
  BY <1>1
<1> HIDE DEF r
<1> QED
  BY <1>2, OneRoomInPlace DEF r

LEMMA ClosingInPlace ==
  ASSUME IInv, PlaceInv, NEW r \in DOMAIN rooms, CloseRoom(r)
  PROVE  PlaceInv'
<1>1. /\ Members(rooms[r]) \subseteq Players
      /\ \A q \in Members(rooms[r]) : roomNumber[q] = r
  BY Seats
<1>2. LobbyOrRoom' /\ \A q \in Players \ Members(rooms[r]) : inMatch'[q] = inMatch[q]
  BY <1>1, LeaversInLobby DEF CloseRoom
<1>3. /\ \A x \in DOMAIN rooms' \ {r} : x \in DOMAIN rooms /\ rooms'[x] = rooms[x]
      /\ r \notin DOMAIN rooms'
  BY DEF CloseRoom
<1> QED
  BY <1>1, <1>2, <1>3, OneRoomInPlace

\* Who is not in the match leaves its room.
LEMMA RemovePlayerInPlace ==
  ASSUME IInv, PlaceInv, NEW p \in Players, InRoom(p), ~inMatch[p], NEW S \in {{}, {p}},
         RemovePlayer(roomNumber[p], p, S)
  PROVE  PlaceInv'
<1> DEFINE r == roomNumber[p]
<1>1. /\ r \in DOMAIN rooms /\ rooms[r] \in Room /\ SeatsOf(rooms[r]) /\ p \in Members(rooms[r])
      /\ InPlace(rooms[r], Fighting)
  BY Seats DEF InRoom, PlaceInv
<1>2. PICK left \in PlayerRemoved(rooms[r], p) :
        CloseRoom(r) \/ (rooms' = [rooms EXCEPT ![r] = left] /\ LeaveRoom({p}))
  <2>1. S \cup ({p} \cap Members(rooms[r])) = {p}
    BY <1>1
  <2> QED
    BY <2>1 DEF RemovePlayer
<1>3. CASE CloseRoom(r)
  BY <1>1, <1>3, ClosingInPlace
<1>4. CASE rooms' = [rooms EXCEPT ![r] = left] /\ LeaveRoom({p})
  <2>1. LobbyOrRoom' /\ Fighting' = Fighting \ {p} /\ \A q \in Players \ {p} : inMatch'[q] = inMatch[q]
    BY <1>4, LeaversInLobby
  <2>2. p \notin Fighting
    BY DEF Fighting
  <2> HIDE DEF r
  <2>3. InPlace(left, Fighting \ {p})
    BY <1>1, <1>2, <2>2, RemovedInPlace
  <2> QED
    BY <1>4, <2>1, <2>3, OwnRoomInPlace DEF r
<1> QED
  BY <1>2, <1>3, <1>4

\* The host leaves with the match: a successor in the match keeps it running, and without one
\* it is over, and nobody who stays is in it.
LEMMA RemoveHostInPlace ==
  ASSUME IInv, PlaceInv, NEW p \in Players, InRoom(p), HasHost(RoomOf(p)), IsHost(RoomOf(p), p),
         RemoveHostFromMatch(roomNumber[p])
  PROVE  PlaceInv'
<1> DEFINE r == roomNumber[p]
           room == rooms[r]
<1>1. /\ r \in DOMAIN rooms /\ room \in Room /\ SeatsOf(room) /\ Host(room) = p
      /\ InPlace(room, Fighting)
  BY Seats DEF InRoom, PlaceInv, RoomOf, IsHost
<1>2. ASSUME NEW i \in Successors(room), NEW ongoing \in BOOLEAN,
             ongoing => i \in SuccessorsInMatch(room),
             ~ongoing => SuccessorsInMatch(room) = {},
             rooms' = [rooms EXCEPT ![r] =
                         [HostReplacedBy(room, i) EXCEPT !.started = room.started /\ ongoing]],
             LeaveRoom({p})
      PROVE  PlaceInv'
  <2> DEFINE left == HostReplacedBy(room, i)
             new == [left EXCEPT !.started = room.started /\ ongoing]
  <2>1. LobbyOrRoom' /\ Fighting' = Fighting \ {p} /\ \A q \in Players \ {p} : inMatch'[q] = inMatch[q]
    BY <1>2, LeaversInLobby
  <2> HIDE DEF r
  <2>2. rooms' = [rooms EXCEPT ![r] = new]
    BY <1>2
  <2>3. /\ left \in Room /\ SeatsOf(left) /\ Members(left) = Members(room) \ {p}
        /\ HasHost(left) /\ Host(left) = room.players[i]
        /\ left.kicked = room.kicked /\ left.observers = room.observers
    BY <1>1, HostReplaced, SuccessorSitsFirst
  <2>4. /\ room.players \in Seq(Players) /\ IsInjective(room.players)
        /\ i \in DOMAIN room.players /\ i # 1 /\ 1 \in DOMAIN room.players
        /\ ToSet(room.players) \subseteq Players
    BY <1>1 DEF Room, SeatsOf, Successors, ToSet
  <2>5. room.players[i] # p /\ room.players[i] \in ToSet(room.players)
    BY <1>1, <2>4 DEF Host, IsInjective, ToSet
  <2>6. ToSet(left.players) \subseteq ToSet(room.players) \ {p}
    BY <2>3 DEF SeatsOf, Members
  <2>7. /\ new.players = left.players /\ new.observers = left.observers
        /\ new.kicked = left.kicked /\ new.started = (room.started /\ ongoing)
    BY <2>3 DEF Room
  <2> HIDE DEF new, left
  <2>8. ongoing => room.players[i] \in Fighting /\ room.started
    BY <1>1, <1>2, <2>4, <2>5 DEF SuccessorsInMatch, Fighting, InPlace
  <2>9. ~ongoing => (ToSet(room.players) \ {p}) \cap Fighting = {}
    <3> SUFFICES ASSUME ~ongoing, NEW q \in ToSet(room.players), q # p, q \in Fighting
                 PROVE  FALSE
      OBVIOUS
    <3>1. PICK j \in DOMAIN room.players : room.players[j] = q
      BY DEF ToSet
    <3>2. j # 1
      BY <1>1, <3>1 DEF Host
    <3>3. j \in Successors(room)
      BY <2>4, <3>2 DEF Successors
    <3>4. j \in SuccessorsInMatch(room)
      BY <3>1, <3>3 DEF SuccessorsInMatch, Fighting
    <3> QED
      BY <1>2, <3>4
  <2>10. InPlace(new, Fighting')
    <3>1. new.started => HasHost(new) /\ Host(new) \in Fighting'
      BY <2>1, <2>3, <2>5, <2>7, <2>8 DEF HasHost, Host
    <3>2. ~new.started => ToSet(new.players) \cap Fighting' = {}
      BY <2>1, <2>6, <2>7, <2>8, <2>9
    <3>3. new.kicked \cap Members(new) = {}
      <4>1. Members(new) \subseteq Members(room)
        BY <2>3, <2>7 DEF Members
      <4> QED
        BY <1>1, <2>3, <2>7, <4>1 DEF InPlace
    <3> QED
      BY <3>1, <3>2, <3>3 DEF InPlace
  <2> QED
    BY <2>1, <2>2, <2>10, OwnRoomInPlace DEF r
<1>3. ASSUME NEW i \in SuccessorsInMatch(room),
             rooms' = [rooms EXCEPT ![r] =
                         [HostReplacedBy(room, i) EXCEPT !.started = room.started /\ TRUE]],
             LeaveRoom({p})
      PROVE  PlaceInv'
  <2>1. i \in Successors(room)
    BY <1>3 DEF SuccessorsInMatch
  <2> QED
    BY <1>2, <1>3, <2>1
<1>4. ASSUME SuccessorsInMatch(room) = {}, NEW i \in Successors(room),
             rooms' = [rooms EXCEPT ![r] =
                         [HostReplacedBy(room, i) EXCEPT !.started = room.started /\ FALSE]],
             LeaveRoom({p})
      PROVE  PlaceInv'
  BY <1>2, <1>4
<1>5. ASSUME CloseRoom(r)
      PROVE  PlaceInv'
  BY <1>1, <1>5, ClosingInPlace
<1> QED
  BY <1>1, <1>3, <1>4, <1>5, Zenon DEF RemoveHostFromMatch

LEMMA DisconnectInPlace ==
  ASSUME IInv, PlaceInv, NEW p \in Players, Disconnect(p)
  PROVE  PlaceInv'
<1>1. CASE roomNumber[p] = NoRoom /\ LeaveRoom({p}) /\ UNCHANGED rooms
  BY <1>1, LeaversInLobby, NoRoomInPlace
<1>2. CASE InRoom(p) /\ inMatch[p] /\ HasHost(RoomOf(p)) /\ IsHost(RoomOf(p), p)
             /\ RemoveHostFromMatch(roomNumber[p])
  BY <1>2, RemoveHostInPlace
<1>3. CASE InRoom(p) /\ HasHost(RoomOf(p)) /\ ~IsHost(RoomOf(p), p) /\ LeaveRoom({p})
             /\ \E left \in PlayerRemoved(RoomOf(p), p) :
                  rooms' = [rooms EXCEPT ![roomNumber[p]] = left]
  <2>1. PICK left \in PlayerRemoved(RoomOf(p), p) : rooms' = [rooms EXCEPT ![roomNumber[p]] = left]
    BY <1>3
  <2>2. RoomOf(p) \in Room /\ SeatsOf(RoomOf(p)) /\ InPlace(RoomOf(p), Fighting)
    BY <1>3, OwnRoom DEF PlaceInv, InRoom, RoomOf
  <2>3. LobbyOrRoom' /\ Fighting' = Fighting \ {p} /\ \A q \in Players \ {p} : inMatch'[q] = inMatch[q]
    BY <1>3, LeaversInLobby
  <2>4. InPlace(left, Fighting \ {p})
    BY <1>3, <2>1, <2>2, RemovedInPlace DEF IsHost
  <2> QED
    BY <1>3, <2>1, <2>3, <2>4, OwnRoomInPlace
<1>4. CASE InRoom(p) /\ ~inMatch[p] /\ RemovePlayer(roomNumber[p], p, {p})
  BY <1>4, RemovePlayerInPlace
<1> QED
  BY <1>1, <1>2, <1>3, <1>4 DEF Disconnect

\* Who enters a room from the lobby is not in a match.
LEMMA EnteringInPlace ==
  ASSUME IInv, PlaceInv, NEW p \in Players, InLobbyScreen(p), NEW r, r # NoRoom, EnterRoom(p, r)
  PROVE  LobbyOrRoom' /\ Fighting' = Fighting /\ inMatch' = inMatch /\ p \notin Fighting
<1>1. p \notin Fighting
  BY DEF Fighting, InLobbyScreen, IInv, InMatchInsideRoom, InRoom
<1>2. /\ inMatch' = inMatch
      /\ \A q \in Players : /\ roomNumber'[q] = IF q = p THEN r ELSE roomNumber[q]
                            /\ inLobby'[q] = IF q = p THEN FALSE ELSE inLobby[q]
  BY DEF EnterRoom, IInv, TypeOK
<1>3. LobbyOrRoom'
  BY <1>2 DEF LobbyOrRoom, PlaceInv
<1> QED
  BY <1>1, <1>2, <1>3 DEF Fighting

LEMMA RoomCreationInPlace ==
  ASSUME NoWrap, IInv, PlaceInv, NEW p \in Players, InLobbyScreen(p), RoomCreation(p)
  PROVE  PlaceInv'
<1> DEFINE r == (idCounter + 1) % NumberSpace
<1>1. CASE UNCHANGED <<rooms, sessionVars>>
  BY <1>1, NoRoomInPlace DEF sessionVars, PlaceInv, LobbyOrRoom
<1>2. ASSUME EnterRoom(p, r), NEW perTeam \in TeamSizes, NEW obsOn \in BOOLEAN,
             rooms' = [x \in DOMAIN rooms \cup {r} |->
                         IF x \in DOMAIN rooms THEN rooms[x] ELSE NewRoom(p, perTeam, obsOn)]
      PROVE  PlaceInv'
  <2>1. idCounter \in Nat /\ CreationBound \in Nat /\ NumberSpace \in Nat \ {0}
    BY ConstantsAssumption DEF IInv, TypeOK
  <2>2. idCounter < CreationBound /\ CreationBound < NumberSpace
    BY DEF RoomCreation, NoWrap
  <2>3. r = idCounter + 1 /\ r # NoRoom
    <3>1. idCounter + 1 \in 0 .. NumberSpace - 1
      BY <2>1, <2>2
    <3> QED
      BY <2>1, <3>1 DEF NoRoom
  <2> HIDE DEF r
  <2>4. LobbyOrRoom' /\ Fighting' = Fighting /\ inMatch' = inMatch /\ p \notin Fighting
    BY <1>2, <2>3, EnteringInPlace
  <2>5. \A x \in DOMAIN rooms' \ {r} : x \in DOMAIN rooms /\ rooms'[x] = rooms[x]
    BY <1>2
  <2>6. InPlace(rooms'[r], Fighting')
    <3>1. CASE r \in DOMAIN rooms
      BY <1>2, <2>4, <3>1 DEF PlaceInv
    <3>2. CASE r \notin DOMAIN rooms
      <4>1. rooms'[r] = NewRoom(p, perTeam, obsOn)
        BY <1>2, <3>2
      <4>2. ToSet(NewRoom(p, perTeam, obsOn).players) = {p}
        BY DEF NewRoom, ToSet
      <4> QED
        BY <2>4, <4>1, <4>2 DEF InPlace, NewRoom
    <3> QED
      BY <3>1, <3>2
  <2> QED
    BY <2>4, <2>5, <2>6, OneRoomInPlace
<1> QED
  BY <1>1, <1>2 DEF RoomCreation

LEMMA RoomJoinInPlace ==
  ASSUME IInv, PlaceInv, NEW p \in Players, InLobbyScreen(p), NEW r \in DOMAIN rooms, RoomJoin(p, r)
  PROVE  PlaceInv'
<1> DEFINE room == rooms[r]
<1>1. /\ room \in Room /\ InPlace(room, Fighting) /\ r # NoRoom
      /\ p \notin room.kicked /\ HasHost(room)
  BY Seats DEF PlaceInv, RoomJoin
<1>2. LobbyOrRoom' /\ Fighting' = Fighting /\ inMatch' = inMatch /\ p \notin Fighting
  BY <1>1, EnteringInPlace DEF RoomJoin
<1>3. room.players \in Seq(Players) /\ room.observers \in Seq(Players) /\ 1 \in DOMAIN room.players
  BY <1>1 DEF Room, HasHost
<1>4. \E new : /\ rooms' = [rooms EXCEPT ![r] = new]
               /\ InPlace(new, Fighting)
  <2>1. CASE AddPlayer(r, p)
    <3> DEFINE players == Append(room.players, p)
               new == [room EXCEPT !.players = players]
    <3>1. rooms' = [rooms EXCEPT ![r] = new]
      BY <2>1 DEF AddPlayer
    <3>2. /\ ToSet(players) = ToSet(room.players) \cup {p}
          /\ players # <<>> /\ players[1] = room.players[1]
      BY <1>3, SeatsAfterAppend
    <3> HIDE DEF players, room
    <3>3. /\ new.players = players /\ new.observers = room.observers
          /\ new.kicked = room.kicked /\ new.started = room.started
      BY <1>1 DEF Room
    <3> HIDE DEF new
    <3>4. InPlace(new, Fighting)
      BY <1>1, <1>2, <3>2, <3>3 DEF InPlace, HasHost, Host, Members
    <3> QED
      BY <3>1, <3>4
  <2>2. CASE AddObserverPlayer(r, p)
    <3> DEFINE observers == Append(room.observers, p)
               new == [room EXCEPT !.observers = observers]
    <3>1. rooms' = [rooms EXCEPT ![r] = new]
      BY <2>2 DEF AddObserverPlayer
    <3>2. ToSet(observers) = ToSet(room.observers) \cup {p}
      BY <1>3, SeatsAfterAppend
    <3> HIDE DEF observers, room
    <3>3. /\ new.players = room.players /\ new.observers = observers
          /\ new.kicked = room.kicked /\ new.started = room.started
      BY <1>1 DEF Room
    <3> HIDE DEF new
    <3>4. InPlace(new, Fighting)
      BY <1>1, <1>2, <3>2, <3>3 DEF InPlace, HasHost, Host, Members
    <3> QED
      BY <3>1, <3>4
  <2> QED
    BY <2>1, <2>2 DEF RoomJoin
<1>5. /\ \A x \in DOMAIN rooms' \ {r} : x \in DOMAIN rooms /\ rooms'[x] = rooms[x]
      /\ InPlace(rooms'[r], Fighting')
  BY <1>2, <1>4
<1> QED
  BY <1>2, <1>5, OneRoomInPlace

\* Who stays in a room is not moved: an edit that keeps the vectors, the match and the kicked.
LEMMA SettingsInPlace ==
  ASSUME IInv, PlaceInv, NEW p \in Players,
         \/ \E isReady \in BOOLEAN : PlayerState(p, isReady)
         \/ \E n \in TeamSizes : SetPlayersPerTeam(p, n)
         \/ SwitchObserverMode(p)
  PROVE  PlaceInv'
<1> DEFINE r == roomNumber[p]
           room == RoomOf(p)
<1>1. InRoom(p) /\ UNCHANGED sessionVars
  BY DEF PlayerState, SetPlayersPerTeam, SwitchObserverMode
<1>2. r \in DOMAIN rooms /\ room = rooms[r] /\ room \in Room /\ InPlace(room, Fighting)
  BY <1>1, OwnRoom DEF InRoom, RoomOf, PlaceInv
<1>3. \E new : /\ rooms' = [rooms EXCEPT ![r] = new]
               /\ new.players = room.players /\ new.observers = room.observers
               /\ new.kicked = room.kicked /\ new.started = room.started
  <2>1. ASSUME NEW isReady \in BOOLEAN, PlayerState(p, isReady)
        PROVE  <1>3!:
    <3> DEFINE new == [room EXCEPT !.ready = IF isReady THEN @ \cup ({p} \cap Members(room))
                                             ELSE @ \ {p}]
    <3>1. rooms' = [rooms EXCEPT ![r] = new]
      BY <2>1, Zenon DEF PlayerState, RoomOf
    <3>2. /\ new.players = room.players /\ new.observers = room.observers
          /\ new.kicked = room.kicked /\ new.started = room.started
      BY <1>2 DEF Room
    <3> QED
      BY <3>1, <3>2
  <2>2. ASSUME NEW n \in TeamSizes, SetPlayersPerTeam(p, n)
        PROVE  <1>3!:
    <3> DEFINE new == [room EXCEPT !.perTeam = n]
    <3>1. rooms' = [rooms EXCEPT ![r] = new]
      BY <2>2 DEF SetPlayersPerTeam, RoomOf
    <3>2. /\ new.players = room.players /\ new.observers = room.observers
          /\ new.kicked = room.kicked /\ new.started = room.started
      BY <1>2 DEF Room
    <3> QED
      BY <3>1, <3>2
  <2>3. ASSUME SwitchObserverMode(p)
        PROVE  <1>3!:
    <3> DEFINE new == [room EXCEPT !.obsOn = ~@]
    <3>1. rooms' = [rooms EXCEPT ![r] = new]
      BY <2>3 DEF SwitchObserverMode, RoomOf
    <3>2. /\ new.players = room.players /\ new.observers = room.observers
          /\ new.kicked = room.kicked /\ new.started = room.started
      BY <1>2 DEF Room
    <3> QED
      BY <3>1, <3>2
  <2> QED
    BY <2>1, <2>2, <2>3
<1>4. Fighting' = Fighting /\ LobbyOrRoom' /\ inMatch' = inMatch
  BY <1>1 DEF sessionVars, Fighting, LobbyOrRoom, PlaceInv
<1>5. PICK new : /\ rooms' = [rooms EXCEPT ![r] = new] /\ InPlace(new, Fighting')
  BY <1>2, <1>3, <1>4 DEF InPlace, HasHost, Host, Members
<1> QED
  BY <1>1, <1>4, <1>5, OwnRoomInPlace

\* The host's kick in the waiting room: the match is not running, and the host stays.
LEMMA RoomLeaveKickInPlace ==
  ASSUME IInv, PlaceInv, NEW p \in Players, InWaitingRoom(p), HostScreen(p),
         NEW t \in Players, RoomLeaveKick(p, t)
  PROVE  PlaceInv'
<1> DEFINE r == roomNumber[p]
           room == RoomOf(p)
<1>1. /\ r \in DOMAIN rooms /\ room = rooms[r] /\ room \in Room /\ SeatsOf(room)
      /\ Members(room) \subseteq Players /\ \A q \in Members(room) : roomNumber[q] = r
      /\ InPlace(room, Fighting) /\ Host(room) = p /\ InRoom(p)
  BY OwnRoom DEF HostScreen, InRoom, RoomOf, PlaceInv, IsHost
<1>2. PICK left \in PlayerRemoved(room, t) :
        rooms' = [rooms EXCEPT ![r] = [left EXCEPT !.kicked = @ \cup {t}]]
  BY DEF RoomLeaveKick
<1>3. t # p /\ LeaveRoom({t} \cap Members(room))
  BY DEF RoomLeaveKick
<1> DEFINE new == [left EXCEPT !.kicked = @ \cup {t}]
           S == {t} \cap Members(room)
<1>4. LobbyOrRoom' /\ Fighting' = Fighting \ S /\ \A q \in Players \ S : inMatch'[q] = inMatch[q]
  <2>1. S \in SUBSET Players
    OBVIOUS
  <2> QED
    BY <1>3, <2>1, LeaversInLobby
<1>5. left \in Room /\ Members(left) = Members(room) \ {t}
  BY <1>1, <1>2, RemovedExactly
<1>6. InPlace(left, Fighting \ {t})
  BY <1>1, <1>2, <1>3, RemovedInPlace
<1>7. InPlace(left, Fighting')
  BY <1>4, <1>5, <1>6, SameFighters
<1> HIDE DEF room
<1>8. InPlace(new, Fighting')
  <2>1. /\ new.players = left.players /\ new.observers = left.observers
        /\ new.kicked = left.kicked \cup {t} /\ new.started = left.started
    BY <1>5 DEF Room
  <2> HIDE DEF new
  <2>2. Members(new) = Members(left)
    BY <2>1 DEF Members
  <2> QED
    BY <1>5, <1>7, <2>1, <2>2 DEF InPlace, HasHost, Host
<1>9. \A q \in Players : roomNumber[q] \notin {r, NoRoom} => inMatch'[q] = inMatch[q]
  BY <1>1, <1>4
<1> HIDE DEF new
<1>10. rooms' = [rooms EXCEPT ![r] = new]
  BY <1>2 DEF new
<1> QED
  BY <1>1, <1>4, <1>8, <1>9, <1>10, OwnRoomInPlace

LEMMA ChangeHostInPlace ==
  ASSUME IInv, PlaceInv, NEW p \in Players, InWaitingRoom(p), HostScreen(p), NEW i, ChangeHost(p, i)
  PROVE  PlaceInv'
<1> DEFINE room == RoomOf(p)
           players == SwapHost(room.players, i)
           new == [room EXCEPT !.players = players]
<1>1. /\ room \in Room /\ InPlace(room, Fighting) /\ Host(room) = p /\ InRoom(p)
      /\ room.players \in Seq(Players) /\ IsInjective(room.players)
      /\ i \in DOMAIN room.players
  BY OwnRoom DEF HostScreen, InRoom, RoomOf, PlaceInv, IsHost, ChangeHost
<1>2. p \notin Fighting
  BY DEF InWaitingRoom, Fighting
<1>3. ToSet(players) = ToSet(room.players)
  BY <1>1, SeatsAfterSwap DEF SwapHost
<1>4. rooms' = [rooms EXCEPT ![roomNumber[p]] = new]
  BY DEF ChangeHost, RoomOf
<1>5. Fighting' = Fighting /\ LobbyOrRoom' /\ inMatch' = inMatch
  BY DEF ChangeHost, sessionVars, Fighting, LobbyOrRoom, PlaceInv
<1> HIDE DEF players, room
<1>6. /\ new.players = players /\ new.observers = room.observers
      /\ new.kicked = room.kicked /\ new.started = room.started
  BY <1>1 DEF Room
<1> HIDE DEF new
<1>7. InPlace(new, Fighting')
  BY <1>1, <1>2, <1>3, <1>5, <1>6 DEF InPlace, Members
<1> QED
  BY <1>1, <1>4, <1>5, <1>7, OwnRoomInPlace

\* Who switches teams is in the waiting room: it is not the host of a running match, and it
\* does not become the host of one, which has its host.
LEMMA SwitchInPlace ==
  ASSUME IInv, PlaceInv, NEW p \in Players, InWaitingRoom(p),
         PlayerToObserver(p) \/ ObserverToPlayer(p)
  PROVE  PlaceInv'
<1> DEFINE room == RoomOf(p)
<1>1. /\ room \in Room /\ InPlace(room, Fighting) /\ InRoom(p)
      /\ room.players \in Seq(Players) /\ room.observers \in Seq(Players)
      /\ IsInjective(room.players) /\ IsInjective(room.observers)
  BY OwnRoom DEF InWaitingRoom, InRoom, RoomOf, PlaceInv
<1>2. p \notin Fighting
  BY DEF InWaitingRoom, Fighting
<1>3. Fighting' = Fighting /\ LobbyOrRoom' /\ inMatch' = inMatch
  BY DEF PlayerToObserver, ObserverToPlayer, sessionVars, Fighting, LobbyOrRoom, PlaceInv
<1>4. ASSUME NEW s \in Seq(Players), IsInjective(s), p \in ToSet(s)
      PROVE  LET t == RemoveAt(s, IndexIn(s, p)) IN
             /\ ToSet(t) = ToSet(s) \ {p}
             /\ s[1] # p => t # <<>> /\ t[1] = s[1]
  <2> DEFINE i == IndexIn(s, p)
  <2>1. i \in DOMAIN s /\ s[i] = p
    BY <1>4 DEF IndexIn, ToSet
  <2> HIDE DEF i
  <2>2. ToSet(RemoveAt(s, i)) = ToSet(s) \ {p}
    BY <1>4, <2>1, SeatsAfterRemove
  <2>3. s[1] # p => RemoveAt(s, i) # <<>> /\ RemoveAt(s, i)[1] = s[1]
    BY <2>1, FirstStays
  <2> QED
    BY <2>2, <2>3 DEF i
<1>5. \E new : rooms' = [rooms EXCEPT ![roomNumber[p]] = new] /\ InPlace(new, Fighting)
  <2>1. CASE PlayerToObserver(p)
    <3> DEFINE players == RemoveAt(room.players, IndexIn(room.players, p))
               observers == Append(room.observers, p)
               new == [room EXCEPT !.players = players, !.observers = observers]
    <3>1. rooms' = [rooms EXCEPT ![roomNumber[p]] = new]
      BY <2>1, Zenon DEF PlayerToObserver
    <3>2. p \in ToSet(room.players)
      BY <2>1 DEF PlayerToObserver
    <3>3. /\ ToSet(players) = ToSet(room.players) \ {p}
          /\ room.players[1] # p => players # <<>> /\ players[1] = room.players[1]
      BY <1>1, <1>4, <3>2
    <3>4. ToSet(observers) = ToSet(room.observers) \cup {p}
      BY <1>1, SeatsAfterAppend
    <3> HIDE DEF players, observers, room
    <3>5. /\ new.players = players /\ new.observers = observers
          /\ new.kicked = room.kicked /\ new.started = room.started
      BY <1>1 DEF Room
    <3> HIDE DEF new
    <3>6. Members(new) = Members(room)
      BY <3>2, <3>3, <3>4, <3>5 DEF Members
    <3>7. InPlace(new, Fighting)
      BY <1>1, <1>2, <3>3, <3>5, <3>6 DEF InPlace, HasHost, Host
    <3> QED
      BY <3>1, <3>7
  <2>2. CASE ObserverToPlayer(p)
    <3> DEFINE players == Append(room.players, p)
               observers == RemoveAt(room.observers, IndexIn(room.observers, p))
               new == [room EXCEPT !.players = players, !.observers = observers]
    <3>1. rooms' = [rooms EXCEPT ![roomNumber[p]] = new]
      BY <2>2, Zenon DEF ObserverToPlayer
    <3>2. p \in ToSet(room.observers)
      BY <2>2 DEF ObserverToPlayer
    <3>3. /\ ToSet(players) = ToSet(room.players) \cup {p}
          /\ room.players # <<>> => players # <<>> /\ players[1] = room.players[1]
      <4>1. ToSet(players) = ToSet(room.players) \cup {p}
        BY <1>1, SeatsAfterAppend
      <4>2. room.players # <<>> => players # <<>> /\ players[1] = room.players[1]
        BY <1>1
      <4> QED
        BY <4>1, <4>2
    <3>4. ToSet(observers) = ToSet(room.observers) \ {p}
      BY <1>1, <1>4, <3>2
    <3> HIDE DEF players, observers, room
    <3>5. /\ new.players = players /\ new.observers = observers
          /\ new.kicked = room.kicked /\ new.started = room.started
      BY <1>1 DEF Room
    <3> HIDE DEF new
    <3>6. Members(new) = Members(room)
      BY <3>2, <3>3, <3>4, <3>5 DEF Members
    <3>7. InPlace(new, Fighting)
      BY <1>1, <1>2, <3>3, <3>5, <3>6 DEF InPlace, HasHost, Host
    <3> QED
      BY <3>1, <3>7
  <2> QED
    BY <2>1, <2>2
<1> QED
  BY <1>1, <1>3, <1>5, OwnRoomInPlace

\* The host starts the match with itself and those who are ready; others enter a running one.
LEMMA RoomStartInPlace ==
  ASSUME IInv, PlaceInv, NEW p \in Players, InRoom(p), HostScreen(p) \/ RoomOf(p).started,
         RoomStart(p)
  PROVE  PlaceInv'
<1> DEFINE room == RoomOf(p)
           entering == {p} \cup (IF room.started THEN {} ELSE room.ready)
           ready == IF room.started THEN room.ready \ {p} ELSE {}
           new == [room EXCEPT !.started = TRUE,
                               !.ready = IF room.started THEN @ \ {p} ELSE {}]
<1>1. /\ room \in Room /\ InPlace(room, Fighting) /\ HasHost(room)
      /\ \A q \in Members(room) : roomNumber[q] = roomNumber[p]
      /\ p \in Members(room) /\ room.ready \subseteq Members(room)
  BY OwnRoom DEF InRoom, RoomOf, PlaceInv, RoomStart, IInv, ReadyInside
<1>2. /\ rooms' = [rooms EXCEPT ![roomNumber[p]] = new]
      /\ inMatch' = [q \in Players |-> q \in entering \/ inMatch[q]]
      /\ UNCHANGED <<roomNumber, inLobby>>
  BY Zenon DEF RoomStart
<1>3. entering \subseteq Members(room)
  BY <1>1
<1>4. inMatch \in [Players -> BOOLEAN]
  BY DEF IInv, TypeOK
<1>5. room.started \/ Host(room) = p
  BY DEF HostScreen, IsHost
<1> HIDE DEF entering
<1>6. \A q \in Players : inMatch'[q] = (q \in entering \/ inMatch[q])
  BY <1>2
<1>7. \A q \in Players : roomNumber[q] \notin {roomNumber[p], NoRoom} => inMatch'[q] = inMatch[q]
  BY <1>1, <1>3, <1>4, <1>6
<1>8. Fighting \subseteq Fighting' /\ p \in Fighting'
  BY <1>6 DEF Fighting, entering
<1> HIDE DEF room
<1>9. /\ new.players = room.players /\ new.observers = room.observers
      /\ new.kicked = room.kicked /\ new.started
  BY <1>1 DEF Room
<1> HIDE DEF new
<1>10. InPlace(new, Fighting')
  BY <1>1, <1>5, <1>8, <1>9 DEF InPlace, HasHost, Host, Members
<1>11. LobbyOrRoom'
  BY <1>2 DEF LobbyOrRoom, PlaceInv
<1> QED
  BY <1>2, <1>7, <1>10, <1>11, OwnRoomInPlace

LEMMA MatchLeaveInPlace ==
  ASSUME IInv, PlaceInv, NEW p \in Players, MatchLeave(p)
  PROVE  PlaceInv'
<1>1. CASE IsHost(RoomOf(p), p) /\ RemoveHostFromMatch(roomNumber[p])
  BY <1>1, RemoveHostInPlace DEF MatchLeave
<1>2. CASE /\ ~IsHost(RoomOf(p), p)
           /\ inMatch' = [inMatch EXCEPT ![p] = FALSE]
           /\ rooms' = [rooms EXCEPT ![roomNumber[p]].ready = @ \ {p}]
           /\ UNCHANGED <<roomNumber, inLobby>>
  <2> DEFINE room == RoomOf(p)
             new == [room EXCEPT !.ready = @ \ {p}]
  <2>1. room \in Room /\ InPlace(room, Fighting) /\ Host(room) # p /\ InRoom(p)
    BY <1>2, OwnRoom DEF MatchLeave, InRoom, RoomOf, PlaceInv, IsHost
  <2>2. rooms' = [rooms EXCEPT ![roomNumber[p]] = new]
    BY <1>2 DEF RoomOf
  <2>3. Fighting' = Fighting \ {p} /\ \A q \in Players \ {p} : inMatch'[q] = inMatch[q]
    <3>1. inMatch \in [Players -> BOOLEAN]
      BY DEF IInv, TypeOK
    <3> QED
      BY <1>2, <3>1 DEF Fighting
  <2> HIDE DEF room
  <2>4. /\ new.players = room.players /\ new.observers = room.observers
        /\ new.kicked = room.kicked /\ new.started = room.started
    BY <2>1 DEF Room
  <2> HIDE DEF new
  <2>5. InPlace(new, Fighting')
    BY <2>1, <2>3, <2>4 DEF InPlace, HasHost, Host, Members
  <2>6. LobbyOrRoom'
    BY <1>2 DEF LobbyOrRoom, PlaceInv
  <2> QED
    BY <2>1, <2>2, <2>3, <2>5, <2>6, OwnRoomInPlace
<1> QED
  BY <1>1, <1>2 DEF MatchLeave

\* The end of a match takes every member out of it.
LEMMA MatchEndingInPlace ==
  ASSUME IInv, PlaceInv, NEW p \in Players, MatchEnding(p)
  PROVE  PlaceInv'
<1> DEFINE room == RoomOf(p)
           ending == {q \in Members(room) : inMatch[q]}
           new == [room EXCEPT !.started = FALSE, !.ready = @ \ ending]
<1>1. /\ room \in Room /\ InPlace(room, Fighting) /\ InRoom(p)
      /\ \A q \in Members(room) : roomNumber[q] = roomNumber[p]
  BY OwnRoom DEF MatchEnding, InRoom, RoomOf, PlaceInv
<1>2. /\ rooms' = [rooms EXCEPT ![roomNumber[p]] = new]
      /\ inMatch' = [q \in Players |-> q \notin ending /\ inMatch[q]]
      /\ UNCHANGED <<roomNumber, inLobby>>
  BY Zenon DEF MatchEnding
<1>3. inMatch \in [Players -> BOOLEAN]
  BY DEF IInv, TypeOK
<1> HIDE DEF room
<1>4. /\ \A q \in Players : inMatch'[q] = (q \notin ending /\ inMatch[q])
      /\ Members(room) \cap Fighting' = {}
  BY <1>2 DEF Fighting
<1>5. \A q \in Players : roomNumber[q] \notin {roomNumber[p], NoRoom} => inMatch'[q] = inMatch[q]
  BY <1>1, <1>3, <1>4
<1> HIDE DEF ending
<1>6. /\ new.players = room.players /\ new.observers = room.observers
      /\ new.kicked = room.kicked /\ ~new.started
  BY <1>1 DEF Room
<1> HIDE DEF new
<1>7. InPlace(new, Fighting')
  BY <1>1, <1>4, <1>6 DEF InPlace, Members
<1>8. LobbyOrRoom'
  BY <1>2 DEF LobbyOrRoom, PlaceInv
<1> QED
  BY <1>1, <1>2, <1>5, <1>7, <1>8, OwnRoomInPlace

\* Every request sent from the screen that offers it leaves everybody in place.
LEMMA PlayKeepsPlaces ==
  ASSUME NoWrap, IInv, PlaceInv, [PlayNext]_vars
  PROVE  PlaceInv'
<1>1. ASSUME UNCHANGED <<sessionVars, rooms>>
      PROVE  PlaceInv'
  BY <1>1, NoRoomInPlace DEF sessionVars, PlaceInv, LobbyOrRoom
<1>2. ASSUME NEW p \in Players, SessionStep(p)
      PROVE  PlaceInv'
  BY <1>1, <1>2, DisconnectInPlace DEF SessionStep, Connect, DisconnectUndefined, UndefinedRead
<1>3. ASSUME NEW p \in Players, InLobbyScreen(p), LobbyStep(p)
      PROVE  PlaceInv'
  BY <1>1, <1>3, RoomCreationInPlace, RoomJoinInPlace
     DEF LobbyStep, RoomInfoUndefined, UndefinedRead
<1>4. ASSUME NEW p \in Players, InWaitingRoom(p), WaitingRoomStep(p)
      PROVE  PlaceInv'
  <2>1. CASE RoomLeave(p)
    BY <1>4, <2>1, RemovePlayerInPlace DEF InWaitingRoom, RoomLeave
  <2>2. CASE PlayerToObserver(p) \/ ObserverToPlayer(p)
    BY <1>4, <2>2, SwitchInPlace
  <2> QED
    BY <1>4, <2>1, <2>2, SettingsInPlace DEF WaitingRoomStep
<1>5. ASSUME NEW p \in Players, InWaitingRoom(p), HostScreen(p), HostStep(p)
      PROVE  PlaceInv'
  BY <1>5, RoomLeaveKickInPlace, ChangeHostInPlace, SettingsInPlace DEF HostStep
<1>6. ASSUME NEW p \in Players, InWaitingRoom(p), HostScreen(p) \/ RoomOf(p).started, RoomStart(p)
      PROVE  PlaceInv'
  BY <1>6, RoomStartInPlace DEF InWaitingRoom
<1>7. ASSUME NEW p \in Players, MatchStep(p) \/ MatchEnding(p)
      PROVE  PlaceInv'
  BY <1>1, <1>7, MatchLeaveInPlace, MatchEndingInPlace DEF MatchStep, MatchUndefined, UndefinedRead
<1> QED
  BY <1>1, <1>2, <1>3, <1>4, <1>5, <1>6, <1>7 DEF PlayNext, vars, sessionVars

\* Wherever a player is by its session, it is by its room: in the lobby or in a room, in the
\* match of a room whose match runs and whose host is in it, and never in a room that kicked
\* it; for any number of players, as long as requests come from the screens that offer them.
THEOREM EverybodyStaysInPlace ==
  ASSUME NoWrap
  PROVE  PlaySpec => []EverybodyInPlace
<1>1. Init => PlaceInv
  BY DEF Init, PlaceInv, LobbyOrRoom
<1>2. IInv /\ PlaceInv /\ [PlayNext]_vars => IInv' /\ PlaceInv'
  BY PlayKeepsPlaces, PlayNextIsNext, NextPreserves
<1>3. IInv /\ PlaceInv => EverybodyInPlace
  BY PlacesOfAll
<1> QED
  BY <1>1, <1>2, <1>3, InitSatisfies, PTL DEF PlaySpec

----------------------------------------------------------------------------
(* The directory: the rooms implement RoomDirectory.  It lists the members *)
(* of each room by the vectors the room keeps.  By the invariant of the    *)
(* rooms these are the players whose sessions point to it, before and      *)
(* after a step; so that a step of the directory can be read off the       *)
(* numbers of the sessions and of the rooms, whatever was done to the      *)
(* vectors.                                                                *)

\* The directory, by what the sessions know
Dir == [r \in DOMAIN rooms |-> {p \in Players : roomNumber[p] = r}]

\* What a step does to the directory:
Kept == Dir' = Dir /\ idCounter' = idCounter
Left(p) == /\ \E r \in DOMAIN Dir : p \in Dir[r] /\ Dir' = [Dir EXCEPT ![r] = @ \ {p}]
           /\ idCounter' = idCounter
Closed(r) == /\ r \in DOMAIN Dir /\ Dir' = [x \in DOMAIN Dir \ {r} |-> Dir[x]]
             /\ idCounter' = idCounter
Entered(p) == /\ p \notin UNION {Dir[r] : r \in DOMAIN Dir}
              /\ \E r \in DOMAIN Dir : Dir' = [Dir EXCEPT ![r] = @ \cup {p}]
              /\ idCounter' = idCounter
Opened(p) == /\ p \notin UNION {Dir[r] : r \in DOMAIN Dir}
             /\ idCounter + 1 \in (0 .. NumberSpace - 1) \ DOMAIN Dir
             /\ idCounter' = idCounter + 1
             /\ Dir' = [r \in DOMAIN Dir \cup {idCounter + 1} |->
                          IF r = idCounter + 1 THEN {p} ELSE Dir[r]]
Discarded == /\ idCounter + 1 \in 0 .. NumberSpace - 1
             /\ idCounter' = idCounter + 1
             /\ Dir' = Dir

DirectoryStep ==
  \/ Kept \/ Discarded
  \/ \E p \in Players : Left(p) \/ Entered(p) \/ Opened(p)
  \/ \E r \in DOMAIN Dir : Closed(r)

\* The two directories are the same.
LEMMA DirectoryBySessions ==
  ASSUME IInv
  PROVE  [r \in DOMAIN rooms |-> Members(rooms[r])] = Dir
BY DEF IInv, MembersAgree, Dir

LEMMA DirectoryBySessionsNext ==
  ASSUME IInv'
  PROVE  [r \in DOMAIN rooms |-> Members(rooms[r])]' = Dir'
BY DEF IInv, MembersAgree, Members, Dir

----------------------------------------------------------------------------
(* Steps, by what becomes of the numbers *)

\* The numbers stay.
LEMMA NumbersKept ==
  ASSUME DOMAIN rooms' = DOMAIN rooms, UNCHANGED <<roomNumber, idCounter>>
  PROVE  Kept
BY DEF Kept, Dir

\* One player's number, or nobody's, is cleared.
LEMMA NumberCleared ==
  ASSUME IInv, NEW p \in Players, DOMAIN rooms' = DOMAIN rooms, idCounter' = idCounter,
         roomNumber' = [q \in Players |-> IF q \in {p} THEN NoRoom ELSE roomNumber[q]]
  PROVE  Kept \/ Left(p)
<1>1. roomNumber \in [Players -> 0 .. NumberSpace - 1]
      /\ \A r \in DOMAIN rooms : r # NoRoom
  BY Seats DEF IInv, TypeOK
<1>2. CASE roomNumber[p] = NoRoom
  <2>1. roomNumber' = roomNumber
    BY <1>1, <1>2
  <2> QED
    BY <2>1, NumbersKept
<1>3. CASE roomNumber[p] # NoRoom
  <2> DEFINE r == roomNumber[p]
  <2>1. r \in DOMAIN rooms
    BY <1>3 DEF IInv, MembersAgree
  <2>2. r \in DOMAIN Dir /\ p \in Dir[r]
    BY <2>1 DEF Dir
  <2>3. Dir' = [Dir EXCEPT ![r] = @ \ {p}]
    BY <1>1, <2>1 DEF Dir
  <2> QED
    BY <2>2, <2>3 DEF Left
<1> QED
  BY <1>2, <1>3

\* A room is closed, and its members' numbers are cleared.
LEMMA NumbersClosed ==
  ASSUME IInv, NEW r \in DOMAIN rooms, CloseRoom(r), idCounter' = idCounter
  PROVE  Closed(r)
<1>1. DOMAIN rooms' = DOMAIN rooms \ {r} /\ LeaveRoom(Members(rooms[r]))
  BY DEF CloseRoom
<1>2. /\ Members(rooms[r]) = {p \in Players : roomNumber[p] = r}
      /\ \A x \in DOMAIN rooms : x # NoRoom
  BY Seats
<1>3. \A x \in DOMAIN rooms' :
        {p \in Players : roomNumber'[p] = x} = {p \in Players : roomNumber[p] = x}
  BY <1>1, <1>2 DEF LeaveRoom
<1>4. Dir' = [x \in DOMAIN Dir \ {r} |-> Dir[x]]
  BY <1>1, <1>3 DEF Dir
<1> QED
  BY <1>4 DEF Closed, Dir

\* A player outside all rooms is given the number of one that is open.
LEMMA NumberGiven ==
  ASSUME IInv, NEW p \in Players, roomNumber[p] = NoRoom, NEW r \in DOMAIN rooms,
         DOMAIN rooms' = DOMAIN rooms, EnterRoom(p, r), idCounter' = idCounter
  PROVE  Entered(p)
<1>1. roomNumber \in [Players -> 0 .. NumberSpace - 1]
      /\ \A x \in DOMAIN rooms : x # NoRoom
  BY Seats DEF IInv, TypeOK
<1>2. p \notin UNION {Dir[x] : x \in DOMAIN Dir}
  BY <1>1 DEF Dir
<1>3. Dir' = [Dir EXCEPT ![r] = @ \cup {p}]
  BY <1>1 DEF Dir, EnterRoom
<1> QED
  BY <1>2, <1>3 DEF Entered, Dir

----------------------------------------------------------------------------
(* Room::removePlayer and Room::removeHostFromMatch *)

LEMMA RemovePlayerInDirectory ==
  ASSUME IInv, NEW p \in Players, InRoom(p), NEW S \in {{}, {p}},
         RemovePlayer(roomNumber[p], p, S), idCounter' = idCounter
  PROVE  Kept \/ Left(p) \/ Closed(roomNumber[p])
<1> DEFINE r == roomNumber[p]
<1>1. r \in DOMAIN rooms /\ p \in Members(rooms[r])
  BY Seats DEF InRoom
<1>2. \/ CloseRoom(r)
      \/ /\ DOMAIN rooms' = DOMAIN rooms
         /\ LeaveRoom(S \cup ({p} \cap Members(rooms[r])))
  BY DEF RemovePlayer
<1>3. CASE CloseRoom(r)
  BY <1>1, <1>3, NumbersClosed
<1>4. CASE DOMAIN rooms' = DOMAIN rooms /\ LeaveRoom(S \cup ({p} \cap Members(rooms[r])))
  <2>1. S \cup ({p} \cap Members(rooms[r])) = {p}
    BY <1>1
  <2>2. roomNumber' = [q \in Players |-> IF q \in {p} THEN NoRoom ELSE roomNumber[q]]
    BY <1>4, <2>1 DEF LeaveRoom
  <2> QED
    BY <1>4, <2>2, NumberCleared
<1> QED
  BY <1>2, <1>3, <1>4

LEMMA RemoveHostInDirectory ==
  ASSUME IInv, NEW p \in Players, InRoom(p), IsHost(RoomOf(p), p),
         RemoveHostFromMatch(roomNumber[p]), idCounter' = idCounter
  PROVE  Kept \/ Left(p) \/ Closed(roomNumber[p])
<1> DEFINE r == roomNumber[p]
<1>1. r \in DOMAIN rooms /\ Host(rooms[r]) = p
  BY DEF InRoom, RoomOf, IsHost
<1>2. CloseRoom(r) \/ (DOMAIN rooms' = DOMAIN rooms /\ LeaveRoom({p}))
  BY <1>1 DEF RemoveHostFromMatch
<1>3. CASE CloseRoom(r)
  BY <1>1, <1>3, NumbersClosed
<1>4. CASE DOMAIN rooms' = DOMAIN rooms /\ LeaveRoom({p})
  BY <1>4, NumberCleared DEF LeaveRoom
<1> QED
  BY <1>2, <1>3, <1>4

----------------------------------------------------------------------------
(* One lemma per kind of request *)

LEMMA DisconnectInDirectory ==
  ASSUME IInv, NEW p \in Players, Disconnect(p)
  PROVE  DirectoryStep
<1>1. idCounter' = idCounter
  BY DEF Disconnect
<1>2. CASE LeaveRoom({p}) /\ DOMAIN rooms' = DOMAIN rooms
  BY <1>1, <1>2, NumberCleared DEF LeaveRoom, DirectoryStep
<1>3. CASE InRoom(p) /\ IsHost(RoomOf(p), p) /\ RemoveHostFromMatch(roomNumber[p])
  BY <1>1, <1>3, RemoveHostInDirectory DEF DirectoryStep, Closed
<1>4. CASE InRoom(p) /\ RemovePlayer(roomNumber[p], p, {p})
  BY <1>1, <1>4, RemovePlayerInDirectory DEF DirectoryStep, Closed
<1> QED
  BY <1>2, <1>3, <1>4 DEF Disconnect

\* handleRoomCreation: the next number is free, as it has not been handed out.
LEMMA RoomCreationInDirectory ==
  ASSUME NoWrap, IInv, NEW p \in Players, InLobbyScreen(p), RoomCreation(p)
  PROVE  DirectoryStep
<1> DEFINE r == (idCounter + 1) % NumberSpace
<1>1. idCounter \in Nat /\ idCounter + 1 \in 1 .. NumberSpace - 1
  BY ConstantsAssumption DEF NoWrap, IInv, TypeOK, RoomCreation
<1>2. r = idCounter + 1
  BY <1>1, ConstantsAssumption
<1> HIDE DEF r
<1>3. idCounter' = r /\ roomNumber[p] = NoRoom
  BY DEF RoomCreation, InLobbyScreen, r
<1>4. r \notin DOMAIN rooms
  BY <1>1, <1>2 DEF IInv, NumbersInOrder
<1>5. CASE UNCHANGED <<rooms, sessionVars>>
  <2>1. Dir' = Dir
    BY <1>5 DEF sessionVars, Dir
  <2> QED
    BY <1>1, <1>2, <1>3, <2>1 DEF Discarded, DirectoryStep
<1>6. CASE EnterRoom(p, r) /\ DOMAIN rooms' = DOMAIN rooms \cup {r}
  <2>1. roomNumber \in [Players -> 0 .. NumberSpace - 1]
        /\ \A x \in DOMAIN rooms : x # NoRoom
    BY Seats DEF IInv, TypeOK
  <2>2. \A q \in Players : roomNumber[q] # r
    BY <1>1, <1>2, <1>4 DEF IInv, MembersAgree, NoRoom
  <2>3. p \notin UNION {Dir[x] : x \in DOMAIN Dir}
    BY <1>3, <2>1 DEF Dir
  <2>4. {q \in Players : roomNumber'[q] = r} = {p}
    BY <1>6, <2>1, <2>2 DEF EnterRoom
  <2>5. \A x \in DOMAIN rooms :
          {q \in Players : roomNumber'[q] = x} = {q \in Players : roomNumber[q] = x}
    BY <1>3, <1>4, <1>6, <2>1 DEF EnterRoom
  <2>6. Dir' = [x \in DOMAIN Dir \cup {r} |-> IF x = r THEN {p} ELSE Dir[x]]
    BY <1>4, <1>6, <2>4, <2>5 DEF Dir
  <2>7. idCounter + 1 \in (0 .. NumberSpace - 1) \ DOMAIN Dir
    BY <1>1, <1>2, <1>4 DEF Dir
  <2>8. Opened(p)
    BY <1>2, <1>3, <2>3, <2>6, <2>7 DEF Opened
  <2> QED
    BY <2>8 DEF DirectoryStep
<1> QED
  BY <1>5, <1>6 DEF RoomCreation, r

LEMMA RoomJoinInDirectory ==
  ASSUME IInv, NEW p \in Players, InLobbyScreen(p), NEW r \in DOMAIN rooms, RoomJoin(p, r)
  PROVE  DirectoryStep
<1>1. /\ roomNumber[p] = NoRoom /\ EnterRoom(p, r) /\ idCounter' = idCounter
      /\ DOMAIN rooms' = DOMAIN rooms
  BY DEF InLobbyScreen, RoomJoin, AddPlayer, AddObserverPlayer
<1> QED
  BY <1>1, NumberGiven DEF DirectoryStep

\* The host's kick and /kick clear the number of the target, who may be in another room when
\* the host names it.
LEMMA KicksInDirectory ==
  ASSUME IInv, NEW p \in Players, NEW t \in Players, RoomLeaveKick(p, t) \/ KickPlayer(p, t)
  PROVE  DirectoryStep
<1>1. DOMAIN rooms' = DOMAIN rooms /\ idCounter' = idCounter
  BY DEF RoomLeaveKick, KickPlayer
<1>2. roomNumber \in [Players -> 0 .. NumberSpace - 1]
  BY DEF IInv, TypeOK
<1>3. \/ roomNumber' = roomNumber
      \/ roomNumber' = [q \in Players |-> IF q \in {t} THEN NoRoom ELSE roomNumber[q]]
  <2>1. CASE RoomLeaveKick(p, t)
    <3>1. LeaveRoom({t} \cap Members(RoomOf(p)))
      BY <2>1 DEF RoomLeaveKick
    <3>2. {t} \cap Members(RoomOf(p)) \in {{}, {t}}
      OBVIOUS
    <3> QED
      BY <1>2, <3>1, <3>2 DEF LeaveRoom
  <2>2. CASE KickPlayer(p, t)
    <3>1. roomNumber' = [roomNumber EXCEPT ![t] = NoRoom]
      BY <2>2 DEF KickPlayer
    <3> QED
      BY <1>2, <3>1
  <2> QED
    BY <2>1, <2>2
<1> QED
  BY <1>1, <1>3, NumbersKept, NumberCleared DEF DirectoryStep

\* Requests that move nobody in or out of a room.
LEMMA OthersInDirectory ==
  ASSUME NEW p \in Players,
         \/ Connect(p) \/ UndefinedRead
         \/ PlayerToObserver(p) \/ ObserverToPlayer(p)
         \/ \E isReady \in BOOLEAN : PlayerState(p, isReady)
         \/ \E i \in 1 .. Cardinality(Players) : ChangeHost(p, i)
         \/ \E n \in TeamSizes : SetPlayersPerTeam(p, n)
         \/ SwitchObserverMode(p) \/ RoomStart(p) \/ MatchEnding(p)
  PROVE  DirectoryStep
<1>1. DOMAIN rooms' = DOMAIN rooms /\ UNCHANGED <<roomNumber, idCounter>>
  BY DEF Connect, UndefinedRead, PlayerToObserver, ObserverToPlayer, PlayerState, ChangeHost,
         SetPlayersPerTeam, SwitchObserverMode, RoomStart, MatchEnding, sessionVars
<1> QED
  BY <1>1, NumbersKept DEF DirectoryStep

LEMMA MatchLeaveInDirectory ==
  ASSUME IInv, NEW p \in Players, MatchLeave(p)
  PROVE  DirectoryStep
<1>1. InRoom(p) /\ idCounter' = idCounter
  BY DEF MatchLeave
<1>2. CASE IsHost(RoomOf(p), p) /\ RemoveHostFromMatch(roomNumber[p])
  BY <1>1, <1>2, RemoveHostInDirectory DEF DirectoryStep, Closed
<1>3. CASE DOMAIN rooms' = DOMAIN rooms /\ UNCHANGED roomNumber
  BY <1>1, <1>3, NumbersKept DEF DirectoryStep
<1> QED
  BY <1>2, <1>3 DEF MatchLeave

----------------------------------------------------------------------------
(* The refinement *)

\* Every step of the server is one of the directory, or changes nothing in it.
LEMMA NextInDirectory ==
  ASSUME NoWrap, IInv, [Next]_vars
  PROVE  DirectoryStep
<1>1. CASE UNCHANGED vars
  BY <1>1, NumbersKept DEF vars, DirectoryStep
<1>2. ASSUME NEW p \in Players, SessionStep(p)
      PROVE  DirectoryStep
  BY <1>2, DisconnectInDirectory, OthersInDirectory DEF SessionStep, DisconnectUndefined
<1>3. ASSUME NEW p \in Players, InLobbyScreen(p), LobbyStep(p)
      PROVE  DirectoryStep
  BY <1>3, RoomCreationInDirectory, RoomJoinInDirectory, OthersInDirectory
     DEF LobbyStep, RoomInfoUndefined
<1>4. ASSUME NEW p \in Players, WaitingRoomStep(p)
      PROVE  DirectoryStep
  <2>1. ASSUME RoomLeave(p)
        PROVE  DirectoryStep
    BY <2>1, RemovePlayerInDirectory DEF RoomLeave, DirectoryStep, Closed
  <2> QED
    BY <1>4, <2>1, OthersInDirectory DEF WaitingRoomStep
<1>5. ASSUME NEW p \in Players, HostStep(p)
      PROVE  DirectoryStep
  BY <1>5, KicksInDirectory, OthersInDirectory DEF HostStep
<1>6. ASSUME NEW p \in Players, RoomStart(p) \/ MatchStep(p) \/ MatchEnding(p)
      PROVE  DirectoryStep
  BY <1>6, MatchLeaveInDirectory, OthersInDirectory DEF MatchStep, MatchUndefined
<1>7. ASSUME NEW p \in Players, ModeratorStep(p)
      PROVE  DirectoryStep
  <2>1. ASSUME Breakroom(p)
        PROVE  DirectoryStep
    <3>1. roomNumber[p] \in DOMAIN rooms /\ CloseRoom(roomNumber[p]) /\ idCounter' = idCounter
      BY <2>1 DEF Breakroom, InRoom
    <3> QED
      BY <3>1, NumbersClosed DEF DirectoryStep, Closed
  <2> QED
    BY <1>7, <2>1, KicksInDirectory DEF ModeratorStep
<1> QED
  BY <1>1, <1>2, <1>3, <1>4, <1>5, <1>6, <1>7 DEF Next

\* The same in the words of RoomDirectory.
LEMMA StepIsDirectoryStep ==
  ASSUME IInv, IInv', DirectoryStep
  PROVE  [Directory!Next]_(Directory!vars)
<1> DEFINE D == [r \in DOMAIN rooms |-> Members(rooms[r])]
<1>1. D = Dir /\ D' = Dir'
  BY DirectoryBySessions, DirectoryBySessionsNext
<1>2. CASE Kept
  BY <1>1, <1>2 DEF Kept, Directory!vars
<1>3. CASE Discarded
  BY <1>1, <1>3 DEF Discarded, Directory!Next, Directory!Discard
<1>4. ASSUME NEW p \in Players, Left(p)
      PROVE  Directory!Next
  BY <1>1, <1>4 DEF Left, Directory!Next, Directory!Exit
<1>5. ASSUME NEW p \in Players, Entered(p)
      PROVE  Directory!Next
  <2>1. p \notin Directory!Inside
    BY <1>1, <1>5 DEF Entered, Directory!Inside
  <2>2. PICK r \in DOMAIN Dir : Dir' = [Dir EXCEPT ![r] = @ \cup {p}]
    BY <1>5 DEF Entered
  <2>3. r \in DOMAIN D /\ D' = [D EXCEPT ![r] = @ \cup {p}]
    BY <1>1, <2>2
  <2>4. Directory!Enter(p, r)
    BY <1>5, <2>1, <2>3 DEF Entered, Directory!Enter
  <2> QED
    BY <2>3, <2>4 DEF Directory!Next
<1>6. ASSUME NEW p \in Players, Opened(p)
      PROVE  Directory!Next
  BY <1>1, <1>6 DEF Opened, Directory!Next, Directory!Open, Directory!Inside
<1>7. ASSUME NEW r \in DOMAIN Dir, Closed(r)
      PROVE  Directory!Next
  BY <1>1, <1>7 DEF Closed, Directory!Next, Directory!Close
<1> QED
  BY <1>2, <1>3, <1>4, <1>5, <1>6, <1>7 DEF DirectoryStep

\* The server starts with an empty directory.
LEMMA InitIsEmptyDirectory == Init => Directory!Init
<1> SUFFICES ASSUME Init PROVE Directory!Init
  OBVIOUS
<1>1. rooms = << >> /\ idCounter = 0
  BY DEF Init
<1>2. [r \in DOMAIN rooms |-> Members(rooms[r])] = << >>
  BY <1>1
<1> QED
  BY <1>1, <1>2 DEF Directory!Init

\* The table of rooms implements the abstract directory: numbers are given in order and
\* never twice, an open room is not replaced, and a player enters a room only from outside
\* all of them, one at a time; whatever screens the requests come from.
THEOREM RoomsImplementDirectory ==
  ASSUME NoWrap
  PROVE  Spec => ImplementsDirectory
<1>1. IInv /\ IInv' /\ [Next]_vars => [Directory!Next]_(Directory!vars)
  BY NextInDirectory, StepIsDirectoryStep
<1> QED
  BY <1>1, InitIsEmptyDirectory, InvariantHolds, PTL DEF Spec, ImplementsDirectory, Directory!Spec

\* So it does when clients behave.
THEOREM RoomsImplementDirectoryInPlay ==
  ASSUME NoWrap
  PROVE  PlaySpec => ImplementsDirectory
<1>1. IInv /\ IInv' /\ [PlayNext]_vars => [Directory!Next]_(Directory!vars)
  BY NextInDirectory, StepIsDirectoryStep, PlayNextIsNext
<1> QED
  BY <1>1, InitIsEmptyDirectory, InvariantHoldsInPlay, PTL
     DEF PlaySpec, ImplementsDirectory, Directory!Spec

----------------------------------------------------------------------------
(* Who keeps a seat *)

Sits(p) == InRoom(p) /\ p \in ToSet(RoomOf(p).players)
Watches(p) == InRoom(p) /\ p \in ToSet(RoomOf(p).observers)

\* Those who do not leave, except the ones in S, stay where they are.
SeatsKept(S) ==
  \A q \in Players \ S :
    \/ roomNumber'[q] = NoRoom
    \/ /\ roomNumber'[q] = roomNumber[q]
       /\ Sits(q)' <=> Sits(q)
       /\ Watches(q)' <=> Watches(q)

\* A host that does not leave stays the host, unless it is in S.
HostsKept(S) ==
  \A q \in Players \ S : HostScreen(q) => roomNumber'[q] = NoRoom \/ HostScreen(q)'

\* A room that has become another one, for those who were in it before
KeepsItsOwn(room, new, S) ==
  \A q \in Players \ S :
    /\ q \in ToSet(new.players) <=> q \in ToSet(room.players)
    /\ q \in ToSet(new.observers) <=> q \in ToSet(room.observers)

KeepsItsHost(room, new, S) ==
  HasHost(room) /\ Host(room) \notin S => HasHost(new) /\ Host(new) = Host(room)

LEMMA SeatsKeptInRoom ==
  ASSUME IInv, NEW r \in DOMAIN rooms, NEW new, rooms' = [rooms EXCEPT ![r] = new], NEW S,
         KeepsItsOwn(rooms[r], new, S),
         \A q \in Players \ S : roomNumber'[q] \in {roomNumber[q], NoRoom}
  PROVE  SeatsKept(S)
<1> SUFFICES ASSUME NEW q \in Players \ S, roomNumber'[q] # NoRoom
             PROVE  /\ roomNumber'[q] = roomNumber[q]
                    /\ Sits(q)' <=> Sits(q)
                    /\ Watches(q)' <=> Watches(q)
  BY DEF SeatsKept
<1>1. roomNumber'[q] = roomNumber[q] /\ roomNumber[q] \in DOMAIN rooms
  BY DEF IInv, MembersAgree
<1>2. /\ DOMAIN rooms' = DOMAIN rooms /\ rooms'[r] = new
      /\ \A x \in DOMAIN rooms : x # r => rooms'[x] = rooms[x]
  BY DEF IInv, TypeOK
<1>3. CASE roomNumber[q] = r
  BY <1>1, <1>2, <1>3 DEF KeepsItsOwn, Sits, Watches, InRoom, RoomOf
<1>4. CASE roomNumber[q] # r
  <2>1. rooms'[roomNumber[q]] = rooms[roomNumber[q]]
    BY <1>1, <1>2, <1>4
  <2> QED
    BY <1>1, <1>2, <2>1 DEF Sits, Watches, InRoom, RoomOf
<1> QED
  BY <1>1, <1>3, <1>4

LEMMA HostsKeptInRoom ==
  ASSUME IInv, NEW r \in DOMAIN rooms, NEW new, rooms' = [rooms EXCEPT ![r] = new], NEW S,
         KeepsItsHost(rooms[r], new, S),
         \A q \in Players \ S : roomNumber'[q] \in {roomNumber[q], NoRoom}
  PROVE  HostsKept(S)
<1> SUFFICES ASSUME NEW q \in Players \ S, HostScreen(q), roomNumber'[q] # NoRoom
             PROVE  HostScreen(q)'
  BY DEF HostsKept
<1>1. roomNumber'[q] = roomNumber[q] /\ roomNumber[q] \in DOMAIN rooms /\ roomNumber[q] # NoRoom
  BY DEF IInv, MembersAgree
<1>2. /\ DOMAIN rooms' = DOMAIN rooms /\ rooms'[r] = new
      /\ \A x \in DOMAIN rooms : x # r => rooms'[x] = rooms[x]
  BY DEF IInv, TypeOK
<1>3. /\ HasHost(rooms[roomNumber[q]]) /\ Host(rooms[roomNumber[q]]) = q
      /\ q \notin S
  BY DEF HostScreen, RoomOf, IsHost
<1>4. HasHost(rooms'[roomNumber[q]]) /\ Host(rooms'[roomNumber[q]]) = q
  BY <1>1, <1>2, <1>3 DEF KeepsItsHost
<1> QED
  BY <1>1, <1>2, <1>4 DEF HostScreen, InRoom, RoomOf, IsHost, HasHost, Host

\* Nothing moves where the table is not touched.
LEMMA SeatsKeptWithoutRooms ==
  ASSUME IInv, UNCHANGED rooms, \A q \in Players : roomNumber'[q] \in {roomNumber[q], NoRoom}
  PROVE  SeatsKept({}) /\ HostsKept({})
BY DEF SeatsKept, HostsKept, Sits, Watches, HostScreen, InRoom, RoomOf, IsHost, Host, HasHost

\* Nor for those outside a room that is closed
LEMMA SeatsKeptByClosing ==
  ASSUME IInv, NEW r \in DOMAIN rooms, CloseRoom(r)
  PROVE  SeatsKept({}) /\ HostsKept({})
<1>1. \A q \in Players : roomNumber'[q] = IF q \in Members(rooms[r]) THEN NoRoom ELSE roomNumber[q]
  BY DEF CloseRoom, LeaveRoom
<1>2. \A q \in Players : roomNumber'[q] # NoRoom =>
        /\ roomNumber'[q] = roomNumber[q] /\ roomNumber[q] # r
        /\ roomNumber[q] \in DOMAIN rooms
  BY <1>1, Seats DEF IInv, MembersAgree
<1>3. \A x \in DOMAIN rooms \ {r} : x \in DOMAIN rooms' /\ rooms'[x] = rooms[x]
  BY DEF CloseRoom
<1> QED
  BY <1>2, <1>3 DEF SeatsKept, HostsKept, Sits, Watches, HostScreen, InRoom, RoomOf, IsHost, Host, HasHost

\* Room::removePlayer: the others keep their seats, and the host its room.
LEMMA RemovedKeeps ==
  ASSUME NEW room \in Room, SeatsOf(room), NEW p \in Players, NEW left \in PlayerRemoved(room, p)
  PROVE  KeepsItsOwn(room, left, {p}) /\ KeepsItsHost(room, left, {p})
<1>1. left \in Room /\ SeatsOf(left) /\ Members(left) = Members(room) \ {p}
  BY RemovedExactly
<1>2. KeepsItsHost(room, left, {p})
  BY RemovedRoom DEF KeepsItsHost
<1>3. left.observers = room.observers \/ left.players = room.players
  <2>1. CASE p \in ToSet(room.players) /\ IsHost(room, p) /\ Successors(room) # {}
    <3>1. PICK i \in Successors(room) : left = HostReplacedBy(room, i)
      BY <2>1 DEF PlayerRemoved
    <3> QED
      BY <3>1, SuccessorSitsFirst
  <2>2. CASE p \in ToSet(room.players) /\ ~(IsHost(room, p) /\ Successors(room) # {})
    <3>1. left = PlayerErased(room, p)
      BY <2>2 DEF PlayerRemoved
    <3> QED
      BY <2>2, <3>1, ErasedRoom
  <2>3. CASE p \notin ToSet(room.players) /\ p \in ToSet(room.observers)
    <3>1. left = ObserverErased(room, p)
      BY <2>3 DEF PlayerRemoved
    <3> QED
      BY <2>3, <3>1, ErasedRoom
  <2>4. CASE p \notin Members(room)
    BY <2>4 DEF PlayerRemoved, Members
  <2> QED
    BY <2>1, <2>2, <2>3, <2>4 DEF Members
<1> QED
  BY <1>1, <1>2, <1>3 DEF KeepsItsOwn, SeatsOf, Members

\* Whoever leaves needs no exception.
LEMMA LeaverGone ==
  ASSUME NEW p \in Players, roomNumber'[p] = NoRoom
  PROVE  /\ SeatsKept({p}) => SeatsKept({})
         /\ HostsKept({p}) => HostsKept({})
BY DEF SeatsKept, HostsKept

LEMMA RemovalKeepsSeats ==
  ASSUME IInv, NEW p \in Players, InRoom(p), NEW left \in PlayerRemoved(RoomOf(p), p), NEW new,
         new.players = left.players, new.observers = left.observers,
         rooms' = [rooms EXCEPT ![roomNumber[p]] = new], LeaveRoom({p})
  PROVE  SeatsKept({}) /\ HostsKept({})
<1> DEFINE r == roomNumber[p]
<1>1. r \in DOMAIN rooms /\ RoomOf(p) = rooms[r] /\ rooms[r] \in Room /\ SeatsOf(rooms[r])
  BY Seats DEF InRoom, RoomOf
<1>2. KeepsItsOwn(rooms[r], left, {p}) /\ KeepsItsHost(rooms[r], left, {p})
  BY <1>1, RemovedKeeps
<1>3. KeepsItsOwn(rooms[r], new, {p}) /\ KeepsItsHost(rooms[r], new, {p})
  BY <1>2 DEF KeepsItsOwn, KeepsItsHost, HasHost, Host
<1>4. /\ \A q \in Players : roomNumber'[q] \in {roomNumber[q], NoRoom}
      /\ roomNumber'[p] = NoRoom
  BY DEF LeaveRoom
<1>5. SeatsKept({p}) /\ HostsKept({p})
  BY <1>1, <1>3, <1>4, SeatsKeptInRoom, HostsKeptInRoom
<1> QED
  BY <1>4, <1>5, LeaverGone

LEMMA RemovePlayerKeepsSeats ==
  ASSUME IInv, NEW p \in Players, InRoom(p), NEW S \in {{}, {p}}, RemovePlayer(roomNumber[p], p, S)
  PROVE  SeatsKept({}) /\ HostsKept({})
<1> DEFINE r == roomNumber[p]
<1>1. r \in DOMAIN rooms /\ RoomOf(p) = rooms[r] /\ p \in Members(rooms[r])
  BY Seats DEF InRoom, RoomOf
<1>2. PICK left \in PlayerRemoved(rooms[r], p) :
        \/ CloseRoom(r)
        \/ rooms' = [rooms EXCEPT ![r] = left] /\ LeaveRoom(S \cup ({p} \cap Members(rooms[r])))
  BY DEF RemovePlayer
<1>3. S \cup ({p} \cap Members(rooms[r])) = {p}
  BY <1>1
<1> QED
  BY <1>1, <1>2, <1>3, SeatsKeptByClosing, RemovalKeepsSeats

LEMMA RemoveHostKeepsSeats ==
  ASSUME IInv, NEW p \in Players, InRoom(p), HasHost(RoomOf(p)), IsHost(RoomOf(p), p),
         RemoveHostFromMatch(roomNumber[p])
  PROVE  SeatsKept({}) /\ HostsKept({})
<1> DEFINE r == roomNumber[p]
           room == rooms[r]
<1>1. /\ r \in DOMAIN rooms /\ RoomOf(p) = room /\ Host(room) = p
      /\ room \in Room /\ room.players \in Seq(Players)
  BY Seats DEF InRoom, RoomOf, IsHost, Room
<1>2. p \in ToSet(room.players)
  BY <1>1 DEF HasHost, Host, ToSet
<1>3. SuccessorsInMatch(room) \subseteq Successors(room)
  BY DEF SuccessorsInMatch
<1>4. \/ CloseRoom(r)
      \/ \E i \in Successors(room), ongoing \in {room.started /\ TRUE, room.started /\ FALSE} :
           /\ rooms' = [rooms EXCEPT ![r] = [HostReplacedBy(room, i) EXCEPT !.started = ongoing]]
           /\ LeaveRoom({Host(room)})
  <2>1. CASE \E i \in SuccessorsInMatch(room) :
               /\ rooms' = [rooms EXCEPT ![r] =
                     [HostReplacedBy(room, i) EXCEPT !.started = room.started /\ TRUE]]
               /\ LeaveRoom({Host(room)})
    BY <1>3, <2>1
  <2>2. CASE \E i \in Successors(room) :
               /\ rooms' = [rooms EXCEPT ![r] =
                     [HostReplacedBy(room, i) EXCEPT !.started = room.started /\ FALSE]]
               /\ LeaveRoom({Host(room)})
    BY <2>2
  <2> QED
    BY <2>1, <2>2, Zenon DEF RemoveHostFromMatch
<1>5. ASSUME NEW i \in Successors(room), NEW ongoing,
             rooms' = [rooms EXCEPT ![r] = [HostReplacedBy(room, i) EXCEPT !.started = ongoing]],
             LeaveRoom({Host(room)})
      PROVE  SeatsKept({}) /\ HostsKept({})
  <2> DEFINE left == HostReplacedBy(room, i)
             new == [left EXCEPT !.started = ongoing]
  <2>1. left \in PlayerRemoved(RoomOf(p), p)
    BY <1>1, <1>2, <1>5 DEF PlayerRemoved, IsHost
  <2>2. new.players = left.players /\ new.observers = left.observers
    OBVIOUS
  <2>3. rooms' = [rooms EXCEPT ![roomNumber[p]] = new] /\ LeaveRoom({p})
    BY <1>1, <1>5
  <2> HIDE DEF left, new
  <2> QED
    BY <2>1, <2>2, <2>3, RemovalKeepsSeats
<1> QED
  BY <1>1, <1>4, <1>5, SeatsKeptByClosing

LEMMA DisconnectKeepsSeats ==
  ASSUME IInv, NEW p \in Players, Disconnect(p)
  PROVE  SeatsKept({}) /\ HostsKept({})
<1>1. CASE LeaveRoom({p}) /\ UNCHANGED rooms
  <2>1. \A q \in Players : roomNumber'[q] \in {roomNumber[q], NoRoom}
    BY <1>1 DEF LeaveRoom
  <2> QED
    BY <1>1, <2>1, SeatsKeptWithoutRooms
<1>2. CASE InRoom(p) /\ HasHost(RoomOf(p)) /\ IsHost(RoomOf(p), p) /\ RemoveHostFromMatch(roomNumber[p])
  BY <1>2, RemoveHostKeepsSeats
<1>3. CASE InRoom(p) /\ (\E left \in PlayerRemoved(RoomOf(p), p) :
                           rooms' = [rooms EXCEPT ![roomNumber[p]] = left]) /\ LeaveRoom({p})
  BY <1>3, RemovalKeepsSeats
<1>4. CASE InRoom(p) /\ RemovePlayer(roomNumber[p], p, {p})
  BY <1>4, RemovePlayerKeepsSeats
<1> QED
  BY <1>1, <1>2, <1>3, <1>4 DEF Disconnect

\* One room changes, and nobody leaves.
LEMMA EditKeepsSeats ==
  ASSUME IInv, NEW p \in Players, InRoom(p), NEW new,
         rooms' = [rooms EXCEPT ![roomNumber[p]] = new], UNCHANGED roomNumber,
         new.players = RoomOf(p).players, new.observers = RoomOf(p).observers
  PROVE  SeatsKept({}) /\ HostsKept({})
<1> DEFINE r == roomNumber[p]
<1>1. r \in DOMAIN rooms /\ RoomOf(p) = rooms[r]
  BY DEF InRoom, RoomOf
<1>2. KeepsItsOwn(rooms[r], new, {}) /\ KeepsItsHost(rooms[r], new, {})
  BY <1>1 DEF KeepsItsOwn, KeepsItsHost, HasHost, Host
<1>3. \A q \in Players : roomNumber'[q] \in {roomNumber[q], NoRoom}
  OBVIOUS
<1> QED
  BY <1>1, <1>2, <1>3, SeatsKeptInRoom, HostsKeptInRoom

\* handlePlayerState, settings, handleRoomStart and handleMatchEnding move nobody.
LEMMA EditsKeepSeats ==
  ASSUME IInv, NEW p \in Players,
         \/ PlayerState(p, TRUE)
         \/ \E n \in TeamSizes : SetPlayersPerTeam(p, n)
         \/ RoomStart(p)
         \/ MatchEnding(p)
  PROVE  SeatsKept({}) /\ HostsKept({})
<1> DEFINE room == RoomOf(p)
<1>1. /\ InRoom(p) /\ UNCHANGED roomNumber
  BY DEF PlayerState, SetPlayersPerTeam, RoomStart, MatchEnding, sessionVars
<1>2. room \in Room
  BY <1>1, OwnRoom
<1>3. ASSUME NEW new, rooms' = [rooms EXCEPT ![roomNumber[p]] = new],
             new.players = room.players, new.observers = room.observers
      PROVE  SeatsKept({}) /\ HostsKept({})
  BY <1>1, <1>3, EditKeepsSeats
<1> HIDE DEF room
<1>4. ASSUME NEW ready, rooms' = [rooms EXCEPT ![roomNumber[p]] = [room EXCEPT !.ready = ready]]
      PROVE  SeatsKept({}) /\ HostsKept({})
  <2> DEFINE new == [room EXCEPT !.ready = ready]
  <2>1. new.players = room.players /\ new.observers = room.observers
    BY <1>2 DEF Room
  <2>2. rooms' = [rooms EXCEPT ![roomNumber[p]] = new]
    BY <1>4
  <2> HIDE DEF new
  <2> QED
    BY <1>3, <2>1, <2>2
<1>5. ASSUME NEW perTeam, rooms' = [rooms EXCEPT ![roomNumber[p]] = [room EXCEPT !.perTeam = perTeam]]
      PROVE  SeatsKept({}) /\ HostsKept({})
  <2> DEFINE new == [room EXCEPT !.perTeam = perTeam]
  <2>1. new.players = room.players /\ new.observers = room.observers
    BY <1>2 DEF Room
  <2>2. rooms' = [rooms EXCEPT ![roomNumber[p]] = new]
    BY <1>5
  <2> HIDE DEF new
  <2> QED
    BY <1>3, <2>1, <2>2
<1>6. ASSUME NEW started, NEW ready,
             rooms' = [rooms EXCEPT ![roomNumber[p]] =
                         [room EXCEPT !.started = started, !.ready = ready]]
      PROVE  SeatsKept({}) /\ HostsKept({})
  <2> DEFINE new == [room EXCEPT !.started = started, !.ready = ready]
  <2>1. new.players = room.players /\ new.observers = room.observers
    BY <1>2 DEF Room
  <2>2. rooms' = [rooms EXCEPT ![roomNumber[p]] = new]
    BY <1>6
  <2> HIDE DEF new
  <2> QED
    BY <1>3, <2>1, <2>2
<1>7. CASE PlayerState(p, TRUE)
  BY <1>4, <1>7, Zenon DEF PlayerState, RoomOf, room
<1>8. ASSUME NEW n \in TeamSizes, SetPlayersPerTeam(p, n)
      PROVE  SeatsKept({}) /\ HostsKept({})
  BY <1>5, <1>8, Zenon DEF SetPlayersPerTeam, RoomOf, room
<1>9. CASE RoomStart(p)
  BY <1>6, <1>9, Zenon DEF RoomStart, room
<1>10. CASE MatchEnding(p)
  BY <1>6, <1>10, Zenon DEF MatchEnding, room
<1> QED
  BY <1>7, <1>8, <1>9, <1>10

LEMMA MatchLeaveKeepsSeats ==
  ASSUME IInv, NEW p \in Players, MatchLeave(p)
  PROVE  SeatsKept({}) /\ HostsKept({})
<1>1. InRoom(p) /\ HasHost(RoomOf(p))
  BY DEF MatchLeave
<1>2. CASE IsHost(RoomOf(p), p) /\ RemoveHostFromMatch(roomNumber[p])
  BY <1>1, <1>2, RemoveHostKeepsSeats
<1>3. CASE /\ rooms' = [rooms EXCEPT ![roomNumber[p]].ready = @ \ {p}]
           /\ UNCHANGED <<roomNumber, inLobby>>
  <2> DEFINE new == [RoomOf(p) EXCEPT !.ready = @ \ {p}]
  <2>1. rooms' = [rooms EXCEPT ![roomNumber[p]] = new]
    BY <1>3 DEF RoomOf
  <2>2. new.players = RoomOf(p).players /\ new.observers = RoomOf(p).observers
    OBVIOUS
  <2> HIDE DEF new
  <2> QED
    BY <1>1, <1>3, <2>1, <2>2, EditKeepsSeats
<1> QED
  BY <1>2, <1>3 DEF MatchLeave

LEMMA BreakroomKeepsSeats ==
  ASSUME IInv, NEW p \in Players, Breakroom(p)
  PROVE  SeatsKept({}) /\ HostsKept({})
BY SeatsKeptByClosing DEF Breakroom, InRoom

\* A new session is in no room.
LEMMA ConnectKeepsSeats ==
  ASSUME IInv, NEW p \in Players, Connect(p)
  PROVE  SeatsKept({}) /\ HostsKept({})
BY SeatsKeptWithoutRooms DEF Connect, sessionVars

LEMMA RoomLeaveKeepsSeats ==
  ASSUME IInv, NEW p \in Players, RoomLeave(p)
  PROVE  SeatsKept({}) /\ HostsKept({})
BY RemovePlayerKeepsSeats DEF RoomLeave

\* Room::addPlayer and Room::addObserverPlayer
LEMMA RoomJoinKeepsSeats ==
  ASSUME IInv, NEW p \in Players, InLobbyScreen(p), NEW r \in DOMAIN rooms, RoomJoin(p, r)
  PROVE  SeatsKept({p}) /\ HostsKept({p})
<1> DEFINE room == rooms[r]
<1>1. /\ room \in Room /\ room.players \in Seq(Players) /\ room.observers \in Seq(Players)
      /\ HasHost(room)
  BY Seats DEF RoomJoin, Room
<1>2. \A q \in Players \ {p} : roomNumber'[q] \in {roomNumber[q], NoRoom}
  BY DEF RoomJoin, EnterRoom, IInv, TypeOK
<1>3. /\ ToSet(Append(room.players, p)) = ToSet(room.players) \cup {p}
      /\ ToSet(Append(room.observers, p)) = ToSet(room.observers) \cup {p}
      /\ Append(room.players, p) # <<>> /\ Append(room.players, p)[1] = room.players[1]
  <2>1. /\ ToSet(Append(room.players, p)) = ToSet(room.players) \cup {p}
        /\ ToSet(Append(room.observers, p)) = ToSet(room.observers) \cup {p}
    BY <1>1, SeatsAfterAppend
  <2>2. Append(room.players, p) # <<>> /\ Append(room.players, p)[1] = room.players[1]
    BY <1>1 DEF HasHost
  <2> QED
    BY <2>1, <2>2
<1>4. \E new : /\ rooms' = [rooms EXCEPT ![r] = new]
               /\ KeepsItsOwn(room, new, {p}) /\ KeepsItsHost(room, new, {p})
  <2>1. CASE AddPlayer(r, p)
    <3> DEFINE new == [room EXCEPT !.players = Append(@, p)]
    <3>1. rooms' = [rooms EXCEPT ![r] = new]
      BY <2>1 DEF AddPlayer
    <3>2. new.players = Append(room.players, p) /\ new.observers = room.observers
      BY <1>1 DEF Room
    <3> HIDE DEF new, room
    <3>3. KeepsItsOwn(room, new, {p}) /\ KeepsItsHost(room, new, {p})
      BY <1>1, <1>3, <3>2 DEF KeepsItsOwn, KeepsItsHost, HasHost, Host
    <3> QED
      BY <3>1, <3>3
  <2>2. CASE AddObserverPlayer(r, p)
    <3> DEFINE new == [room EXCEPT !.observers = Append(@, p)]
    <3>1. rooms' = [rooms EXCEPT ![r] = new]
      BY <2>2 DEF AddObserverPlayer
    <3>2. new.players = room.players /\ new.observers = Append(room.observers, p)
      BY <1>1 DEF Room
    <3> HIDE DEF new, room
    <3>3. KeepsItsOwn(room, new, {p}) /\ KeepsItsHost(room, new, {p})
      BY <1>1, <1>3, <3>2 DEF KeepsItsOwn, KeepsItsHost, HasHost, Host
    <3> QED
      BY <3>1, <3>3
  <2> QED
    BY <2>1, <2>2 DEF RoomJoin
<1> HIDE DEF room
<1>5. PICK new : /\ rooms' = [rooms EXCEPT ![r] = new]
                 /\ KeepsItsOwn(room, new, {p}) /\ KeepsItsHost(room, new, {p})
  BY <1>4
<1> QED
  BY <1>2, <1>5, SeatsKeptInRoom, HostsKeptInRoom DEF room

\* Room::changePlayerTeam, which appends p to one vector and erases it from the other
LEMMA ToObserverKeepsSeats ==
  ASSUME IInv, NEW p \in Players, PlayerToObserver(p)
  PROVE  SeatsKept({p}) /\ HostsKept({p}) /\ Watches(p)'
<1> DEFINE room == RoomOf(p)
           i == IndexIn(room.players, p)
           players == RemoveAt(room.players, i)
           observers == Append(room.observers, p)
           new == [room EXCEPT !.players = players, !.observers = observers]
<1>1. /\ InRoom(p) /\ p \in ToSet(room.players) /\ UNCHANGED roomNumber
      /\ rooms' = [rooms EXCEPT ![roomNumber[p]] = new]
  BY DEF PlayerToObserver, sessionVars
<1>2. /\ room \in Room /\ room.players \in Seq(Players) /\ room.observers \in Seq(Players)
      /\ IsInjective(room.players)
  BY <1>1, OwnRoom
<1>3. i \in DOMAIN room.players /\ room.players[i] = p
  BY <1>1 DEF IndexIn, ToSet
<1>4. new.players = players /\ new.observers = observers
  BY <1>2 DEF Room
<1> HIDE DEF room
<1>5. ToSet(players) = ToSet(room.players) \ {p} /\ ToSet(observers) = ToSet(room.observers) \cup {p}
  <2> HIDE DEF i
  <2> QED
    BY <1>2, <1>3, SeatsAfterRemove, SeatsAfterAppend
<1>6. room.players # <<>> /\ room.players[1] # p => players # <<>> /\ players[1] = room.players[1]
  <2> HIDE DEF i
  <2> QED
    BY <1>2, <1>3, FirstStays
<1> HIDE DEF new, players, observers
<1>7. KeepsItsOwn(room, new, {p}) /\ KeepsItsHost(room, new, {p})
  BY <1>4, <1>5, <1>6 DEF KeepsItsOwn, KeepsItsHost, HasHost, Host
<1>8. roomNumber[p] \in DOMAIN rooms /\ room = rooms[roomNumber[p]]
  BY <1>1 DEF InRoom, RoomOf, room
<1>9. \A q \in Players \ {p} : roomNumber'[q] \in {roomNumber[q], NoRoom}
  BY <1>1
<1>10. Watches(p)'
  <2>1. roomNumber[p] \in DOMAIN rooms' /\ rooms'[roomNumber[p]] = new
    BY <1>1, <1>8 DEF IInv, TypeOK
  <2> QED
    BY <1>1, <1>4, <1>5, <2>1 DEF Watches, InRoom, RoomOf
<1> QED
  BY <1>1, <1>7, <1>8, <1>9, <1>10, SeatsKeptInRoom, HostsKeptInRoom

LEMMA ToPlayerKeepsSeats ==
  ASSUME IInv, NEW p \in Players, ObserverToPlayer(p)
  PROVE  SeatsKept({p}) /\ HostsKept({p}) /\ Sits(p)'
<1> DEFINE room == RoomOf(p)
           i == IndexIn(room.observers, p)
           players == Append(room.players, p)
           observers == RemoveAt(room.observers, i)
           new == [room EXCEPT !.players = players, !.observers = observers]
<1>1. /\ InRoom(p) /\ p \in ToSet(room.observers) /\ UNCHANGED roomNumber
      /\ rooms' = [rooms EXCEPT ![roomNumber[p]] = new]
  BY DEF ObserverToPlayer, sessionVars
<1>2. /\ room \in Room /\ room.players \in Seq(Players) /\ room.observers \in Seq(Players)
      /\ IsInjective(room.observers)
  BY <1>1, OwnRoom
<1>3. i \in DOMAIN room.observers /\ room.observers[i] = p
  BY <1>1 DEF IndexIn, ToSet
<1>4. new.players = players /\ new.observers = observers
  BY <1>2 DEF Room
<1> HIDE DEF room
<1>5. ToSet(players) = ToSet(room.players) \cup {p} /\ ToSet(observers) = ToSet(room.observers) \ {p}
  <2> HIDE DEF i
  <2> QED
    BY <1>2, <1>3, SeatsAfterRemove, SeatsAfterAppend
<1>6. room.players # <<>> => players # <<>> /\ players[1] = room.players[1]
  BY <1>2
<1> HIDE DEF new, players, observers
<1>7. KeepsItsOwn(room, new, {p}) /\ KeepsItsHost(room, new, {p})
  BY <1>4, <1>5, <1>6 DEF KeepsItsOwn, KeepsItsHost, HasHost, Host
<1>8. roomNumber[p] \in DOMAIN rooms /\ room = rooms[roomNumber[p]]
  BY <1>1 DEF InRoom, RoomOf, room
<1>9. \A q \in Players \ {p} : roomNumber'[q] \in {roomNumber[q], NoRoom}
  BY <1>1
<1>10. Sits(p)'
  <2>1. roomNumber[p] \in DOMAIN rooms' /\ rooms'[roomNumber[p]] = new
    BY <1>1, <1>8 DEF IInv, TypeOK
  <2> QED
    BY <1>1, <1>4, <1>5, <2>1 DEF Sits, InRoom, RoomOf
<1> QED
  BY <1>1, <1>7, <1>8, <1>9, <1>10, SeatsKeptInRoom, HostsKeptInRoom

\* handleHostChange: everybody keeps a seat, and only the host is another.
LEMMA ChangeHostKeepsSeats ==
  ASSUME IInv, NEW p \in Players, NEW i \in Nat, ChangeHost(p, i)
  PROVE  SeatsKept({}) /\ HostsKept({Host(RoomOf(p))})
<1> DEFINE room == RoomOf(p)
           players == SwapHost(room.players, i)
           new == [room EXCEPT !.players = players]
<1>1. /\ InRoom(p) /\ i \in DOMAIN room.players /\ UNCHANGED roomNumber
      /\ rooms' = [rooms EXCEPT ![roomNumber[p]] = new]
  BY DEF ChangeHost, sessionVars, RoomOf
<1>2. room \in Room /\ room.players \in Seq(Players) /\ IsInjective(room.players)
  BY <1>1, OwnRoom
<1>4. new.players = players /\ new.observers = room.observers
  BY <1>2 DEF Room
<1> HIDE DEF room
<1>5. ToSet(players) = ToSet(room.players)
  BY <1>1, <1>2, SeatsAfterSwap DEF SwapHost
<1> HIDE DEF new, players
<1>7. KeepsItsOwn(room, new, {}) /\ KeepsItsHost(room, new, {Host(room)})
  BY <1>4, <1>5 DEF KeepsItsOwn, KeepsItsHost
<1>8. roomNumber[p] \in DOMAIN rooms /\ room = rooms[roomNumber[p]]
  BY <1>1 DEF InRoom, RoomOf, room
<1>9. \A q \in Players : roomNumber'[q] \in {roomNumber[q], NoRoom}
  BY <1>1
<1> QED
  BY <1>1, <1>7, <1>8, <1>9, SeatsKeptInRoom, HostsKeptInRoom DEF room

\* Nobody enters a match, and nobody leaves one without leaving the room, except those in S.
FlagsKept(S) ==
  \A q \in Players :
    /\ inMatch'[q] => inMatch[q]
    /\ inMatch[q] /\ q \notin S => inMatch'[q] \/ roomNumber'[q] = NoRoom

LEMMA LeavingKeepsFlags ==
  ASSUME NEW S, LeaveRoom(S)
  PROVE  FlagsKept({})
BY DEF LeaveRoom, FlagsKept

LEMMA SomeLeave ==
  ASSUME NEW p, \/ Disconnect(p) \/ RoomLeave(p) \/ Breakroom(p)
  PROVE  FlagsKept({})
<1>1. ASSUME NEW r, CloseRoom(r) PROVE FlagsKept({})
  BY <1>1, LeavingKeepsFlags DEF CloseRoom
<1>2. ASSUME NEW r, RemoveHostFromMatch(r) PROVE FlagsKept({})
  BY <1>1, <1>2, LeavingKeepsFlags DEF RemoveHostFromMatch
<1>3. ASSUME NEW r, NEW S, RemovePlayer(r, p, S) PROVE FlagsKept({})
  <2>1. PICK left \in PlayerRemoved(rooms[r], p) :
          CloseRoom(r) \/ LeaveRoom(S \cup ({p} \cap Members(rooms[r])))
    BY <1>3 DEF RemovePlayer
  <2> QED
    BY <1>1, <2>1, LeavingKeepsFlags
<1>4. CASE Disconnect(p)
  BY <1>2, <1>3, <1>4, LeavingKeepsFlags DEF Disconnect
<1>5. CASE RoomLeave(p)
  BY <1>3, <1>5 DEF RoomLeave
<1>6. CASE Breakroom(p)
  BY <1>1, <1>6 DEF Breakroom
<1> QED
  BY <1>4, <1>5, <1>6

LEMMA MatchLeaveKeepsFlags ==
  ASSUME IInv, NEW p \in Players, MatchLeave(p)
  PROVE  FlagsKept({p})
<1>1. CASE inMatch' = [inMatch EXCEPT ![p] = FALSE] /\ UNCHANGED <<roomNumber, inLobby>>
  BY <1>1 DEF IInv, TypeOK, FlagsKept
<1>2. CASE RemoveHostFromMatch(roomNumber[p])
  <2>1. ASSUME NEW r, CloseRoom(r) PROVE FlagsKept({})
    BY <2>1, LeavingKeepsFlags DEF CloseRoom
  <2>2. FlagsKept({})
    BY <1>2, <2>1, LeavingKeepsFlags DEF RemoveHostFromMatch
  <2> QED
    BY <2>2 DEF FlagsKept
<1> QED
  BY <1>1, <1>2 DEF MatchLeave

LEMMA FlagsUntouched ==
  ASSUME NEW p,
         \/ Connect(p) \/ \E r : RoomJoin(p, r)
         \/ PlayerState(p, TRUE) \/ \E n : SetPlayersPerTeam(p, n)
         \/ PlayerToObserver(p) \/ ObserverToPlayer(p) \/ \E i : ChangeHost(p, i)
  PROVE  FlagsKept({})
BY DEF Connect, RoomJoin, EnterRoom, PlayerState, SetPlayersPerTeam, PlayerToObserver,
       ObserverToPlayer, ChangeHost, sessionVars, FlagsKept

\* Only handleRoomCreation opens a room, one at most, and only below the limit.
LEMMA OnlyCreationOpens ==
  ASSUME NEW p \in Players,
         \/ SessionStep(p) \/ \E r \in DOMAIN rooms : RoomJoin(p, r) \/ RoomInfoUndefined(p, r)
         \/ WaitingRoomStep(p) \/ HostStep(p) \/ RoomStart(p) \/ MatchStep(p) \/ MatchEnding(p)
         \/ ModeratorStep(p)
  PROVE  DOMAIN rooms' \subseteq DOMAIN rooms
<1>1. ASSUME NEW r, CloseRoom(r) PROVE DOMAIN rooms' \subseteq DOMAIN rooms
  BY <1>1 DEF CloseRoom
<1>2. ASSUME NEW r, RemoveHostFromMatch(r) PROVE DOMAIN rooms' \subseteq DOMAIN rooms
  BY <1>1, <1>2 DEF RemoveHostFromMatch
<1>3. ASSUME NEW r, NEW q, NEW S, RemovePlayer(r, q, S) PROVE DOMAIN rooms' \subseteq DOMAIN rooms
  BY <1>1, <1>3 DEF RemovePlayer
<1>4. CASE SessionStep(p)
  BY <1>2, <1>3, <1>4 DEF SessionStep, Connect, Disconnect, DisconnectUndefined, UndefinedRead
<1>5. CASE \E r \in DOMAIN rooms : RoomJoin(p, r) \/ RoomInfoUndefined(p, r)
  BY <1>5 DEF RoomJoin, AddPlayer, AddObserverPlayer, RoomInfoUndefined, UndefinedRead
<1>6. CASE WaitingRoomStep(p) \/ HostStep(p)
  BY <1>3, <1>6 DEF WaitingRoomStep, RoomLeave, PlayerToObserver, ObserverToPlayer, PlayerState,
     HostStep, RoomLeaveKick, ChangeHost, SetPlayersPerTeam, SwitchObserverMode
<1>7. CASE RoomStart(p) \/ MatchStep(p) \/ MatchEnding(p)
  BY <1>2, <1>7 DEF RoomStart, MatchStep, MatchLeave, MatchUndefined, UndefinedRead, MatchEnding
<1>8. CASE ModeratorStep(p)
  BY <1>1, <1>8 DEF ModeratorStep, Breakroom, KickPlayer
<1> QED
  BY <1>4, <1>5, <1>6, <1>7, <1>8

LEMMA RoomsLimited ==
  ASSUME IInv, IsFiniteSet(DOMAIN rooms), Cardinality(DOMAIN rooms) <= MaxRooms, [Next]_vars
  PROVE  IsFiniteSet(DOMAIN rooms)' /\ (Cardinality(DOMAIN rooms) <= MaxRooms)'
<1>1. CASE DOMAIN rooms' \subseteq DOMAIN rooms
  BY <1>1, FS_Subset, FS_CardinalityType, ConstantsAssumption
<1>2. ASSUME NEW p \in Players, RoomCreation(p)
      PROVE  IsFiniteSet(DOMAIN rooms)' /\ (Cardinality(DOMAIN rooms) <= MaxRooms)'
  <2>1. CASE UNCHANGED rooms
    BY <1>1, <2>1
  <2>2. CASE /\ Cardinality(DOMAIN rooms) < MaxRooms
             /\ \E r : DOMAIN rooms' = DOMAIN rooms \cup {r}
    <3>1. PICK r : DOMAIN rooms' = DOMAIN rooms \cup {r}
      BY <2>2
    <3>2. Cardinality(DOMAIN rooms) \in Nat /\ MaxRooms \in Nat
      BY FS_CardinalityType, ConstantsAssumption
    <3>3. /\ IsFiniteSet(DOMAIN rooms \cup {r})
          /\ Cardinality(DOMAIN rooms \cup {r}) \in
               {Cardinality(DOMAIN rooms), Cardinality(DOMAIN rooms) + 1}
      BY FS_AddElement
    <3> QED
      BY <2>2, <3>1, <3>2, <3>3
  <2> QED
    BY <1>2, <2>1, <2>2 DEF RoomCreation
<1> QED
  BY <1>1, <1>2, OnlyCreationOpens DEF Next, LobbyStep, vars

=============================================================================
