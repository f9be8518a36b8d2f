-------------------------- MODULE CastRoomsProofs --------------------------
(***************************************************************************)
(* The session ids and the rooms of the two servers, for any number of     *)
(* clients, ids and rooms.                                                 *)
(*                                                                         *)
(* Three layers of one inductive invariant, CastInv.  Whatever goes wrong, *)
(* each process accounts for its ids, the containers of the cast server    *)
(* hold the same players, and what a client still has to tell enters and   *)
(* leaves by turns (IdInv, SeatsInv, MainInv, ToldByTurns).  As long as no *)
(* connection is lost in a room, rooms hold exactly those who find them,   *)
(* and no pointer dangles (ExactInv, HeardByTurns).  As long as nothing    *)
(* else has gone wrong either, clients whose messages are read are         *)
(* together on both servers or on neither (SettledInv).                    *)
(***************************************************************************)
EXTENDS CastRooms, Integers, SequencesExt, Vectors, SequenceTheorems, FiniteSetTheorems,
        WellFoundedInduction, TLAPS

----------------------------------------------------------------------------
(* Sequences: those that stand in a std::vector *)

\* push_back adds one member, and no duplicate when it was not there.
LEMMA SeatsAfterAppend ==
  ASSUME NEW S, NEW s \in Seq(S), NEW p \in S
  PROVE  /\ Append(s, p) \in Seq(S)
         /\ ToSet(Append(s, p)) = ToSet(s) \cup {p}
         /\ IsInjective(s) /\ p \notin ToSet(s) => IsInjective(Append(s, p))
<1>1. DOMAIN s = 1 .. Len(s) /\ DOMAIN Append(s, p) = 1 .. Len(s) + 1
  BY AppendProperties
<1>2. \A i \in 1 .. Len(s) : Append(s, p)[i] = s[i]
  BY AppendProperties
<1>3. Append(s, p)[Len(s) + 1] = p /\ Len(s) \in Nat
  BY AppendProperties
<1>4. ToSet(Append(s, p)) = ToSet(s) \cup {p}
  BY <1>1, <1>2, <1>3 DEF ToSet
<1>5. IsInjective(s) /\ p \notin ToSet(s) => IsInjective(Append(s, p))
  BY <1>1, <1>2, <1>3 DEF ToSet, IsInjective
<1> QED
  BY <1>4, <1>5, AppendProperties

\* Each of the positions is the n-th for exactly one n.
LEMMA PositionsCounted ==
  ASSUME NEW m \in Nat, NEW I \in SUBSET (1 .. m)
  PROVE  /\ IsFiniteSet(I) /\ Cardinality(I) \in Nat
         /\ \A n \in 1 .. Cardinality(I) : Position(I, n) \in I
         /\ \A n, k \in 1 .. Cardinality(I) : Position(I, n) = Position(I, k) => n = k
         /\ \A i \in I : \E n \in 1 .. Cardinality(I) : Position(I, n) = i
<1> DEFINE upTo(i) == {j \in I : j <= i}
           rank == [i \in I |-> Cardinality(upTo(i))]
           c == Cardinality(I)
<1>1. IsFiniteSet(I) /\ c \in Nat
  <2>1. IsFiniteSet(1 .. m)
    BY FS_Interval
  <2> QED
    BY <2>1, FS_Subset, FS_CardinalityType
<1>2. ASSUME NEW i \in I
      PROVE  /\ IsFiniteSet(upTo(i)) /\ Cardinality(upTo(i)) \in Nat
             /\ Cardinality(upTo(i)) \in 1 .. c
  <2>1. upTo(i) \in SUBSET I /\ i \in upTo(i)
    OBVIOUS
  <2>2. IsFiniteSet(upTo(i)) /\ Cardinality(upTo(i)) <= c
    BY <1>1, <2>1, FS_Subset
  <2>3. Cardinality(upTo(i)) \in Nat /\ Cardinality(upTo(i)) # 0
    BY <2>1, <2>2, FS_CardinalityType, FS_EmptySet
  <2> QED
    BY <1>1, <2>2, <2>3
<1>3. ASSUME NEW i \in I, NEW k \in I, i < k
      PROVE  Cardinality(upTo(i)) < Cardinality(upTo(k))
  <2>1. upTo(i) \in SUBSET upTo(k) /\ k \in upTo(k) /\ k \notin upTo(i)
    <3>1. i \in Nat /\ k \in Nat /\ \A j \in I : j \in Nat
      OBVIOUS
    <3>2. \A j \in I : j <= i => j <= k
      BY <1>3, <3>1
    <3>3. k <= k /\ ~(k <= i)
      BY <1>3, <3>1
    <3> QED
      BY <3>2, <3>3
  <2>2. /\ Cardinality(upTo(i)) <= Cardinality(upTo(k))
        /\ Cardinality(upTo(k)) = Cardinality(upTo(i)) => upTo(k) = upTo(i)
    BY <1>2, <2>1, FS_Subset
  <2>3. Cardinality(upTo(k)) # Cardinality(upTo(i))
    BY <2>1, <2>2
  <2> QED
    BY <1>2, <2>2, <2>3
<1>4. rank \in [I -> 1 .. c]
  BY <1>2
<1>5. \A i, k \in I : rank[i] = rank[k] => i = k
  <2> SUFFICES ASSUME NEW i \in I, NEW k \in I, i # k
               PROVE  rank[i] # rank[k]
    OBVIOUS
  <2>1. i < k \/ k < i
    OBVIOUS
  <2> QED
    BY <1>2, <1>3, <2>1
<1>6. \A n \in 1 .. c : \E i \in I : rank[i] = n
  <2>1. IsFiniteSet(1 .. c) /\ Cardinality(1 .. c) = c
    BY <1>1, FS_Interval
  <2>2. rank \in Injection(I, 1 .. c)
    BY <1>4, <1>5 DEF Injection, IsInjective
  <2>3. rank \in Surjection(I, 1 .. c)
    BY <2>1, <2>2, FS_Injection
  <2> QED
    BY <2>3 DEF Surjection
<1>7. \A n \in 1 .. c : Position(I, n) \in I /\ rank[Position(I, n)] = n
  <2> SUFFICES ASSUME NEW n \in 1 .. c
               PROVE  Position(I, n) \in I /\ rank[Position(I, n)] = n
    OBVIOUS
  <2>1. \E i \in I : Cardinality(upTo(i)) = n
    BY <1>6
  <2> QED
    BY <2>1 DEF Position
<1>8. \A i \in I : Position(I, rank[i]) = i
  BY <1>4, <1>5, <1>7
<1> QED
  BY <1>1, <1>4, <1>7, <1>8

\* A vector holds what stood at those positions, each as often as there.
LEMMA SeatsAtPositions ==
  ASSUME NEW S, NEW s \in Seq(S), NEW I \in SUBSET DOMAIN s
  PROVE  /\ AtPositions(s, I) \in Seq(S)
         /\ ToSet(AtPositions(s, I)) = {s[i] : i \in I}
         /\ IsInjective(s) => IsInjective(AtPositions(s, I))
<1> DEFINE c == Cardinality(I)
           t == AtPositions(s, I)
<1>1. DOMAIN s = 1 .. Len(s) /\ Len(s) \in Nat
  OBVIOUS
<1>2. /\ c \in Nat
      /\ \A n \in 1 .. c : Position(I, n) \in I
      /\ \A n, k \in 1 .. c : Position(I, n) = Position(I, k) => n = k
      /\ \A i \in I : \E n \in 1 .. c : Position(I, n) = i
  BY ZenonT(30), <1>1, PositionsCounted
<1>3. DOMAIN t = 1 .. c /\ \A n \in 1 .. c : t[n] = s[Position(I, n)]
  BY DEF AtPositions
<1>4. t \in Seq(S)
  <2>1. t = [n \in 1 .. c |-> s[Position(I, n)]]
    BY DEF AtPositions
  <2>2. \A n \in 1 .. c : s[Position(I, n)] \in S
    BY <1>1, <1>2
  <2> QED
    BY <1>2, <2>1, <2>2
<1> HIDE DEF t
<1>5. ToSet(t) = {s[i] : i \in I}
  BY <1>2, <1>3 DEF ToSet
<1>6. IsInjective(s) => IsInjective(t)
  BY <1>1, <1>2, <1>3 DEF IsInjective
<1> QED
  BY <1>4, <1>5, <1>6 DEF t

----------------------------------------------------------------------------
(* Numbers and counting *)

\* A non-empty set of natural numbers has a least element.
LEMMA LeastNumber ==
  ASSUME NEW S \in SUBSET Nat, S # {}
  PROVE  \E k \in S : \A j \in S : k <= j
<1> DEFINE R == {ss \in Nat \X Nat : ss[1] < ss[2]}
<1>1. OpToRel(<, Nat) = R
  BY DEF OpToRel
<1>2. PICK k \in S : \A j \in S : ~ (<<j, k>> \in R)
  BY ZenonT(30), <1>1, NatLessThanWellFounded, WFMin
<1>3. \A j \in S : k <= j
  <2> TAKE j \in S
  <2>1. j \in Nat /\ k \in Nat
    OBVIOUS
  <2>2. <<j, k>> \notin R
    BY <1>2
  <2> QED
    BY <2>1, <2>2
<1> QED
  BY <1>3

\* A sequence without duplicates is as long as it has elements.
LEMMA InjectiveCounted ==
  ASSUME NEW S, NEW s \in Seq(S), IsInjective(s)
  PROVE  IsFiniteSet(ToSet(s)) /\ Cardinality(ToSet(s)) = Len(s)
<1>1. DOMAIN s = 1 .. Len(s) /\ Len(s) \in Nat
  OBVIOUS
<1>2. IsFiniteSet(1 .. Len(s)) /\ Cardinality(1 .. Len(s)) = Len(s)
  BY <1>1, FS_Interval
<1>3. s \in [1 .. Len(s) -> ToSet(s)]
  BY <1>1 DEF ToSet
<1>4. s \in Injection(1 .. Len(s), ToSet(s)) /\ s \in Surjection(1 .. Len(s), ToSet(s))
  BY <1>1, <1>3 DEF Injection, Surjection, ToSet
<1>5. ExistsBijection(1 .. Len(s), ToSet(s))
  BY <1>4 DEF ExistsBijection, Bijection
<1> QED
  BY <1>2, <1>5, FS_Bijection

\* A function from a part of S leaves one of |S| + 1 numbers free.
LEMMA OneNumberFree ==
  ASSUME NEW S, IsFiniteSet(S), NEW f, DOMAIN f \subseteq S
  PROVE  \E n \in 1 .. Cardinality(S) + 1 : n \notin Range(f)
<1> DEFINE c == Cardinality(S)
           g == [x \in DOMAIN f |-> f[x]]
<1>1. c \in Nat /\ IsFiniteSet(DOMAIN f) /\ Cardinality(DOMAIN f) <= c
  BY FS_Subset, FS_CardinalityType
<1>2. g \in Surjection(DOMAIN f, Range(f))
  BY DEF Surjection, Range
<1>3. IsFiniteSet(Range(f)) /\ Cardinality(Range(f)) <= Cardinality(DOMAIN f)
  BY <1>1, <1>2, FS_Surjection
<1>4. Cardinality(DOMAIN f) \in Nat /\ Cardinality(Range(f)) \in Nat
  BY <1>1, <1>3, FS_CardinalityType
<1>5. Cardinality(1 .. c + 1) = c + 1
  BY <1>1, FS_Interval
<1>6. ASSUME 1 .. c + 1 \subseteq Range(f)
      PROVE  FALSE
  <2>1. Cardinality(1 .. c + 1) <= Cardinality(Range(f))
    BY <1>3, <1>6, FS_Subset
  <2> QED
    BY <1>1, <1>3, <1>4, <1>5, <2>1
<1> QED
  BY <1>6

\* The least of some numbers
LEMMA LeastIsOne ==
  ASSUME NEW S \in SUBSET Nat, S # {}
  PROVE  Min(S) \in S
BY LeastNumber DEF Min

IdTypes ==
  /\ pool \in [Servers -> Seq(Ids)]
  /\ id \in [Servers -> [Clients -> Ids \cup {NoId}]]

IdInv == IdTypes /\ IdsAccountedFor

\* What IdsAccountedFor says of one server.
AccountedFor(stack, ids) ==
  /\ IsInjective(stack)
  /\ ToSet(stack) = Ids \ (Range(ids) \ {NoId})
  /\ \A c, d \in Clients : ids[c] = ids[d] /\ c # d => ids[c] = NoId

LEMMA EachServer == IdsAccountedFor <=> \A s \in Servers : AccountedFor(pool[s], id[s])
BY DEF IdsAccountedFor, AccountedFor

----------------------------------------------------------------------------
(* SessionIdManager *)

\* getNewSessionID takes one id off the stack.
LEMMA PopTop ==
  ASSUME NEW s \in Seq(Ids), s # << >>, IsInjective(s)
  PROVE  /\ NewSessionID(s) \in ToSet(s)
         /\ WithoutNewSessionID(s) \in Seq(Ids)
         /\ IsInjective(WithoutNewSessionID(s))
         /\ ToSet(WithoutNewSessionID(s)) = ToSet(s) \ {NewSessionID(s)}
<1> DEFINE t == WithoutNewSessionID(s)
<1>1. Len(s) \in Nat \ {0} /\ DOMAIN s = 1 .. Len(s)
  OBVIOUS
<1>2. /\ t \in Seq(Ids) /\ DOMAIN t = 1 .. Len(s) - 1
      /\ \A i \in 1 .. Len(s) - 1 : t[i] = s[i]
  BY <1>1 DEF WithoutNewSessionID
<1> HIDE DEF t
<1>3. IsInjective(t)
  BY <1>1, <1>2 DEF IsInjective
<1>4. ToSet(t) = ToSet(s) \ {s[Len(s)]}
  BY <1>1, <1>2 DEF ToSet, IsInjective
<1>5. s[Len(s)] \in ToSet(s)
  BY <1>1 DEF ToSet
<1> QED
  BY <1>2, <1>3, <1>4, <1>5 DEF NewSessionID, t

\* A session that opens takes the top of the stack.
LEMMA AcceptAccountedFor ==
  ASSUME NEW s \in Seq(Ids), s # << >>,
         NEW ids \in [Clients -> Ids \cup {NoId}], AccountedFor(s, ids),
         NEW c \in Clients, ids[c] = NoId
  PROVE  AccountedFor(WithoutNewSessionID(s), [ids EXCEPT ![c] = NewSessionID(s)])
<1> DEFINE n == NewSessionID(s)
           after == [ids EXCEPT ![c] = n]
<1>1. IsInjective(s) /\ ToSet(s) = Ids \ (Range(ids) \ {NoId})
  BY DEF AccountedFor
<1>2. /\ n \in ToSet(s) /\ IsInjective(WithoutNewSessionID(s))
      /\ ToSet(WithoutNewSessionID(s)) = ToSet(s) \ {n}
  BY <1>1, PopTop
<1>3. NoId \notin Ids
  BY DEF NoId, Ids
<1>4. n \in Ids /\ n # NoId /\ \A d \in Clients : ids[d] # n
  BY <1>1, <1>2, <1>3 DEF Range
<1>5. \A d \in Clients : after[d] = IF d = c THEN n ELSE ids[d]
  OBVIOUS
<1> HIDE DEF n
<1>6. Range(after) \ {NoId} = (Range(ids) \ {NoId}) \cup {n}
  <2>1. Range(ids) = {ids[d] : d \in Clients} /\ Range(after) = {after[d] : d \in Clients}
    BY DEF Range
  <2> QED
    BY <2>1, <1>4, <1>5
<1>7. \A d, e \in Clients : after[d] = after[e] /\ d # e => after[d] = NoId
  BY <1>4, <1>5 DEF AccountedFor
<1> QED
  BY <1>1, <1>2, <1>6, <1>7 DEF AccountedFor, n

\* A session that is destroyed gives its id back.
LEMMA CloseAccountedFor ==
  ASSUME NEW s \in Seq(Ids),
         NEW ids \in [Clients -> Ids \cup {NoId}], AccountedFor(s, ids),
         NEW c \in Clients, ids[c] # NoId
  PROVE  /\ WithReleased(s, ids[c]) \in Seq(Ids)
         /\ AccountedFor(WithReleased(s, ids[c]), [ids EXCEPT ![c] = NoId])
<1> DEFINE n == ids[c]
           after == [ids EXCEPT ![c] = NoId]
<1>1. n \in Ids /\ n \in Range(ids) \ {NoId}
  BY DEF Range
<1>2. IsInjective(s) /\ ToSet(s) = Ids \ (Range(ids) \ {NoId}) /\ n \notin ToSet(s)
  BY <1>1 DEF AccountedFor
<1>3. WithReleased(s, n) = Append(s, n)
  BY <1>2 DEF WithReleased
<1>4. /\ Append(s, n) \in Seq(Ids) /\ IsInjective(Append(s, n))
      /\ ToSet(Append(s, n)) = ToSet(s) \cup {n}
  BY <1>1, <1>2, SeatsAfterAppend
<1>5. \A d \in Clients : after[d] = IF d = c THEN NoId ELSE ids[d]
  OBVIOUS
<1>6. \A d \in Clients : d # c => ids[d] # n
  BY DEF AccountedFor
<1>7. Range(after) \ {NoId} = (Range(ids) \ {NoId}) \ {n}
  <2>1. Range(ids) = {ids[d] : d \in Clients} /\ Range(after) = {after[d] : d \in Clients}
    BY DEF Range
  <2> QED
    BY <2>1, <1>5, <1>6
<1>8. \A d, e \in Clients : after[d] = after[e] /\ d # e => after[d] = NoId
  BY <1>5 DEF AccountedFor
<1>9. ToSet(Append(s, n)) = Ids \ (Range(after) \ {NoId})
  BY <1>1, <1>2, <1>4, <1>7
<1> QED
  BY <1>3, <1>4, <1>8, <1>9 DEF AccountedFor

----------------------------------------------------------------------------
(* The servers *)

LEMMA IdInit == Init => IdInv
<1> SUFFICES ASSUME Init PROVE IdInv
  OBVIOUS
<1>1. FullPool \in Seq(Ids) /\ DOMAIN FullPool = Ids /\ \A i \in Ids : FullPool[i] = i
  BY MaxSessionIDsAssumption DEF FullPool, Ids
<1>2. IdTypes
  BY <1>1 DEF Init, IdTypes
<1>3. ASSUME NEW s \in Servers PROVE AccountedFor(pool[s], id[s])
  <2>1. pool[s] = FullPool /\ id[s] = [c \in Clients |-> NoId]
    BY <1>3 DEF Init
  <2>2. Range(id[s]) \ {NoId} = {}
    BY <2>1 DEF Range
  <2> QED
    BY <1>1, <2>1, <2>2 DEF AccountedFor, IsInjective, ToSet
<1> QED
  BY <1>2, <1>3, EachServer DEF IdInv

\* One connection accepted by one of the servers.
LEMMA AcceptedKeepsIds ==
  ASSUME IdInv, NEW s \in Servers, NEW c \in Clients, id[s][c] = NoId, Accepted(s, c)
  PROVE  IdInv'
<1>1. pool[s] \in Seq(Ids) /\ pool[s] # << >> /\ id[s] \in [Clients -> Ids \cup {NoId}]
  BY DEF IdInv, IdTypes, Accepted, HasId
<1>2. AccountedFor(pool[s], id[s])
  BY EachServer DEF IdInv
<1>3. NewSessionID(pool[s]) \in Ids /\ WithoutNewSessionID(pool[s]) \in Seq(Ids)
  BY <1>1, <1>2, PopTop DEF AccountedFor
<1>4. AccountedFor(WithoutNewSessionID(pool[s]), [id[s] EXCEPT ![c] = NewSessionID(pool[s])])
  BY <1>1, <1>2, AcceptAccountedFor
<1>5. /\ pool' = [pool EXCEPT ![s] = WithoutNewSessionID(pool[s])]
      /\ id' = [id EXCEPT ![s] = [id[s] EXCEPT ![c] = NewSessionID(pool[s])]]
  BY DEF Accepted
<1>6. IdTypes'
  BY <1>1, <1>3, <1>5 DEF IdInv, IdTypes
<1>7. \A x \in Servers : AccountedFor(pool'[x], id'[x])
  BY <1>4, <1>5, EachServer DEF IdInv, IdTypes
<1>8. IdsAccountedFor'
  BY <1>7, EachServer DEF IdsAccountedFor, AccountedFor
<1> QED
  BY <1>6, <1>8 DEF IdInv

\* One session destroyed by one of the servers.
LEMMA ClosedKeepsIds ==
  ASSUME IdInv, NEW s \in Servers, NEW c \in Clients, id[s][c] # NoId, Closed(s, c)
  PROVE  IdInv'
<1> DEFINE released == WithReleased(pool[s], id[s][c])
<1>1. pool[s] \in Seq(Ids) /\ id[s] \in [Clients -> Ids \cup {NoId}]
  BY DEF IdInv, IdTypes
<1>2. AccountedFor(pool[s], id[s])
  BY EachServer DEF IdInv
<1>3. released \in Seq(Ids) /\ AccountedFor(released, [id[s] EXCEPT ![c] = NoId])
  BY <1>1, <1>2, CloseAccountedFor
<1>4. /\ pool' = [pool EXCEPT ![s] = released]
      /\ id' = [id EXCEPT ![s] = [id[s] EXCEPT ![c] = NoId]]
  BY DEF Closed
<1> HIDE DEF released
<1>5. IdTypes'
  BY <1>1, <1>3, <1>4 DEF IdInv, IdTypes
<1>6. \A x \in Servers : AccountedFor(pool'[x], id'[x])
  BY <1>3, <1>4, EachServer DEF IdInv, IdTypes
<1>7. IdsAccountedFor'
  BY <1>6 DEF IdsAccountedFor, AccountedFor
<1> QED
  BY <1>5, <1>7 DEF IdInv

LEMMA IdStep == IdInv /\ [Next]_vars => IdInv'
<1> SUFFICES ASSUME IdInv, [Next]_vars PROVE IdInv'
  OBVIOUS
<1>1. "main" \in Servers /\ "cast" \in Servers
  BY DEF Servers
<1>2. ASSUME UNCHANGED <<pool, id>> PROVE IdInv'
  BY <1>2 DEF IdInv, IdTypes, IdsAccountedFor
<1>3. CASE UNCHANGED vars
  BY <1>2, <1>3 DEF vars
<1>4. CASE Next
  <2> SUFFICES ASSUME NEW c \in Clients,
        \/ ConnectMain(c) \/ ConnectCast(c) \/ ConnectionRefused(c)
        \/ CloseMain(c) \/ CloseCast(c)
        \/ CreateRoom(c) \/ LeaveRoom(c) \/ Quit(c)
        \/ \E r \in MainRoomNumbers : JoinRoom(c, r)
        \/ RoomCreation(c) \/ PlayerJoinRoom(c) \/ PlayerLeaveRoom(c) \/ PlayerCrash(c)
        \/ Undefined(c)
      PROVE IdInv'
    BY <1>4 DEF Next
  <2>1. CASE ConnectMain(c)
    BY <1>1, <2>1, AcceptedKeepsIds DEF ConnectMain
  <2>2. CASE ConnectCast(c)
    BY <1>1, <2>2, AcceptedKeepsIds DEF ConnectCast
  <2>3. CASE CloseMain(c)
    BY <1>1, <2>3, ClosedKeepsIds DEF CloseMain
  <2>4. CASE CloseCast(c)
    BY <1>1, <2>4, ClosedKeepsIds DEF CloseCast
  <2>5. CASE ConnectionRefused(c) \/ CreateRoom(c) \/ LeaveRoom(c) \/ Quit(c) \/ Undefined(c)
    BY <1>2, <2>5 DEF ConnectionRefused, CreateRoom, LeaveRoom, Quit, Undefined
  <2>6. CASE \E r \in MainRoomNumbers : JoinRoom(c, r)
    BY <1>2, <2>6 DEF JoinRoom
  <2>7. CASE RoomCreation(c) \/ PlayerJoinRoom(c) \/ PlayerLeaveRoom(c) \/ PlayerCrash(c)
    BY <1>2, <2>7 DEF RoomCreation, PlayerJoinRoom, PlayerLeaveRoom, PlayerCrash, Receives
  <2> QED
    BY <2>1, <2>2, <2>3, <2>4, <2>5, <2>6, <2>7
<1> QED
  BY <1>3, <1>4

\* Whatever the clients do, and however their connections to the two servers open and close,
\* no two live sessions of a process share an id, and no id is lost: the destructor of Session
\* and SessionIdManager keep the stack and the sessions apart.
THEOREM NoTwoSessionsShareAnId == Spec => []IdsAccountedFor
<1>1. Init => IdInv
  BY IdInit
<1>2. IdInv /\ [Next]_vars => IdInv'
  BY IdStep
<1>3. IdInv => IdsAccountedFor
  BY DEF IdInv
<1> QED
  BY <1>1, <1>2, <1>3, PTL DEF Spec

----------------------------------------------------------------------------
(* The rooms of the cast server, and what its clients have still to tell it *)

\* One room by itself
Furnished(room) ==
  /\ room \in CastRoom
  /\ DOMAIN room.players = {p.id : p \in ToSet(room.vec)}

\* The table and the rooms
SeatsInv ==
  /\ DOMAIN roomOf \subseteq Ids /\ roomOf = [i \in DOMAIN roomOf |-> roomOf[i]]
  /\ DOMAIN rooms = Range(roomOf) /\ rooms = [r \in DOMAIN rooms |-> rooms[r]]
  /\ \A r \in DOMAIN rooms : Furnished(rooms[r])
  /\ \A i \in DOMAIN roomOf : i \in DOMAIN rooms[roomOf[i]].players

\* A room without dangling pointers holds those who find it by the table.
Exact(room, r, entries) ==
  /\ DOMAIN room.players = {i \in DOMAIN entries : entries[i] = r}
  /\ \A i \in DOMAIN room.players : room.players[i]
  /\ \A k \in DOMAIN room.vec : room.vec[k].alive
  /\ IsInjective(room.vec)

ExactRooms == \A r \in DOMAIN rooms : Exact(rooms[r], r, roomOf)

ExactInv ==
  /\ ExactRooms
  /\ \A i \in DOMAIN roomOf : \E c \in Clients : id["cast"][c] = i

\* The main server's side, and what clients need for being where they are
Present(c) ==
  /\ at[c] # NoRoom => host[at[c]] # None /\ id["main"][c] # NoId
  /\ c \in running => id["main"][c] # NoId
  /\ c \in running /\ at[c] # NoRoom => id["cast"][c] # NoId
  /\ outbox[c] # << >> => id["cast"][c] # NoId

MainInv ==
  /\ running \subseteq Clients
  /\ at \in [Clients -> MainRoomNumbers \cup {NoRoom}]
  /\ host \in [MainRoomNumbers -> Clients \cup {None}]
  /\ outbox \in [Clients -> Seq(Message)]
  /\ \A r \in MainRoomNumbers : host[r] # None => at[host[r]] = r
  /\ \A c \in Clients : Present(c)

Enters(message) == message.kind \in {"create", "join"}
Final(messages) == messages[Len(messages)]

ByTurns(messages) ==
  \A k \in 1 .. Len(messages) - 1 : Enters(messages[k]) <=> ~ Enters(messages[k + 1])

\* A client enters and leaves by turns, and its last message tells where it is now.
ToldByTurns(c) ==
  /\ ByTurns(outbox[c])
  /\ c \in running /\ outbox[c] # << >> => (Enters(Final(outbox[c])) <=> at[c] # NoRoom)

\* Its next message is one to enter only when it is outside on the cast server.
HeardByTurns(c) ==
  /\ outbox[c] # << >> /\ Enters(Head(outbox[c])) => id["cast"][c] \notin DOMAIN roomOf
  /\ c \in running /\ outbox[c] = << >> /\ id["cast"][c] \in DOMAIN roomOf => at[c] # NoRoom

HistoryInv ==
  /\ stopped \in BOOLEAN /\ mishaps \subseteq Mishaps /\ lost \in 0 .. MaxMishaps
  /\ StopsHaveACause

\* Two clients of whom both servers know all: together on both or on neither
Agree(c, d) == at[c] # NoRoom => (at[c] = at[d] <=> SameCastRoom(c, d))

\* A client has one id.
OneId(c) == id["main"][c] # NoId /\ id["cast"][c] # NoId => id["main"][c] = id["cast"][c]

\* Who has last told that it joined names somebody of whom nothing is under way, and who is
\* where it is; who has last told that it created a room is alone there.
TellsWhere(c) ==
  c \in running /\ outbox[c] # << >> =>
    /\ Final(outbox[c]).kind = "join" =>
         \E h \in Clients \ {c} :
           ~ UnderWay(h) /\ at[h] = at[c] /\ id["cast"][h] = Final(outbox[c]).host
    /\ Final(outbox[c]).kind = "create" => \A d \in Clients \ {c} : at[d] # at[c]

\* As long as nothing goes wrong, clients of whom nothing is under way agree about each other.
SettledInv ==
  /\ \A c \in Clients : OneId(c) /\ TellsWhere(c)
  /\ \A c, d \in Clients : ~ UnderWay(c) /\ ~ UnderWay(d) => Agree(c, d)

CastInv ==
  /\ IdInv /\ SeatsInv /\ MainInv /\ HistoryInv
  /\ \A c \in Clients : ToldByTurns(c)
  /\ lost = 0 => ExactInv /\ \A c \in Clients : HeardByTurns(c)
  /\ lost = 0 /\ mishaps = {} => SettledInv

----------------------------------------------------------------------------
(* What the handlers do to the rooms *)

LEMMA RoomOfParts ==
  ASSUME NEW S \in SUBSET Ids, NEW f \in [S -> BOOLEAN], NEW v \in Seq(Pointer),
         S = {p.id : p \in ToSet(v)}
  PROVE  Furnished([players |-> f, vec |-> v])
<1> DEFINE room == [players |-> f, vec |-> v]
<1>1. f \in UNION {[T -> BOOLEAN] : T \in SUBSET Ids}
  OBVIOUS
<1>2. room \in CastRoom
  BY <1>1 DEF CastRoom
<1>3. DOMAIN room.players = S /\ room.vec = v
  OBVIOUS
<1> HIDE DEF room
<1>4. Furnished(room)
  BY <1>2, <1>3 DEF Furnished
<1> QED
  BY <1>4 DEF room

LEMMA PartsOfRoom ==
  ASSUME NEW room, Furnished(room)
  PROVE  /\ room.players \in [DOMAIN room.players -> BOOLEAN] /\ DOMAIN room.players \subseteq Ids
         /\ room.vec \in Seq(Pointer) /\ DOMAIN room.players = {p.id : p \in ToSet(room.vec)}
         /\ room = [players |-> room.players, vec |-> room.vec]
<1>1. room \in CastRoom /\ DOMAIN room.players = {p.id : p \in ToSet(room.vec)}
  BY DEF Furnished
<1>2. room.players \in UNION {[T -> BOOLEAN] : T \in SUBSET Ids} /\ room.vec \in Seq(Pointer)
      /\ room = [players |-> room.players, vec |-> room.vec]
  BY <1>1 DEF CastRoom
<1>3. PICK T \in SUBSET Ids : room.players \in [T -> BOOLEAN]
  BY <1>2
<1> QED
  BY <1>1, <1>2, <1>3

LEMMA GoodPointer ==
  ASSUME NEW i \in Ids
  PROVE  /\ [id |-> i, alive |-> TRUE] \in Pointer
         /\ [id |-> i, alive |-> TRUE].id = i /\ [id |-> i, alive |-> TRUE].alive
BY DEF Pointer

\* The constructor of Room makes a room with its first player in both containers.
LEMMA NewRoom ==
  ASSUME NEW i \in Ids, NEW room,
         room = [players |-> [j \in {i} |-> TRUE], vec |-> <<[id |-> i, alive |-> TRUE]>>]
  PROVE  /\ Furnished(room) /\ DOMAIN room.players = {i}
         /\ \A j \in DOMAIN room.players : room.players[j]
         /\ \A k \in DOMAIN room.vec : room.vec[k].alive
         /\ IsInjective(room.vec)
<1> DEFINE S == {i}
           f == [j \in S |-> TRUE]
           p == [id |-> i, alive |-> TRUE]
           v == <<p>>
<1>1. p \in Pointer /\ p.id = i /\ p.alive
  BY GoodPointer
<1> HIDE DEF p
<1>2. v \in Seq(Pointer) /\ DOMAIN v = {1} /\ v[1] = p
  BY <1>1
<1>3. ToSet(v) = {p} /\ IsInjective(v)
  BY <1>2 DEF ToSet, IsInjective
<1>4. S = {q.id : q \in ToSet(v)}
  BY <1>1, <1>3
<1>5. f \in [S -> BOOLEAN] /\ S \in SUBSET Ids
  OBVIOUS
<1>6. room = [players |-> f, vec |-> v] /\ room.players = f /\ room.vec = v
  BY DEF p
<1> HIDE DEF f, v, S
<1>7. Furnished(room)
  BY <1>2, <1>4, <1>5, <1>6, RoomOfParts
<1>8. \A j \in DOMAIN room.players : room.players[j]
  BY <1>6 DEF f
<1>9. \A k \in DOMAIN room.vec : room.vec[k].alive
  <2> TAKE k \in DOMAIN room.vec
  <2>1. room.vec[k] = p
    BY <1>2, <1>6
  <2> QED
    BY <1>1, <2>1, Zenon
<1> QED
  BY <1>3, <1>5, <1>6, <1>7, <1>8, <1>9 DEF S

\* Room::removePlayer takes a player out of both.
LEMMA PlayerRemoved ==
  ASSUME NEW room, Furnished(room), NEW i
  PROVE  LET after == RemovePlayer(room, i) IN
         /\ Furnished(after) /\ DOMAIN after.players = DOMAIN room.players \ {i}
         /\ \A j \in DOMAIN after.players : after.players[j] = room.players[j]
         /\ ToSet(after.vec) = {p \in ToSet(room.vec) : p.id # i}
         /\ IsInjective(room.vec) => IsInjective(after.vec)
<1> DEFINE I == {k \in DOMAIN room.vec : room.vec[k].id # i}
           S == DOMAIN room.players \ {i}
           f == [j \in S |-> room.players[j]]
           v == AtPositions(room.vec, I)
           after == RemovePlayer(room, i)
<1>1. /\ room.players \in [DOMAIN room.players -> BOOLEAN] /\ DOMAIN room.players \subseteq Ids
      /\ room.vec \in Seq(Pointer) /\ DOMAIN room.players = {p.id : p \in ToSet(room.vec)}
  BY PartsOfRoom
<1>2. /\ v \in Seq(Pointer) /\ ToSet(v) = {room.vec[k] : k \in I}
      /\ IsInjective(room.vec) => IsInjective(v)
  BY <1>1, SeatsAtPositions
<1>3. {room.vec[k] : k \in I} = {p \in ToSet(room.vec) : p.id # i}
  BY DEF ToSet
<1>4. after = [players |-> f, vec |-> v] /\ after.players = f /\ after.vec = v
  BY DEF RemovePlayer, Restrict
<1> HIDE DEF v, after
<1>5. S = {p.id : p \in ToSet(v)}
  BY <1>1, <1>2, <1>3
<1>6. f \in [S -> BOOLEAN] /\ S \in SUBSET Ids
  BY <1>1
<1>7. DOMAIN f = S /\ \A j \in S : f[j] = room.players[j]
  OBVIOUS
<1> HIDE DEF S, f
<1>8. Furnished(after)
  BY <1>2, <1>4, <1>5, <1>6, RoomOfParts
<1>9. /\ Furnished(after) /\ DOMAIN after.players = DOMAIN room.players \ {i}
      /\ \A j \in DOMAIN after.players : after.players[j] = room.players[j]
      /\ ToSet(after.vec) = {p \in ToSet(room.vec) : p.id # i}
      /\ IsInjective(room.vec) => IsInjective(after.vec)
  BY <1>2, <1>3, <1>4, <1>7, <1>8 DEF S
<1> QED
  BY <1>9 DEF after

\* Room::addPlayer puts a player into both.
LEMMA PlayerAdded ==
  ASSUME NEW room, Furnished(room), NEW i \in Ids
  PROVE  LET after == AddPlayer(room, i) IN
         /\ Furnished(after) /\ DOMAIN after.players = DOMAIN room.players \cup {i}
         /\ after.players[i] /\ \A j \in DOMAIN room.players \ {i} : after.players[j] = room.players[j]
         /\ ToSet(after.vec) = ToSet(room.vec) \cup {[id |-> i, alive |-> TRUE]}
         /\ i \notin DOMAIN room.players /\ IsInjective(room.vec) => IsInjective(after.vec)
<1> DEFINE S == DOMAIN room.players \cup {i}
           f == [j \in S |-> j = i \/ room.players[j]]
           p == [id |-> i, alive |-> TRUE]
           v == Append(room.vec, p)
           after == AddPlayer(room, i)
<1>1. /\ room.players \in [DOMAIN room.players -> BOOLEAN] /\ DOMAIN room.players \subseteq Ids
      /\ room.vec \in Seq(Pointer) /\ DOMAIN room.players = {q.id : q \in ToSet(room.vec)}
  BY PartsOfRoom
<1>2. p \in Pointer /\ p.id = i
  BY GoodPointer
<1>3. after = [players |-> f, vec |-> v] /\ after.players = f /\ after.vec = v
  BY DEF AddPlayer
<1> HIDE DEF p, after
<1>4. /\ v \in Seq(Pointer) /\ ToSet(v) = ToSet(room.vec) \cup {p}
      /\ IsInjective(room.vec) /\ p \notin ToSet(room.vec) => IsInjective(v)
  BY <1>1, <1>2, SeatsAfterAppend
<1> HIDE DEF v
<1>5. S = {q.id : q \in ToSet(v)}
  BY <1>1, <1>2, <1>4
<1>6. f \in [S -> BOOLEAN] /\ S \in SUBSET Ids
  BY <1>1
<1>7. DOMAIN f = S /\ f[i] /\ \A j \in DOMAIN room.players \ {i} : f[j] = room.players[j]
  BY <1>1
<1>8. i \notin DOMAIN room.players => p \notin ToSet(room.vec)
  BY <1>1, <1>2
<1> HIDE DEF S, f
<1>9. Furnished(after)
  BY <1>3, <1>4, <1>5, <1>6, RoomOfParts
<1>10. /\ Furnished(after) /\ DOMAIN after.players = DOMAIN room.players \cup {i}
       /\ after.players[i] /\ \A j \in DOMAIN room.players \ {i} : after.players[j] = room.players[j]
       /\ ToSet(after.vec) = ToSet(room.vec) \cup {p}
       /\ i \notin DOMAIN room.players /\ IsInjective(room.vec) => IsInjective(after.vec)
  BY <1>3, <1>4, <1>7, <1>8, <1>9 DEF S
<1> QED
  BY <1>10 DEF after, p

\* The destructor of a session leaves the pointers to it where they are.
LEMMA SessionKilled ==
  ASSUME NEW room, Furnished(room), NEW i
  PROVE  LET after == Killed(room, i) IN
         /\ Furnished(after) /\ DOMAIN after.players = DOMAIN room.players
         /\ i \notin DOMAIN room.players => after = room
<1> DEFINE S == DOMAIN room.players
           f == [j \in S |-> j # i /\ room.players[j]]
           killed(p) == IF p.id = i THEN [p EXCEPT !.alive = FALSE] ELSE p
           v == [k \in DOMAIN room.vec |-> killed(room.vec[k])]
           after == Killed(room, i)
<1>1. /\ room.players \in [S -> BOOLEAN] /\ S \subseteq Ids
      /\ room.vec \in Seq(Pointer) /\ S = {p.id : p \in ToSet(room.vec)}
      /\ room = [players |-> room.players, vec |-> room.vec]
  BY PartsOfRoom
<1>2. after = [players |-> f, vec |-> v] /\ after.players = f
  BY DEF Killed
<1>3. \A p \in Pointer : killed(p) \in Pointer /\ killed(p).id = p.id /\ (p.id # i => killed(p) = p)
  BY DEF Pointer
<1> HIDE DEF killed, after
<1>4. DOMAIN room.vec = 1 .. Len(room.vec) /\ Len(room.vec) \in Nat
      /\ \A k \in DOMAIN room.vec : room.vec[k] \in Pointer
  BY <1>1
<1>5. v \in Seq(Pointer)
  <2>1. \A k \in 1 .. Len(room.vec) : killed(room.vec[k]) \in Pointer
    BY <1>3, <1>4
  <2> QED
    BY <1>4, <2>1
<1>6. DOMAIN v = DOMAIN room.vec /\ \A k \in DOMAIN v : v[k].id = room.vec[k].id
  BY <1>3, <1>4
<1>7. {p.id : p \in ToSet(v)} = {p.id : p \in ToSet(room.vec)}
  <2> DEFINE w == room.vec
  <2> HIDE DEF v, w
  <2>1. DOMAIN v = DOMAIN w /\ \A k \in DOMAIN v : v[k].id = w[k].id
    BY <1>6 DEF w
  <2>2. {p.id : p \in ToSet(v)} = {p.id : p \in ToSet(w)}
    BY <2>1 DEF ToSet
  <2> QED
    BY <2>2 DEF w
<1>8. f \in [S -> BOOLEAN]
  BY <1>1
<1>9. ASSUME i \notin S
      PROVE  f = room.players /\ v = room.vec
  <2>1. f = room.players
    BY <1>1, <1>9
  <2>2. \A k \in DOMAIN room.vec : v[k] = room.vec[k]
    <3> TAKE k \in DOMAIN room.vec
    <3>1. room.vec[k] \in ToSet(room.vec)
      BY DEF ToSet
    <3>2. room.vec[k].id # i
      BY <1>1, <1>9, <3>1
    <3> QED
      BY <1>3, <1>4, <3>2
  <2>3. v = [k \in DOMAIN room.vec |-> v[k]] /\ room.vec = [k \in DOMAIN room.vec |-> room.vec[k]]
    BY <1>1
  <2> HIDE DEF v
  <2>4. v = room.vec
    BY <2>2, <2>3, Zenon
  <2> QED
    BY <2>1, <2>4
<1> HIDE DEF f, v
<1>10. Furnished(after)
  BY <1>1, <1>2, <1>5, <1>7, <1>8, RoomOfParts
<1>11. DOMAIN after.players = S
  BY <1>2, <1>8
<1>12. i \notin S => after = room
  BY <1>1, <1>2, <1>9
<1> QED
  BY <1>10, <1>11, <1>12 DEF after

\* RoomsManager::addRoom
LEMMA RoomAddedSeats ==
  ASSUME SeatsInv, NEW i \in Ids, RoomAdded(i)
  PROVE  /\ SeatsInv'
         /\ NewRoomNumber \notin DOMAIN rooms /\ roomOf' = Entered(roomOf, i, NewRoomNumber)
         /\ ExactRooms /\ i \notin DOMAIN roomOf => ExactRooms'
<1> DEFINE r == NewRoomNumber
           room == [players |-> [j \in {i} |-> TRUE], vec |-> <<[id |-> i, alive |-> TRUE]>>]
<1>1. r \notin DOMAIN rooms
  <2> DEFINE free == (1 .. MaxSessionIDs + 1) \ DOMAIN rooms
  <2>1. IsFiniteSet(Ids) /\ Cardinality(Ids) = MaxSessionIDs
    BY FS_Interval, MaxSessionIDsAssumption DEF Ids
  <2>2. \E n \in 1 .. MaxSessionIDs + 1 : n \notin Range(roomOf)
    BY <2>1, OneNumberFree DEF SeatsInv
  <2>3. free \in SUBSET Nat /\ free # {}
    BY <2>2, MaxSessionIDsAssumption DEF SeatsInv
  <2> HIDE DEF free
  <2>4. Min(free) \in free
    BY <2>3, LeastIsOne
  <2> QED
    BY <2>4 DEF free, NewRoomNumber
<1>2. /\ roomOf' = Entered(roomOf, i, r)
      /\ rooms' = Keeping([x \in DOMAIN rooms \cup {r} |-> IF x = r THEN room ELSE rooms[x]],
                          roomOf')
  BY DEF RoomAdded
<1>3. /\ Furnished(room) /\ DOMAIN room.players = {i}
      /\ \A j \in DOMAIN room.players : room.players[j]
      /\ \A k \in DOMAIN room.vec : room.vec[k].alive
      /\ IsInjective(room.vec)
  BY NewRoom
<1> HIDE DEF r, room
<1>4. /\ DOMAIN roomOf' = DOMAIN roomOf \cup {i} /\ roomOf'[i] = r
      /\ \A j \in DOMAIN roomOf \ {i} : roomOf'[j] = roomOf[j]
      /\ roomOf' = [j \in DOMAIN roomOf' |-> roomOf'[j]]
  BY <1>2 DEF Entered
<1>5. Range(roomOf') \subseteq DOMAIN rooms \cup {r}
  BY <1>4 DEF Range, SeatsInv
<1>6. /\ DOMAIN rooms' = Range(roomOf') /\ rooms' = [x \in DOMAIN rooms' |-> rooms'[x]]
      /\ \A x \in DOMAIN rooms' : rooms'[x] = IF x = r THEN room ELSE rooms[x]
  BY <1>2, <1>5 DEF Keeping, Restrict
<1>7. r \in DOMAIN rooms' /\ \A x \in DOMAIN rooms' \ {r} : x \in DOMAIN rooms
  BY <1>4, <1>5, <1>6 DEF Range
<1>8. SeatsInv'
  <2>1. \A x \in DOMAIN rooms' : Furnished(rooms'[x])
    BY <1>3, <1>6, <1>7 DEF SeatsInv
  <2>2. ASSUME NEW j \in DOMAIN roomOf'
        PROVE  j \in DOMAIN rooms'[roomOf'[j]].players
    <3>1. roomOf'[j] \in DOMAIN rooms'
      BY <1>6 DEF Range
    <3>2. CASE j = i
      BY <1>3, <1>4, <1>6, <3>1, <3>2
    <3>3. CASE j # i
      <4>1. j \in DOMAIN roomOf /\ roomOf'[j] = roomOf[j]
        BY <1>4, <3>3
      <4>2. roomOf[j] \in DOMAIN rooms /\ roomOf[j] # r
        BY <1>1, <4>1 DEF SeatsInv, Range, r
      <4> QED
        BY <1>6, <3>1, <4>1, <4>2 DEF SeatsInv
    <3> QED
      BY <3>2, <3>3
  <2>3. DOMAIN roomOf' \subseteq Ids
    BY <1>4 DEF SeatsInv
  <2> QED
    BY <1>4, <1>6, <2>1, <2>2, <2>3 DEF SeatsInv
<1>9. ASSUME ExactRooms, i \notin DOMAIN roomOf
      PROVE  ExactRooms'
  <2> SUFFICES ASSUME NEW x \in DOMAIN rooms'
               PROVE  Exact(rooms'[x], x, roomOf')
    BY DEF ExactRooms
  <2>1. CASE x = r
    <3>1. {j \in DOMAIN roomOf' : roomOf'[j] = r} = {i}
      BY <1>1, <1>4, <1>9 DEF SeatsInv, Range, r
    <3>2. rooms'[x] = room
      BY <1>6, <2>1
    <3> QED
      BY <1>3, <2>1, <3>1, <3>2 DEF Exact
  <2>2. CASE x # r
    <3>1. x \in DOMAIN rooms /\ rooms'[x] = rooms[x]
      BY <1>6, <1>7, <2>2
    <3>2. {j \in DOMAIN roomOf' : roomOf'[j] = x} = {j \in DOMAIN roomOf : roomOf[j] = x}
      BY <1>4, <1>9, <2>2
    <3> QED
      BY <1>9, <3>1, <3>2 DEF ExactRooms, Exact
  <2> QED
    BY <2>1, <2>2
<1> QED
  BY <1>1, <1>2, <1>8, <1>9 DEF r

\* RoomsManager::removePlayerFromRoom
LEMMA RemovedSeats ==
  ASSUME SeatsInv, NEW i, RemovePlayerFromRoom(i)
  PROVE  /\ SeatsInv'
         /\ roomOf' = [j \in DOMAIN roomOf \ {i} |-> roomOf[j]]
         /\ ExactRooms => ExactRooms'
<1> DEFINE r == roomOf[i]
           after == RemovePlayer(rooms[r], i)
<1>1. i \in DOMAIN roomOf /\ r \in DOMAIN rooms /\ Furnished(rooms[r])
  BY DEF RemovePlayerFromRoom, SeatsInv, Range
<1>2. /\ Furnished(after) /\ DOMAIN after.players = DOMAIN rooms[r].players \ {i}
      /\ \A j \in DOMAIN after.players : after.players[j] = rooms[r].players[j]
      /\ ToSet(after.vec) = {p \in ToSet(rooms[r].vec) : p.id # i}
      /\ IsInjective(rooms[r].vec) => IsInjective(after.vec)
  BY <1>1, PlayerRemoved
<1>3. /\ roomOf' = [j \in DOMAIN roomOf \ {i} |-> roomOf[j]]
      /\ rooms' = Keeping([rooms EXCEPT ![r] = after], roomOf')
  BY DEF RemovePlayerFromRoom, Restrict
<1> HIDE DEF after
<1>4. /\ DOMAIN roomOf' = DOMAIN roomOf \ {i} /\ \A j \in DOMAIN roomOf' : roomOf'[j] = roomOf[j]
      /\ roomOf' = [j \in DOMAIN roomOf' |-> roomOf'[j]]
  BY <1>3
<1>5. Range(roomOf') \subseteq DOMAIN rooms
  BY <1>4 DEF Range, SeatsInv
<1>6. /\ DOMAIN rooms' = Range(roomOf') /\ rooms' = [x \in DOMAIN rooms' |-> rooms'[x]]
      /\ \A x \in DOMAIN rooms' : x \in DOMAIN rooms /\ rooms'[x] = IF x = r THEN after ELSE rooms[x]
  BY <1>3, <1>5 DEF Keeping, Restrict
<1> HIDE DEF r
<1>7. SeatsInv'
  <2>1. \A x \in DOMAIN rooms' : Furnished(rooms'[x])
    BY <1>2, <1>6 DEF SeatsInv
  <2>2. ASSUME NEW j \in DOMAIN roomOf'
        PROVE  j \in DOMAIN rooms'[roomOf'[j]].players
    <3>1. roomOf'[j] \in DOMAIN rooms' /\ j \in DOMAIN roomOf /\ j # i /\ roomOf'[j] = roomOf[j]
      BY <1>4, <1>6 DEF Range
    <3>2. j \in DOMAIN rooms[roomOf[j]].players
      BY <3>1 DEF SeatsInv
    <3> QED
      BY <1>2, <1>6, <3>1, <3>2
  <2>3. DOMAIN roomOf' \subseteq Ids
    BY <1>4 DEF SeatsInv
  <2> QED
    BY <1>4, <1>6, <2>1, <2>2, <2>3 DEF SeatsInv
<1>8. ASSUME ExactRooms
      PROVE  ExactRooms'
  <2> SUFFICES ASSUME NEW x \in DOMAIN rooms'
               PROVE  Exact(rooms'[x], x, roomOf')
    BY DEF ExactRooms
  <2>1. Exact(rooms[x], x, roomOf)
    BY <1>6, <1>8 DEF ExactRooms
  <2>2. CASE x = r
    <3>1. rooms'[x] = after
      BY <1>6, <2>2
    <3>2. DOMAIN after.players = {j \in DOMAIN roomOf' : roomOf'[j] = x}
      BY <1>2, <1>4, <2>1, <2>2 DEF Exact
    <3>3. \A j \in DOMAIN after.players : after.players[j]
      BY <1>2, <2>1, <2>2 DEF Exact
    <3>4. \A k \in DOMAIN after.vec : after.vec[k].alive
      <4> TAKE k \in DOMAIN after.vec
      <4>1. after.vec[k] \in ToSet(rooms[r].vec)
        BY <1>2 DEF ToSet
      <4>2. PICK l \in DOMAIN rooms[r].vec : after.vec[k] = rooms[r].vec[l]
        BY <4>1 DEF ToSet
      <4>3. rooms[r].vec[l].alive
        BY <2>1, <2>2 DEF Exact
      <4> QED
        BY <4>2, <4>3, Zenon
    <3>5. IsInjective(after.vec)
      BY <1>2, <2>1, <2>2 DEF Exact
    <3> QED
      BY <3>1, <3>2, <3>3, <3>4, <3>5 DEF Exact
  <2>3. CASE x # r
    <3>1. rooms'[x] = rooms[x]
      BY <1>6, <2>3
    <3>2. {j \in DOMAIN roomOf' : roomOf'[j] = x} = {j \in DOMAIN roomOf : roomOf[j] = x}
      BY <1>4, <2>3 DEF r
    <3> QED
      BY <2>1, <3>1, <3>2 DEF Exact
  <2> QED
    BY <2>2, <2>3
<1> QED
  BY <1>3, <1>7, <1>8

\* RoomsManager::switchRoomJoinOrExit, for somebody who is outside
LEMMA JoinedSeats ==
  ASSUME SeatsInv, NEW i \in Ids, i \notin DOMAIN roomOf, NEW h \in DOMAIN roomOf,
         rooms' = [rooms EXCEPT ![roomOf[h]] = AddPlayer(@, i)],
         roomOf' = Entered(roomOf, i, roomOf[h])
  PROVE  SeatsInv' /\ (ExactRooms => ExactRooms')
<1> DEFINE r == roomOf[h]
           after == AddPlayer(rooms[r], i)
<1>1. r \in DOMAIN rooms /\ Furnished(rooms[r])
  BY DEF SeatsInv, Range
<1>2. /\ Furnished(after) /\ DOMAIN after.players = DOMAIN rooms[r].players \cup {i}
      /\ after.players[i]
      /\ \A j \in DOMAIN rooms[r].players \ {i} : after.players[j] = rooms[r].players[j]
      /\ ToSet(after.vec) = ToSet(rooms[r].vec) \cup {[id |-> i, alive |-> TRUE]}
      /\ i \notin DOMAIN rooms[r].players /\ IsInjective(rooms[r].vec) => IsInjective(after.vec)
  BY ZenonT(30), <1>1, PlayerAdded
<1>3. rooms' = [rooms EXCEPT ![r] = after]
  OBVIOUS
<1> HIDE DEF after
<1>4. /\ DOMAIN roomOf' = DOMAIN roomOf \cup {i} /\ roomOf'[i] = r
      /\ \A j \in DOMAIN roomOf : roomOf'[j] = roomOf[j]
      /\ roomOf' = [j \in DOMAIN roomOf' |-> roomOf'[j]]
  BY DEF Entered
<1>5. Range(roomOf') = DOMAIN rooms
  BY <1>1, <1>4 DEF Range, SeatsInv
<1>6. /\ DOMAIN rooms' = DOMAIN rooms /\ rooms' = [x \in DOMAIN rooms' |-> rooms'[x]]
      /\ \A x \in DOMAIN rooms : rooms'[x] = IF x = r THEN after ELSE rooms[x]
  BY <1>3 DEF SeatsInv
<1> HIDE DEF r
<1>7. SeatsInv'
  <2>1. \A x \in DOMAIN rooms' : Furnished(rooms'[x])
    BY <1>2, <1>6 DEF SeatsInv
  <2>2. ASSUME NEW j \in DOMAIN roomOf'
        PROVE  j \in DOMAIN rooms'[roomOf'[j]].players
    <3>1. roomOf'[j] \in DOMAIN rooms
      BY <1>5 DEF Range
    <3>2. CASE j = i
      BY <1>1, <1>2, <1>4, <1>6, <3>2
    <3>3. CASE j # i
      <4>1. j \in DOMAIN rooms[roomOf[j]].players /\ roomOf'[j] = roomOf[j]
        BY <1>4, <3>3 DEF SeatsInv
      <4> QED
        BY <1>2, <1>6, <3>1, <4>1
    <3> QED
      BY <3>2, <3>3
  <2>3. DOMAIN roomOf' \subseteq Ids
    BY <1>4 DEF SeatsInv
  <2> QED
    BY <1>4, <1>5, <1>6, <2>1, <2>2, <2>3 DEF SeatsInv
<1>8. ASSUME ExactRooms
      PROVE  ExactRooms'
  <2> SUFFICES ASSUME NEW x \in DOMAIN rooms
               PROVE  Exact(rooms'[x], x, roomOf')
    BY <1>6 DEF ExactRooms
  <2>1. Exact(rooms[x], x, roomOf)
    BY <1>8 DEF ExactRooms
  <2>2. CASE x = r
    <3>1. rooms'[x] = after /\ i \notin DOMAIN rooms[r].players
      BY <1>6, <2>1, <2>2 DEF Exact
    <3>2. DOMAIN after.players = {j \in DOMAIN roomOf' : roomOf'[j] = x}
      BY <1>2, <1>4, <2>1, <2>2 DEF Exact
    <3>3. \A j \in DOMAIN after.players : after.players[j]
      BY <1>2, <2>1, <2>2 DEF Exact
    <3>4. \A k \in DOMAIN after.vec : after.vec[k].alive
      <4> TAKE k \in DOMAIN after.vec
      <4>1. after.vec[k] \in ToSet(after.vec)
        BY DEF ToSet
      <4>2. CASE after.vec[k] = [id |-> i, alive |-> TRUE]
        <5>1. [id |-> i, alive |-> TRUE].alive
          BY GoodPointer
        <5> QED
          BY <4>2, <5>1, Zenon
      <4>3. CASE after.vec[k] \in ToSet(rooms[r].vec)
        <5>1. PICK l \in DOMAIN rooms[r].vec : after.vec[k] = rooms[r].vec[l]
          BY <4>3 DEF ToSet
        <5>2. rooms[r].vec[l].alive
          BY <2>1, <2>2 DEF Exact
        <5> QED
          BY <5>1, <5>2, Zenon
      <4> QED
        BY <1>2, <4>1, <4>2, <4>3
    <3>5. IsInjective(after.vec)
      BY <1>2, <2>1, <2>2, <3>1 DEF Exact
    <3> QED
      BY <3>1, <3>2, <3>3, <3>4, <3>5 DEF Exact
  <2>3. CASE x # r
    <3>1. rooms'[x] = rooms[x]
      BY <1>6, <2>3
    <3>2. {j \in DOMAIN roomOf' : roomOf'[j] = x} = {j \in DOMAIN roomOf : roomOf[j] = x}
      BY <1>4, <2>3
    <3> QED
      BY <2>1, <3>1, <3>2 DEF Exact
  <2> QED
    BY <2>2, <2>3
<1> QED
  BY <1>7, <1>8

\* A session that is destroyed in no room changes none.
LEMMA KilledSeats ==
  ASSUME SeatsInv, NEW i, roomOf' = roomOf, rooms' = [r \in DOMAIN rooms |-> Killed(rooms[r], i)]
  PROVE  SeatsInv' /\ (ExactRooms /\ i \notin DOMAIN roomOf => rooms' = rooms)
<1>1. \A r \in DOMAIN rooms :
        /\ Furnished(rooms'[r]) /\ DOMAIN rooms'[r].players = DOMAIN rooms[r].players
        /\ i \notin DOMAIN rooms[r].players => rooms'[r] = rooms[r]
  BY SessionKilled DEF SeatsInv
<1>2. DOMAIN rooms' = DOMAIN rooms /\ rooms' = [r \in DOMAIN rooms' |-> rooms'[r]]
  OBVIOUS
<1>3. SeatsInv'
  <2>1. ASSUME NEW j \in DOMAIN roomOf
        PROVE  j \in DOMAIN rooms'[roomOf[j]].players
    <3>1. roomOf[j] \in DOMAIN rooms /\ j \in DOMAIN rooms[roomOf[j]].players
      BY DEF SeatsInv, Range
    <3> QED
      BY <1>1, <3>1
  <2> QED
    BY <1>1, <1>2, <2>1 DEF SeatsInv
<1>4. ASSUME ExactRooms, i \notin DOMAIN roomOf
      PROVE  rooms' = rooms
  <2>1. \A r \in DOMAIN rooms : rooms'[r] = rooms[r]
    BY <1>1, <1>4 DEF ExactRooms, Exact
  <2>2. rooms = [r \in DOMAIN rooms |-> rooms[r]]
    BY DEF SeatsInv
  <2> QED
    BY <1>2, <2>1, <2>2, Zenon
<1> QED
  BY <1>3, <1>4

----------------------------------------------------------------------------
(* The main server, and the messages of the clients *)

LEMMA Numbers ==
  /\ NoRoom \notin MainRoomNumbers /\ NoId \notin Ids /\ None \notin Clients
  /\ "main" \in Servers /\ "cast" \in Servers /\ "main" # "cast"
BY ConstantsAssumption DEF NoRoom, MainRoomNumbers, NoId, Ids, Servers

LEMMA Messages ==
  /\ [kind |-> "create"] \in Message /\ Enters([kind |-> "create"])
  /\ [kind |-> "leave"] \in Message /\ ~ Enters([kind |-> "leave"])
  /\ [kind |-> "crash"] \in Message /\ ~ Enters([kind |-> "crash"])
  /\ \A i \in Ids : [kind |-> "join", host |-> i] \in Message /\ Enters([kind |-> "join", host |-> i])
BY DEF Message, Enters

\* What is told last stands last, behind what was told before.
LEMMA OneMoreTold ==
  ASSUME NEW q \in Seq(Message), NEW m \in Message
  PROVE  /\ Append(q, m) \in Seq(Message) /\ Append(q, m) # << >> /\ Len(Append(q, m)) = Len(q) + 1
         /\ Final(Append(q, m)) = m
         /\ Head(Append(q, m)) = IF q = << >> THEN m ELSE Head(q)
         /\ \A k \in 1 .. Len(q) : Append(q, m)[k] = q[k]
         /\ q # << >> => Len(q) # 0 /\ q[Len(q)] = Final(q)
BY AppendProperties DEF Final

\* What has been read stood first; the others follow as they were.
LEMMA OneReadLess ==
  ASSUME NEW q \in Seq(Message), q # << >>
  PROVE  /\ Tail(q) \in Seq(Message) /\ Len(Tail(q)) = Len(q) - 1 /\ Len(q) \in Nat /\ Len(q) # 0
         /\ \A k \in 1 .. Len(q) - 1 : Tail(q)[k] = q[k + 1]
         /\ Head(q) = q[1] /\ Head(q) \in Message
         /\ Tail(q) # << >> => Head(Tail(q)) = q[2] /\ 1 \in 1 .. Len(q) - 1 /\ Final(Tail(q)) = Final(q)
         /\ Tail(q) = << >> => Final(q) = Head(q)
<1> DEFINE t == Tail(q)
<1>1. Len(q) \in Nat /\ Len(q) # 0 /\ Head(q) = q[1] /\ q[1] \in Message
  OBVIOUS
<1>2. t \in Seq(Message) /\ Len(t) = Len(q) - 1 /\ \A k \in 1 .. Len(q) - 1 : t[k] = q[k + 1]
  OBVIOUS
<1> HIDE DEF t
<1>3. t # << >> => Len(t) # 0 /\ Head(t) = t[1]
  BY <1>2
<1>4. t # << >> => 1 \in 1 .. Len(q) - 1 /\ Len(q) - 1 \in 1 .. Len(q) - 1
  BY <1>1, <1>2, <1>3
<1>5. t # << >> => Head(t) = q[2] /\ t[Len(t)] = q[Len(q)]
  BY <1>1, <1>2, <1>3, <1>4
<1>6. t = << >> => Len(t) = 0
  OBVIOUS
<1>7. t = << >> => Len(q) = 1
  BY <1>1, <1>2, <1>6
<1> QED
  BY <1>1, <1>2, <1>3, <1>4, <1>5, <1>7 DEF Final, t

LEMMA TurnsTold ==
  ASSUME NEW q \in Seq(Message), NEW m \in Message, ByTurns(q),
         q # << >> => (Enters(Final(q)) <=> ~ Enters(m))
  PROVE  ByTurns(Append(q, m))
<1> DEFINE t == Append(q, m)
<1>1. /\ Len(t) = Len(q) + 1 /\ t # << >> /\ Final(t) = m /\ Len(q) \in Nat
      /\ \A k \in 1 .. Len(q) : t[k] = q[k]
      /\ q # << >> => Len(q) # 0 /\ q[Len(q)] = Final(q)
  BY OneMoreTold
<1>2. t[Len(t)] = m
  BY <1>1 DEF Final
<1> HIDE DEF t
<1> SUFFICES ASSUME NEW k \in 1 .. Len(t) - 1
             PROVE  Enters(t[k]) <=> ~ Enters(t[k + 1])
  BY DEF ByTurns, t
<1>3. CASE k = Len(q)
  <2>1. q # << >> /\ t[k] = Final(q) /\ t[k + 1] = m
    BY <1>1, <1>2, <1>3
  <2> QED
    BY <2>1
<1>4. CASE k # Len(q)
  <2>1. k \in 1 .. Len(q) - 1 /\ k \in 1 .. Len(q) /\ k + 1 \in 1 .. Len(q)
    BY <1>1, <1>4
  <2>2. t[k] = q[k] /\ t[k + 1] = q[k + 1]
    BY <1>1, <2>1
  <2> QED
    BY <2>1, <2>2 DEF ByTurns
<1> QED
  BY <1>3, <1>4

LEMMA TurnsRead ==
  ASSUME NEW q \in Seq(Message), q # << >>, ByTurns(q)
  PROVE  /\ ByTurns(Tail(q))
         /\ Tail(q) # << >> => (Enters(Head(Tail(q))) <=> ~ Enters(Head(q)))
<1> DEFINE t == Tail(q)
<1>1. /\ Len(t) = Len(q) - 1 /\ Len(q) \in Nat /\ Len(q) # 0
      /\ \A k \in 1 .. Len(q) - 1 : t[k] = q[k + 1]
      /\ Head(q) = q[1]
      /\ t # << >> => Head(t) = q[2] /\ 1 \in 1 .. Len(q) - 1
  BY OneReadLess
<1> HIDE DEF t
<1>2. ASSUME NEW k \in 1 .. Len(t) - 1
      PROVE  Enters(t[k]) <=> ~ Enters(t[k + 1])
  <2>1. k \in 1 .. Len(q) - 1 /\ k + 1 \in 1 .. Len(q) - 1
    BY <1>1
  <2>2. t[k] = q[k + 1] /\ t[k + 1] = q[(k + 1) + 1]
    BY <1>1, <2>1
  <2> QED
    BY <2>1, <2>2 DEF ByTurns
<1>3. ByTurns(t)
  BY <1>2 DEF ByTurns
<1>4. t # << >> => (Enters(Head(t)) <=> ~ Enters(Head(q)))
  <2> SUFFICES ASSUME t # << >>
               PROVE  Enters(q[2]) <=> ~ Enters(q[1])
    BY <1>1
  <2>1. 1 \in 1 .. Len(q) - 1 /\ 1 + 1 = 2
    BY <1>1
  <2> QED
    BY <2>1 DEF ByTurns
<1> QED
  BY <1>3, <1>4 DEF t

\* Leaving a room of the main server: a room without a host is empty, and a host is in its room.
LEMMA LeftInOrder ==
  ASSUME MainInv, NEW c \in Clients, MainRoomLeft(c)
  PROVE  /\ at' = [at EXCEPT ![c] = NoRoom] /\ at' \in [Clients -> MainRoomNumbers \cup {NoRoom}]
         /\ host' \in [MainRoomNumbers -> Clients \cup {None}]
         /\ \A r \in MainRoomNumbers : host'[r] # None => at'[host'[r]] = r
         /\ \A d \in Clients : at'[d] # NoRoom => host'[at'[d]] # None
<1>1. at' = [at EXCEPT ![c] = NoRoom] /\ at \in [Clients -> MainRoomNumbers \cup {NoRoom}]
      /\ host \in [MainRoomNumbers -> Clients \cup {None}]
      /\ \A r \in MainRoomNumbers : host[r] # None => at[host[r]] = r
      /\ \A d \in Clients : at[d] # NoRoom => host[at[d]] # None
  BY DEF MainRoomLeft, MainInv, Present
<1>2. \A d \in Clients : at'[d] = IF d = c THEN NoRoom ELSE at[d]
  BY <1>1
<1>3. ASSUME NEW d \in Clients, at'[d] # NoRoom
      PROVE  at'[d] = at[d] /\ host[at[d]] # None
  <2>1. at'[d] = at[d] /\ at[d] # NoRoom
    BY <1>2, <1>3
  <2> QED
    BY <2>1, Zenon DEF MainInv, Present
<1>4. at' \in [Clients -> MainRoomNumbers \cup {NoRoom}]
  BY <1>1
<1>5. CASE at[c] # NoRoom /\ host[at[c]] = c
  <2> DEFINE r0 == at[c]
             others == {d \in Clients \ {c} : at[d] = r0}
  <2>1. r0 \in MainRoomNumbers
    BY <1>1, <1>5
  <2>2. PICK h \in IF others = {} THEN {None} ELSE others : host' = [host EXCEPT ![r0] = h]
    BY <1>5 DEF MainRoomLeft
  <2>3. h \in Clients \cup {None} /\ \A r \in MainRoomNumbers : host'[r] = IF r = r0 THEN h ELSE host[r]
    BY <1>1, <2>2
  <2>4. host' \in [MainRoomNumbers -> Clients \cup {None}]
    BY <1>1, <2>2, <2>3
  <2>5. ASSUME NEW r \in MainRoomNumbers, host'[r] # None
        PROVE  at'[host'[r]] = r
    <3>1. CASE r = r0
      BY <1>2, <2>2, <2>3, <2>5, <3>1
    <3>2. CASE r # r0
      <4>1. host[r] \in Clients /\ at[host[r]] = r /\ host'[r] = host[r]
        BY <1>1, <2>3, <2>5, <3>2
      <4> QED
        BY <1>2, <3>2, <4>1
    <3> QED
      BY <3>1, <3>2
  <2>6. ASSUME NEW d \in Clients, at'[d] # NoRoom
        PROVE  host'[at'[d]] # None
    <3>1. d # c /\ at'[d] = at[d] /\ at[d] \in MainRoomNumbers
      BY <1>1, <1>2, <2>6
    <3>2. CASE at[d] = r0
      <4>1. d \in others
        BY <3>1, <3>2
      <4>2. h \in Clients
        BY <2>2, <4>1
      <4> QED
        BY <2>1, <2>3, <3>1, <3>2, <4>2, Numbers
    <3>3. CASE at[d] # r0
      <4>1. host[at[d]] # None
        BY <1>3, <2>6, <3>1
      <4>2. host'[at[d]] = host[at[d]]
        BY <2>3, <3>1, <3>3
      <4> QED
        BY <3>1, <4>1, <4>2
    <3> QED
      BY <3>2, <3>3
  <2> QED
    BY <1>1, <1>4, <2>4, <2>5, <2>6
<1>6. CASE ~ (at[c] # NoRoom /\ host[at[c]] = c)
  <2>1. host' = host
    BY <1>6 DEF MainRoomLeft
  <2>2. ASSUME NEW r \in MainRoomNumbers, host[r] # None
        PROVE  at'[host[r]] = r
    <3>1. host[r] \in Clients /\ at[host[r]] = r
      BY <1>1, <2>2
    <3>2. host[r] # c
      BY <1>6, <2>2, <3>1, Numbers
    <3> QED
      BY <1>2, <3>1, <3>2
  <2>3. ASSUME NEW d \in Clients, at'[d] # NoRoom
        PROVE  host[at'[d]] # None
    <3>1. at'[d] = at[d] /\ host[at[d]] # None
      BY <1>3, <2>3
    <3> QED
      BY <3>1
  <2> QED
    BY <1>1, <1>4, <2>1, <2>2, <2>3
<1> QED
  BY <1>5, <1>6

\* A client tells one more message.
LEMMA ToldMessage ==
  ASSUME MainInv, NEW c \in Clients, NEW m \in Message, Tell(c, m)
  PROVE  /\ outbox' \in [Clients -> Seq(Message)]
         /\ outbox'[c] = Append(outbox[c], m) /\ outbox[c] \in Seq(Message)
         /\ \A d \in Clients \ {c} : outbox'[d] = outbox[d]
BY OneMoreTold DEF MainInv, Tell

\* One message of a client is handled.
LEMMA ReadMessage ==
  ASSUME MainInv, NEW c \in Clients, NEW kind, Receives(c, kind)
  PROVE  /\ outbox' \in [Clients -> Seq(Message)] /\ outbox[c] \in Seq(Message) /\ outbox[c] # << >>
         /\ outbox'[c] = Tail(outbox[c]) /\ Head(outbox[c]).kind = kind
         /\ \A d \in Clients \ {c} : outbox'[d] = outbox[d]
BY OneReadLess DEF MainInv, Receives

LEMMA CastBegin == Init => SeatsInv /\ MainInv /\ HistoryInv
<1> SUFFICES ASSUME Init
             PROVE  SeatsInv /\ MainInv /\ HistoryInv
  OBVIOUS
<1>1. SeatsInv
  BY DEF Init, SeatsInv, Range
<1>2. MainInv
  <2>1. /\ running = {} /\ at = [c \in Clients |-> NoRoom] /\ host = [r \in MainRoomNumbers |-> None]
        /\ outbox = [c \in Clients |-> << >>]
    BY DEF Init
  <2>2. << >> \in Seq(Message)
    OBVIOUS
  <2> QED
    BY <2>1, <2>2 DEF MainInv, Present
<1>3. HistoryInv
  <2>1. stopped = FALSE /\ mishaps = {} /\ lost = 0 /\ MaxMishaps \in Nat
    BY ConstantsAssumption DEF Init
  <2>2. stopped \in BOOLEAN /\ StopsHaveACause
    BY <2>1, Zenon DEF StopsHaveACause
  <2>3. mishaps \subseteq Mishaps /\ lost \in 0 .. MaxMishaps
    BY <2>1
  <2> QED
    BY <2>2, <2>3, Zenon DEF HistoryInv
<1> QED
  BY <1>1, <1>2, <1>3

\* Ids are given while a session opens, and taken when it closes.
LEMMA IdsGiven ==
  ASSUME IdInv, NEW s \in Servers, NEW c \in Clients, id[s][c] = NoId, Accepted(s, c)
  PROVE  /\ id'[s][c] \in Ids /\ \A d \in Clients : id[s][d] # id'[s][c]
         /\ \A t \in Servers, d \in Clients : t # s \/ d # c => id'[t][d] = id[t][d]
<1>1. pool[s] \in Seq(Ids) /\ pool[s] # << >> /\ id[s] \in [Clients -> Ids \cup {NoId}]
  BY DEF IdInv, IdTypes, Accepted, HasId
<1>2. AccountedFor(pool[s], id[s])
  BY EachServer DEF IdInv
<1>3. NewSessionID(pool[s]) \in ToSet(pool[s]) /\ ToSet(pool[s]) = Ids \ (Range(id[s]) \ {NoId})
  BY <1>1, <1>2, PopTop DEF AccountedFor
<1>4. id'[s][c] = NewSessionID(pool[s])
      /\ \A t \in Servers, d \in Clients : t # s \/ d # c => id'[t][d] = id[t][d]
  BY DEF Accepted, IdInv, IdTypes
<1>5. \A d \in Clients : id[s][d] \in Range(id[s])
  BY <1>1 DEF Range
<1> QED
  BY <1>3, <1>4, <1>5, Numbers

LEMMA IdsTaken ==
  ASSUME IdInv, NEW s \in Servers, NEW c \in Clients, Closed(s, c)
  PROVE  /\ id'[s][c] = NoId
         /\ \A t \in Servers, d \in Clients : t # s \/ d # c => id'[t][d] = id[t][d]
BY DEF Closed, IdInv, IdTypes

LEMMA MainStep ==
  ASSUME IdInv, MainInv, [Next]_vars
  PROVE  MainInv'
<1>1. /\ running \subseteq Clients
      /\ at \in [Clients -> MainRoomNumbers \cup {NoRoom}]
      /\ host \in [MainRoomNumbers -> Clients \cup {None}]
      /\ outbox \in [Clients -> Seq(Message)]
      /\ \A r \in MainRoomNumbers : host[r] # None => at[host[r]] = r
      /\ \A c \in Clients :
           /\ at[c] # NoRoom => host[at[c]] # None /\ id["main"][c] # NoId
           /\ c \in running => id["main"][c] # NoId
           /\ c \in running /\ at[c] # NoRoom => id["cast"][c] # NoId
           /\ outbox[c] # << >> => id["cast"][c] # NoId
  BY DEF MainInv, Present
<1>2. CASE UNCHANGED vars
  BY <1>1, <1>2 DEF MainInv, Present, vars, clientVars, mainVars
<1>3. ASSUME NEW c \in Clients, ConnectMain(c)
      PROVE  MainInv'
  <2>1. /\ running' = running \cup {c} /\ outbox' = outbox /\ at' = at /\ host' = host
        /\ id["main"][c] = NoId /\ id["cast"][c] = NoId
    BY <1>3, Numbers DEF ConnectMain, mainVars
  <2>2. /\ id'["main"][c] # NoId
        /\ \A t \in Servers, d \in Clients : t # "main" \/ d # c => id'[t][d] = id[t][d]
    BY <1>3, <2>1, IdsGiven, Numbers DEF ConnectMain
  <2>3. \A d \in Clients : id'["cast"][d] = id["cast"][d] /\ (d # c => id'["main"][d] = id["main"][d])
    BY <2>2, Numbers
  <2>4. at[c] = NoRoom /\ c \notin running
    BY <1>1, <2>1
  <2>5. ASSUME NEW d \in Clients
        PROVE  /\ at'[d] # NoRoom => host'[at'[d]] # None /\ id'["main"][d] # NoId
               /\ d \in running' => id'["main"][d] # NoId
               /\ d \in running' /\ at'[d] # NoRoom => id'["cast"][d] # NoId
               /\ outbox'[d] # << >> => id'["cast"][d] # NoId
    <3>1. CASE d = c
      BY <1>1, <2>1, <2>2, <2>3, <2>4, <3>1
    <3>2. CASE d # c
      BY <1>1, <2>1, <2>3, <3>2
    <3> QED
      BY <3>1, <3>2
  <2> QED
    BY <1>1, <2>1, <2>5 DEF MainInv, Present
<1>4. ASSUME NEW c \in Clients, ConnectCast(c)
      PROVE  MainInv'
  <2>1. /\ running' = running /\ outbox' = outbox /\ at' = at /\ host' = host
        /\ id["cast"][c] = NoId
    BY <1>4 DEF ConnectCast, clientVars, mainVars
  <2>2. /\ id'["cast"][c] # NoId
        /\ \A t \in Servers, d \in Clients : t # "cast" \/ d # c => id'[t][d] = id[t][d]
    BY <1>4, <2>1, IdsGiven, Numbers DEF ConnectCast
  <2>3. \A d \in Clients : id'["main"][d] = id["main"][d] /\ (d # c => id'["cast"][d] = id["cast"][d])
    BY <2>2, Numbers
  <2> QED
    BY <1>1, <2>1, <2>2, <2>3 DEF MainInv, Present
<1>5. ASSUME NEW c \in Clients, ConnectionRefused(c) \/ Undefined(c)
      PROVE  MainInv'
  BY <1>1, <1>5 DEF ConnectionRefused, Undefined, MainInv, Present, clientVars, mainVars
<1>6. ASSUME NEW c \in Clients, CloseMain(c)
      PROVE  MainInv'
  <2>1. running' = running /\ outbox' = outbox /\ c \notin running
    BY <1>6 DEF CloseMain, clientVars
  <2>2. \A t \in Servers, d \in Clients : t # "main" \/ d # c => id'[t][d] = id[t][d]
    BY <1>6, IdsTaken, Numbers DEF CloseMain
  <2>3. /\ at' = [at EXCEPT ![c] = NoRoom] /\ at' \in [Clients -> MainRoomNumbers \cup {NoRoom}]
        /\ host' \in [MainRoomNumbers -> Clients \cup {None}]
        /\ \A r \in MainRoomNumbers : host'[r] # None => at'[host'[r]] = r
        /\ \A d \in Clients : at'[d] # NoRoom => host'[at'[d]] # None
    BY <1>6, LeftInOrder DEF CloseMain
  <2>4. \A d \in Clients : at'[d] = IF d = c THEN NoRoom ELSE at[d]
    BY <1>1, <2>3
  <2>5. \A d \in Clients : id'["cast"][d] = id["cast"][d] /\ (d # c => id'["main"][d] = id["main"][d])
    BY <2>2, Numbers
  <2>6. ASSUME NEW d \in Clients
        PROVE  Present(d)'
    <3>1. CASE d = c
      BY <1>1, <2>1, <2>4, <2>5, <3>1 DEF Present
    <3>2. CASE d # c
      BY <1>1, <2>1, <2>3, <2>4, <2>5, <3>2 DEF Present
    <3> QED
      BY <3>1, <3>2
  <2> QED
    BY <1>1, <2>1, <2>3, <2>6 DEF MainInv
<1>7. ASSUME NEW c \in Clients, CloseCast(c)
      PROVE  MainInv'
  <2>1. /\ running' = running /\ outbox' = [outbox EXCEPT ![c] = << >>] /\ at' = at /\ host' = host
        /\ c \notin running
    BY <1>7 DEF CloseCast, mainVars
  <2>2. \A t \in Servers, d \in Clients : t # "cast" \/ d # c => id'[t][d] = id[t][d]
    BY <1>7, IdsTaken, Numbers DEF CloseCast
  <2>3. outbox' \in [Clients -> Seq(Message)] /\ outbox'[c] = << >>
        /\ \A d \in Clients \ {c} : outbox'[d] = outbox[d]
    BY <1>1, <2>1
  <2>4. \A d \in Clients : id'["main"][d] = id["main"][d] /\ (d # c => id'["cast"][d] = id["cast"][d])
    BY <2>2, Numbers
  <2>5. ASSUME NEW d \in Clients
        PROVE  Present(d)'
    <3>1. CASE d = c
      BY <1>1, <2>1, <2>3, <2>4, <3>1 DEF Present
    <3>2. CASE d # c
      BY <1>1, <2>1, <2>3, <2>4, <3>2 DEF Present
    <3> QED
      BY <3>1, <3>2
  <2> QED
    BY <1>1, <2>1, <2>3, <2>5 DEF MainInv
<1>8. ASSUME NEW c \in Clients, CreateRoom(c)
      PROVE  MainInv'
  <2> DEFINE free == {r \in MainRoomNumbers : host[r] = None}
             r0 == Min(free)
  <2>1. /\ c \in running /\ id["cast"][c] # NoId /\ at[c] = NoRoom /\ free # {}
        /\ at' = [at EXCEPT ![c] = r0] /\ host' = [host EXCEPT ![r0] = c]
        /\ Tell(c, [kind |-> "create"]) /\ running' = running /\ id' = id
    BY <1>8 DEF CreateRoom, Playing
  <2>2. r0 \in free
    <3>1. free \in SUBSET Nat
      BY ConstantsAssumption DEF MainRoomNumbers
    <3> HIDE DEF free
    <3> QED
      BY <2>1, <3>1, LeastIsOne
  <2>3. r0 \in MainRoomNumbers /\ host[r0] = None
    BY <2>2
  <2> HIDE DEF r0, free
  <2>4. /\ outbox' \in [Clients -> Seq(Message)]
        /\ \A d \in Clients \ {c} : outbox'[d] = outbox[d]
    BY <2>1, Messages, ToldMessage
  <2>5. /\ at' \in [Clients -> MainRoomNumbers \cup {NoRoom}]
        /\ host' \in [MainRoomNumbers -> Clients \cup {None}]
        /\ \A d \in Clients : at'[d] = IF d = c THEN r0 ELSE at[d]
        /\ \A r \in MainRoomNumbers : host'[r] = IF r = r0 THEN c ELSE host[r]
    BY <1>1, <2>1, <2>3
  <2>6. \A r \in MainRoomNumbers : host'[r] # None => at'[host'[r]] = r
    <3> SUFFICES ASSUME NEW r \in MainRoomNumbers, host'[r] # None, r # r0
                 PROVE  at'[host'[r]] = r
      BY <2>5
    <3>1. host[r] \in Clients /\ at[host[r]] = r /\ host[r] # c /\ host'[r] = host[r]
      BY <1>1, <2>1, <2>5, Numbers
    <3> QED
      BY <2>5, <3>1
  <2>7. \A d \in Clients : at'[d] # NoRoom => host'[at'[d]] # None
    BY <1>1, <2>3, <2>5, Numbers
  <2> QED
    BY <1>1, <2>1, <2>4, <2>5, <2>6, <2>7 DEF MainInv, Present
<1>9. ASSUME NEW c \in Clients, NEW r \in MainRoomNumbers, JoinRoom(c, r)
      PROVE  MainInv'
  <2>1. /\ c \in running /\ id["cast"][c] # NoId /\ at[c] = NoRoom /\ host[r] # None
        /\ at' = [at EXCEPT ![c] = r] /\ host' = host
        /\ Tell(c, [kind |-> "join", host |-> id["main"][host[r]]])
        /\ running' = running /\ id' = id
    BY <1>9 DEF JoinRoom, Playing
  <2>2. host[r] \in Clients /\ at[host[r]] = r /\ at[host[r]] # NoRoom
    BY <1>1, <2>1, Numbers
  <2>3. id["main"][host[r]] \in Ids
    BY <1>1, <2>2, Numbers DEF IdInv, IdTypes
  <2>4. /\ outbox' \in [Clients -> Seq(Message)]
        /\ \A d \in Clients \ {c} : outbox'[d] = outbox[d]
    BY <2>1, <2>3, Messages, ToldMessage
  <2>5. /\ at' \in [Clients -> MainRoomNumbers \cup {NoRoom}]
        /\ \A d \in Clients : at'[d] = IF d = c THEN r ELSE at[d]
    BY <1>1, <2>1
  <2>6. \A x \in MainRoomNumbers : host'[x] # None => at'[host'[x]] = x
    <3> SUFFICES ASSUME NEW x \in MainRoomNumbers, host[x] # None
                 PROVE  at'[host[x]] = x
      BY <2>1
    <3>1. host[x] \in Clients /\ at[host[x]] = x /\ host[x] # c
      BY <1>1, <2>1, Numbers
    <3> QED
      BY <2>5, <3>1
  <2>7. \A d \in Clients : at'[d] # NoRoom => host'[at'[d]] # None
    BY <1>1, <2>1, <2>5
  <2> QED
    BY <1>1, <2>1, <2>4, <2>5, <2>6, <2>7 DEF MainInv, Present
<1>10. ASSUME NEW c \in Clients, LeaveRoom(c)
       PROVE  MainInv'
  <2>1. /\ c \in running /\ id["cast"][c] # NoId /\ Tell(c, [kind |-> "leave"])
        /\ running' = running /\ id' = id
    BY <1>10 DEF LeaveRoom, Playing
  <2>2. /\ outbox' \in [Clients -> Seq(Message)]
        /\ \A d \in Clients \ {c} : outbox'[d] = outbox[d]
    BY <2>1, Messages, ToldMessage
  <2>3. /\ at' = [at EXCEPT ![c] = NoRoom] /\ at' \in [Clients -> MainRoomNumbers \cup {NoRoom}]
        /\ host' \in [MainRoomNumbers -> Clients \cup {None}]
        /\ \A r \in MainRoomNumbers : host'[r] # None => at'[host'[r]] = r
        /\ \A d \in Clients : at'[d] # NoRoom => host'[at'[d]] # None
    BY <1>10, LeftInOrder DEF LeaveRoom
  <2>4. \A d \in Clients : at'[d] = IF d = c THEN NoRoom ELSE at[d]
    BY <1>1, <2>3
  <2> QED
    BY <1>1, <2>1, <2>2, <2>3, <2>4 DEF MainInv, Present
<1>11. ASSUME NEW c \in Clients, Quit(c)
       PROVE  MainInv'
  <2>1. /\ c \in running /\ running' = running \ {c} /\ at' = at /\ host' = host /\ id' = id
        /\ outbox' = outbox \/ (at[c] # NoRoom /\ Tell(c, [kind |-> "crash"]))
    BY <1>11 DEF Quit, mainVars
  <2>2. /\ outbox' \in [Clients -> Seq(Message)]
        /\ \A d \in Clients \ {c} : outbox'[d] = outbox[d]
    BY <1>1, <2>1, Messages, ToldMessage
  <2>3. outbox'[c] # << >> => id["cast"][c] # NoId
    BY <1>1, <2>1
  <2> QED
    BY <1>1, <2>1, <2>2, <2>3 DEF MainInv, Present
<1>12. ASSUME NEW c \in Clients, NEW kind, Receives(c, kind)
       PROVE  MainInv'
  <2>1. running' = running /\ at' = at /\ host' = host /\ id' = id
    BY <1>12 DEF Receives, mainVars
  <2>2. /\ outbox' \in [Clients -> Seq(Message)] /\ outbox[c] # << >>
        /\ \A d \in Clients \ {c} : outbox'[d] = outbox[d]
    BY <1>12, ReadMessage
  <2> QED
    BY <1>1, <2>1, <2>2 DEF MainInv, Present
<1> QED
  BY <1>2, <1>3, <1>4, <1>5, <1>6, <1>7, <1>8, <1>9, <1>10, <1>11, <1>12 DEF Next,
     RoomCreation, PlayerJoinRoom, PlayerLeaveRoom, PlayerCrash

----------------------------------------------------------------------------
(* One step of one client *)

Acts(c) ==
  \/ ConnectMain(c) \/ ConnectCast(c) \/ ConnectionRefused(c)
  \/ CloseMain(c) \/ CloseCast(c)
  \/ CreateRoom(c) \/ LeaveRoom(c) \/ Quit(c)
  \/ \E r \in MainRoomNumbers : JoinRoom(c, r)
  \/ RoomCreation(c) \/ PlayerJoinRoom(c) \/ PlayerLeaveRoom(c) \/ PlayerCrash(c)
  \/ Undefined(c)

Handles(c) == RoomCreation(c) \/ PlayerJoinRoom(c) \/ PlayerLeaveRoom(c) \/ PlayerCrash(c)

LEMMA SomebodyActs == [Next]_vars => UNCHANGED vars \/ \E c \in Clients : Acts(c)
BY DEF Next, Acts

Untouched(d) ==
  /\ outbox'[d] = outbox[d] /\ at'[d] = at[d]
  /\ d \in running' <=> d \in running
  /\ id'["main"][d] = id["main"][d] /\ id'["cast"][d] = id["cast"][d]

LEMMA OthersUntouched ==
  ASSUME IdInv, MainInv, NEW c \in Clients, Acts(c)
  PROVE  \A d \in Clients \ {c} : Untouched(d)
<1> SUFFICES ASSUME NEW d \in Clients \ {c}
             PROVE  Untouched(d)
  OBVIOUS
<1>1. /\ at \in [Clients -> MainRoomNumbers \cup {NoRoom}] /\ outbox \in [Clients -> Seq(Message)]
      /\ id \in [Servers -> [Clients -> Ids \cup {NoId}]]
  BY DEF MainInv, IdInv, IdTypes
<1>2. ASSUME NEW s \in Servers, Accepted(s, c) \/ Closed(s, c)
      PROVE  id'["main"][d] = id["main"][d] /\ id'["cast"][d] = id["cast"][d]
  <2>1. PICK n : id' = [id EXCEPT ![s][c] = n]
    BY <1>2 DEF Accepted, Closed
  <2>2. \A t \in Servers : id'[t][d] = id[t][d]
    BY <1>1, <2>1
  <2> QED
    BY <2>2, Numbers
<1>3. CASE ConnectMain(c)
  BY <1>2, <1>3, Numbers DEF ConnectMain, mainVars, Untouched
<1>4. CASE ConnectCast(c)
  BY <1>2, <1>4, Numbers DEF ConnectCast, clientVars, mainVars, Untouched
<1>5. CASE ConnectionRefused(c) \/ Undefined(c)
  BY <1>5 DEF ConnectionRefused, Undefined, clientVars, mainVars, Untouched
<1>6. CASE CloseMain(c)
  BY <1>1, <1>2, <1>6, Numbers DEF CloseMain, MainRoomLeft, clientVars, Untouched
<1>7. CASE CloseCast(c)
  BY <1>1, <1>2, <1>7, Numbers DEF CloseCast, mainVars, Untouched
<1>8. CASE CreateRoom(c)
  BY <1>1, <1>8 DEF CreateRoom, Tell, Untouched
<1>9. CASE LeaveRoom(c)
  BY <1>1, <1>9 DEF LeaveRoom, MainRoomLeft, Tell, Untouched
<1>10. CASE Quit(c)
  BY <1>1, <1>10 DEF Quit, Tell, mainVars, Untouched
<1>11. CASE \E r \in MainRoomNumbers : JoinRoom(c, r)
  BY <1>1, <1>11 DEF JoinRoom, Tell, Untouched
<1>12. ASSUME NEW kind, Receives(c, kind)
       PROVE  Untouched(d)
  BY <1>1, <1>12 DEF Receives, mainVars, Untouched
<1> QED
  BY <1>3, <1>4, <1>5, <1>6, <1>7, <1>8, <1>9, <1>10, <1>11, <1>12 DEF Acts,
     RoomCreation, PlayerJoinRoom, PlayerLeaveRoom, PlayerCrash

\* What a handler of the cast server has done with a message of a client.
Handled(c) ==
  LET i == id["cast"][c]
      m == Head(outbox[c])
  IN  /\ i \in Ids /\ outbox[c] # << >>
      /\ SeatsInv'
      /\ DOMAIN roomOf' \ {i} = DOMAIN roomOf \ {i}
      /\ \A j \in DOMAIN roomOf \ {i} : roomOf'[j] = roomOf[j]
      /\ ExactRooms /\ (Enters(m) => i \notin DOMAIN roomOf) => ExactRooms'
      /\ Enters(m) => m.kind = "create" \/ m.kind = "join"
      /\ m.kind = "create" => i \in DOMAIN roomOf' /\ roomOf'[i] \notin Range(roomOf)
      /\ m.kind = "join" /\ i \notin DOMAIN roomOf /\ m.host \in DOMAIN roomOf =>
           i \in DOMAIN roomOf' /\ roomOf'[i] = roomOf[m.host]
      /\ ~ Enters(m) => i \notin DOMAIN roomOf'

LEMMA Switched ==
  ASSUME SeatsInv, NEW i \in Ids, NEW h, SwitchRoomJoinOrExit(i, h)
  PROVE  /\ SeatsInv' /\ (ExactRooms => ExactRooms')
         /\ DOMAIN roomOf' \ {i} = DOMAIN roomOf \ {i}
         /\ \A j \in DOMAIN roomOf \ {i} : roomOf'[j] = roomOf[j]
         /\ i \in DOMAIN roomOf \/ h \notin DOMAIN roomOf => i \notin DOMAIN roomOf'
         /\ i \notin DOMAIN roomOf /\ h \in DOMAIN roomOf =>
              i \in DOMAIN roomOf' /\ roomOf'[i] = roomOf[h]
<1>1. CASE RemovePlayerFromRoom(i)
  <2>1. SeatsInv' /\ (ExactRooms => ExactRooms')
        /\ roomOf' = [j \in DOMAIN roomOf \ {i} |-> roomOf[j]] /\ i \in DOMAIN roomOf
    BY <1>1, RemovedSeats DEF RemovePlayerFromRoom
  <2> QED
    BY <2>1
<1>2. CASE /\ i \notin DOMAIN roomOf /\ h \in DOMAIN roomOf
           /\ rooms' = [rooms EXCEPT ![roomOf[h]] = AddPlayer(@, i)]
           /\ roomOf' = Entered(roomOf, i, roomOf[h])
  <2>1. SeatsInv' /\ (ExactRooms => ExactRooms')
    BY <1>2, JoinedSeats
  <2> QED
    BY <1>2, <2>1 DEF Entered
<1>3. CASE i \notin DOMAIN roomOf /\ h \notin DOMAIN roomOf /\ UNCHANGED castVars
  <2>1. roomOf' = roomOf /\ rooms' = rooms
    BY <1>3 DEF castVars
  <2> QED
    BY <1>3, <2>1 DEF SeatsInv, ExactRooms
<1> QED
  BY <1>1, <1>2, <1>3 DEF SwitchRoomJoinOrExit

LEMMA MessageHandled ==
  ASSUME IdInv, MainInv, SeatsInv, NEW c \in Clients, Handles(c)
  PROVE  Handled(c)
<1> DEFINE i == id["cast"][c]
           m == Head(outbox[c])
<1>1. ASSUME NEW kind, Receives(c, kind)
      PROVE  i \in Ids /\ outbox[c] # << >> /\ m.kind = kind
  <2>1. outbox[c] # << >> /\ m.kind = kind
    BY <1>1 DEF Receives
  <2>2. i # NoId /\ i \in Ids \cup {NoId}
    BY <2>1, Numbers DEF MainInv, Present, IdInv, IdTypes
  <2> QED
    BY <2>1, <2>2
<1>2. CASE RoomCreation(c)
  <2>1. i \in Ids /\ outbox[c] # << >> /\ m.kind = "create" /\ RoomAdded(i)
    BY <1>1, <1>2 DEF RoomCreation
  <2>2. /\ SeatsInv' /\ NewRoomNumber \notin DOMAIN rooms
        /\ roomOf' = Entered(roomOf, i, NewRoomNumber)
        /\ ExactRooms /\ i \notin DOMAIN roomOf => ExactRooms'
    BY <2>1, RoomAddedSeats
  <2>3. /\ DOMAIN roomOf' \ {i} = DOMAIN roomOf \ {i} /\ i \in DOMAIN roomOf'
        /\ \A j \in DOMAIN roomOf \ {i} : roomOf'[j] = roomOf[j]
        /\ roomOf'[i] = NewRoomNumber
    BY <2>2 DEF Entered
  <2>4. roomOf'[i] \notin Range(roomOf)
    BY <2>2, <2>3 DEF SeatsInv
  <2>5. Enters(m)
    BY <2>1 DEF Enters
  <2> QED
    BY <2>1, <2>2, <2>3, <2>4, <2>5 DEF Handled
<1>3. CASE PlayerJoinRoom(c)
  <2>1. i \in Ids /\ outbox[c] # << >> /\ m.kind = "join" /\ SwitchRoomJoinOrExit(i, m.host)
    BY <1>1, <1>3 DEF PlayerJoinRoom
  <2>2. Enters(m)
    BY <2>1 DEF Enters
  <2> HIDE DEF i, m
  <2>3. /\ SeatsInv' /\ (ExactRooms => ExactRooms')
        /\ DOMAIN roomOf' \ {i} = DOMAIN roomOf \ {i}
        /\ \A j \in DOMAIN roomOf \ {i} : roomOf'[j] = roomOf[j]
        /\ i \notin DOMAIN roomOf /\ m.host \in DOMAIN roomOf =>
             i \in DOMAIN roomOf' /\ roomOf'[i] = roomOf[m.host]
    BY <2>1, Switched
  <2> QED
    BY <2>1, <2>2, <2>3 DEF Handled, i, m
<1>4. ASSUME i \in Ids, outbox[c] # << >>, m.kind = "leave" \/ m.kind = "crash",
             \/ SwitchRoomJoinOrExit(i, NoId)
             \/ RemovePlayerFromRoom(i)
             \/ i \notin DOMAIN roomOf /\ UNCHANGED castVars
      PROVE  Handled(c)
  <2>1. ~ Enters(m) /\ m.kind # "create" /\ m.kind # "join"
    BY <1>4 DEF Enters
  <2> HIDE DEF i, m
  <2>2. NoId \notin DOMAIN roomOf
    BY Numbers DEF SeatsInv
  <2>3. SwitchRoomJoinOrExit(i, NoId)
    BY <1>4, <2>2 DEF SwitchRoomJoinOrExit
  <2>4. /\ SeatsInv' /\ (ExactRooms => ExactRooms')
        /\ DOMAIN roomOf' \ {i} = DOMAIN roomOf \ {i}
        /\ \A j \in DOMAIN roomOf \ {i} : roomOf'[j] = roomOf[j]
        /\ i \notin DOMAIN roomOf'
    BY <1>4, <2>2, <2>3, Switched
  <2> QED
    BY <1>4, <2>1, <2>4 DEF Handled, i, m
<1>5. CASE PlayerLeaveRoom(c)
  BY <1>1, <1>4, <1>5 DEF PlayerLeaveRoom
<1>6. CASE PlayerCrash(c)
  BY <1>1, <1>4, <1>6 DEF PlayerCrash
<1> QED
  BY <1>2, <1>3, <1>5, <1>6 DEF Handles

----------------------------------------------------------------------------
(* The history *)

\* A room that holds exactly those who find it has no dangling pointer.
LEMMA NoDangling ==
  ASSUME SeatsInv, ExactRooms, NEW i
  PROVE  ~ FollowsDangling(i)
<1> SUFFICES ASSUME i \in DOMAIN roomOf
             PROVE  ~ HasDangling(rooms[roomOf[i]])
  BY DEF FollowsDangling
<1> DEFINE room == rooms[roomOf[i]]
<1>1. roomOf[i] \in DOMAIN rooms
  BY DEF SeatsInv, Range
<1>2. (\A j \in DOMAIN room.players : room.players[j]) /\ (\A k \in DOMAIN room.vec : room.vec[k].alive)
  BY <1>1 DEF ExactRooms, Exact
<1>3. room.players \in [DOMAIN room.players -> BOOLEAN]
  BY <1>1, PartsOfRoom DEF SeatsInv
<1> HIDE DEF room
<1>4. FALSE \notin Range(room.players)
  <2> SUFFICES ASSUME NEW j \in DOMAIN room.players, room.players[j] = FALSE
               PROVE  FALSE
    BY DEF Range
  <2> QED
    BY <1>2, Zenon
<1>5. ~ Dangling(room)
  BY <1>2, Zenon DEF Dangling
<1> QED
  BY <1>4, <1>5, Zenon DEF HasDangling, room

LEMMA HistoryStep ==
  ASSUME SeatsInv, HistoryInv, lost = 0 => ExactRooms, [Next]_vars
  PROVE  /\ HistoryInv' /\ mishaps \subseteq mishaps' /\ lost' >= lost
         /\ lost \in Nat /\ lost' \in Nat
<1>1. /\ stopped \in BOOLEAN /\ mishaps \subseteq Mishaps /\ lost \in Nat /\ lost <= MaxMishaps
      /\ stopped => lost > 0 \/ "full" \in mishaps
  BY ConstantsAssumption DEF HistoryInv, StopsHaveACause
<1>2. \A S \in SUBSET Mishaps : Cardinality(S) \in Nat
  <2>1. IsFiniteSet(AllMishaps)
    <3> DEFINE A == {"crossed"}
               B == A \cup {"overtaken"}
    <3>1. IsFiniteSet(A)
      BY FS_Singleton
    <3>2. IsFiniteSet(B)
      <4> HIDE DEF A
      <4> QED
        BY <3>1, FS_AddElement
    <3> HIDE DEF B
    <3>3. IsFiniteSet(B \cup {"full"})
      BY <3>2, FS_AddElement
    <3>4. AllMishaps = B \cup {"full"}
      BY DEF AllMishaps, B
    <3> QED
      BY <3>3, <3>4
  <2> QED
    BY <2>1, ConstantsAssumption, FS_Subset, FS_CardinalityType
<1>3. ASSUME stopped' \in BOOLEAN, mishaps' \subseteq Mishaps, mishaps \subseteq mishaps',
             lost' \in Nat, lost' <= MaxMishaps, lost' >= lost,
             \/ stopped' = stopped
             \/ stopped' /\ (lost' > 0 \/ "full" \in mishaps')
      PROVE  /\ HistoryInv' /\ mishaps \subseteq mishaps' /\ lost' >= lost
             /\ lost \in Nat /\ lost' \in Nat
  <2>1. stopped' => lost' > 0 \/ "full" \in mishaps'
    <3>1. CASE stopped' = stopped
      <4>1. stopped' => lost > 0 \/ "full" \in mishaps
        BY <1>1, <3>1, Zenon
      <4> QED
        BY <1>1, <1>3, <4>1
    <3>2. CASE stopped' /\ (lost' > 0 \/ "full" \in mishaps')
      BY <3>2, Zenon
    <3> QED
      BY <1>3, <3>1, <3>2, Zenon
  <2>2. lost' \in 0 .. MaxMishaps
    BY <1>3, ConstantsAssumption
  <2> QED
    BY <1>1, <1>3, <2>1, <2>2 DEF HistoryInv, StopsHaveACause
<1>4. ASSUME NEW wrong, Goes(wrong, TRUE) \/ Goes(wrong, FALSE)
      PROVE  /\ mishaps' \subseteq Mishaps /\ mishaps \subseteq mishaps'
             /\ lost' \in Nat /\ lost' <= MaxMishaps /\ lost' >= lost
  BY <1>1, <1>4 DEF Goes
<1>5. ASSUME Loses(TRUE) \/ Loses(FALSE)
      PROVE  /\ mishaps' \subseteq Mishaps /\ mishaps \subseteq mishaps'
             /\ lost' \in Nat /\ lost' <= MaxMishaps /\ lost' >= lost
  <2>1. mishaps' = mishaps /\ lost' \in Nat /\ lost' >= lost /\ Cardinality(mishaps) + lost' <= MaxMishaps
    BY <1>1, <1>5 DEF Loses
  <2>2. Cardinality(mishaps) \in Nat
    BY <1>1, <1>2
  <2> QED
    BY <1>1, <2>1, <2>2, ConstantsAssumption
<1>6. ASSUME UNCHANGED history, stopped' = stopped
      PROVE  /\ HistoryInv' /\ mishaps \subseteq mishaps' /\ lost' >= lost
             /\ lost \in Nat /\ lost' \in Nat
  BY <1>1, <1>3, <1>6 DEF history
<1>7. CASE UNCHANGED vars
  BY <1>6, <1>7 DEF vars
<1>8. ASSUME NEW c \in Clients, Acts(c)
      PROVE  /\ HistoryInv' /\ mishaps \subseteq mishaps' /\ lost' >= lost
             /\ lost \in Nat /\ lost' \in Nat
  <2>1. CASE ConnectMain(c) \/ CreateRoom(c)
    BY <1>6, <2>1 DEF ConnectMain, CreateRoom
  <2>2. CASE ConnectCast(c)
    <3>1. stopped' = stopped /\ (Goes("crossed", TRUE) \/ Goes("crossed", FALSE))
      BY <2>2 DEF ConnectCast, Goes
    <3> QED
      BY <1>1, <1>3, <1>4, <3>1
  <2>3. CASE ConnectionRefused(c)
    <3>1. stopped' = TRUE /\ Goes("full", TRUE)
      BY <2>3 DEF ConnectionRefused
    <3>2. "full" \in mishaps'
      BY <3>1 DEF Goes
    <3> QED
      BY <1>1, <1>3, <1>4, <3>1, <3>2
  <2>4. CASE CloseMain(c) \/ LeaveRoom(c) \/ Quit(c) \/ \E r \in MainRoomNumbers : JoinRoom(c, r)
    <3>1. stopped' = stopped /\ (Goes("overtaken", TRUE) \/ Goes("overtaken", FALSE))
      BY <2>4 DEF CloseMain, LeaveRoom, Quit, JoinRoom, Overtakes, Goes
    <3> QED
      BY <1>1, <1>3, <1>4, <3>1
  <2>5. CASE CloseCast(c)
    <3>1. stopped' = stopped /\ (Loses(TRUE) \/ Loses(FALSE))
      BY <2>5 DEF CloseCast, Loses
    <3> QED
      BY <1>1, <1>3, <1>5, <3>1
  <2>6. CASE Handles(c)
    BY <1>6, <2>6 DEF Handles, RoomCreation, PlayerJoinRoom, PlayerLeaveRoom, PlayerCrash, Receives
  <2>7. CASE Undefined(c)
    <3>1. FollowsDangling(id["cast"][c]) /\ stopped' = TRUE /\ mishaps' = mishaps /\ lost' = lost
      BY <2>7 DEF Undefined, history
    <3>2. lost # 0
      BY <3>1, NoDangling
    <3>3. stopped' /\ stopped' \in BOOLEAN
      BY <3>1, Zenon
    <3>4. lost' > 0 /\ mishaps' \subseteq Mishaps /\ mishaps \subseteq mishaps'
          /\ lost' \in Nat /\ lost' <= MaxMishaps /\ lost' >= lost
      BY <1>1, <3>1, <3>2
    <3> QED
      BY <1>3, <3>3, <3>4, Zenon
  <2> QED
    BY <1>8, <2>1, <2>2, <2>3, <2>4, <2>5, <2>6, <2>7 DEF Acts, Handles
<1> QED
  BY <1>7, <1>8, SomebodyActs

----------------------------------------------------------------------------
(* The rooms follow their clients *)

LEMMA SeatsStep ==
  ASSUME IdInv, MainInv, SeatsInv, [Next]_vars
  PROVE  SeatsInv'
<1>1. ASSUME UNCHANGED castVars
      PROVE  SeatsInv'
  BY <1>1 DEF castVars, SeatsInv
<1>2. CASE UNCHANGED vars
  BY <1>1, <1>2 DEF vars
<1>3. ASSUME NEW c \in Clients, Acts(c)
      PROVE  SeatsInv'
  <2>1. CASE Handles(c)
    BY <2>1, MessageHandled DEF Handled
  <2>2. CASE CloseCast(c)
    BY <2>2, KilledSeats DEF CloseCast
  <2>3. CASE ~ Handles(c) /\ ~ CloseCast(c)
    BY <1>1, <1>3, <2>3 DEF Acts, Handles, ConnectMain, ConnectCast, ConnectionRefused, CloseMain,
       CreateRoom, LeaveRoom, Quit, JoinRoom, Undefined
  <2> QED
    BY <2>1, <2>2, <2>3
<1> QED
  BY <1>2, <1>3, SomebodyActs

\* What clients tell follows where they go.
LEMMA ToldStep ==
  ASSUME IdInv, MainInv, \A c \in Clients : ToldByTurns(c), [Next]_vars
  PROVE  \A c \in Clients : ToldByTurns(c)'
<1>1. ASSUME NEW d \in Clients, Untouched(d)
      PROVE  ToldByTurns(d)'
  BY <1>1 DEF Untouched, ToldByTurns
<1>2. CASE UNCHANGED vars
  BY <1>1, <1>2 DEF vars, clientVars, mainVars, Untouched
<1>3. ASSUME NEW c \in Clients, Acts(c)
      PROVE  ToldByTurns(c)'
  <2> DEFINE q == outbox[c]
  <2>1. /\ q \in Seq(Message) /\ ByTurns(q)
        /\ c \in running /\ q # << >> => (Enters(Final(q)) <=> at[c] # NoRoom)
        /\ at \in [Clients -> MainRoomNumbers \cup {NoRoom}]
        /\ outbox \in [Clients -> Seq(Message)]
    BY DEF MainInv, ToldByTurns
  <2> HIDE DEF q
  <2>2. ASSUME outbox' = outbox, at'[c] = at[c], c \notin running' \/ c \in running
        PROVE  ToldByTurns(c)'
    BY <2>1, <2>2 DEF ToldByTurns, q
  <2>3. CASE ConnectMain(c)
    <3>1. outbox' = outbox /\ outbox[c] = << >>
      BY <2>3, Numbers DEF ConnectMain, MainInv, Present
    <3> QED
      BY <2>1, <3>1 DEF ToldByTurns, q
  <2>4. CASE ConnectCast(c) \/ ConnectionRefused(c) \/ Undefined(c)
    BY <2>2, <2>4 DEF ConnectCast, ConnectionRefused, Undefined, clientVars, mainVars
  <2>5. CASE CloseMain(c)
    <3>1. outbox' = outbox /\ c \notin running'
      BY <2>5 DEF CloseMain, clientVars
    <3> QED
      BY <2>1, <3>1 DEF ToldByTurns, q
  <2>6. CASE CloseCast(c)
    <3>1. outbox'[c] = << >>
      BY <2>1, <2>6 DEF CloseCast
    <3> QED
      BY <3>1 DEF ToldByTurns, ByTurns
  <2>7. ASSUME NEW m \in Message, Tell(c, m), c \in running, Enters(m) <=> at[c] = NoRoom,
               c \notin running' \/ (Enters(m) <=> at'[c] # NoRoom)
        PROVE  ToldByTurns(c)'
    <3>1. outbox'[c] = Append(q, m)
      BY <2>7, ToldMessage DEF q
    <3>2. q # << >> => (Enters(Final(q)) <=> ~ Enters(m))
      BY <2>1, <2>7
    <3>3. ByTurns(Append(q, m)) /\ Final(Append(q, m)) = m
      BY <2>1, <3>2, TurnsTold, OneMoreTold
    <3> QED
      BY <2>7, <3>1, <3>3 DEF ToldByTurns
  <2>8. CASE CreateRoom(c)
    <3>1. Playing(c) /\ at[c] = NoRoom /\ Tell(c, [kind |-> "create"])
      BY <2>8 DEF CreateRoom
    <3>2. at'[c] # NoRoom
      <4> DEFINE free == {r \in MainRoomNumbers : host[r] = None}
      <4>1. free # {} /\ at' = [at EXCEPT ![c] = Min(free)]
        BY <2>8 DEF CreateRoom
      <4>2. free \in SUBSET Nat
        BY ConstantsAssumption DEF MainRoomNumbers
      <4>3. Min(free) \in MainRoomNumbers
        <5>1. free \subseteq MainRoomNumbers
          OBVIOUS
        <5> HIDE DEF free
        <5> QED
          BY <4>1, <4>2, <5>1, LeastIsOne
      <4> QED
        BY <2>1, <4>1, <4>3, Numbers
    <3> QED
      BY <2>7, <3>1, <3>2, Messages DEF Playing
  <2>9. ASSUME NEW r \in MainRoomNumbers, JoinRoom(c, r)
        PROVE  ToldByTurns(c)'
    <3> DEFINE m == [kind |-> "join", host |-> id["main"][host[r]]]
    <3>1. Playing(c) /\ at[c] = NoRoom /\ Tell(c, m) /\ host[r] # None /\ at'[c] = r
      BY <2>1, <2>9 DEF JoinRoom
    <3>2. host[r] \in Clients /\ at[host[r]] = r
      BY <3>1 DEF MainInv
    <3>3. id["main"][host[r]] \in Ids
      BY <3>2, Numbers DEF MainInv, Present, IdInv, IdTypes
    <3>4. m \in Message /\ Enters(m)
      BY <3>3, Messages
    <3> HIDE DEF m
    <3> QED
      BY <2>7, <3>1, <3>4, Numbers DEF Playing
  <2>10. CASE LeaveRoom(c)
    <3>1. Playing(c) /\ at[c] # NoRoom /\ Tell(c, [kind |-> "leave"]) /\ at'[c] = NoRoom
      BY <2>1, <2>10 DEF LeaveRoom, MainRoomLeft
    <3> QED
      BY <2>7, <3>1, Messages DEF Playing
  <2>11. CASE Quit(c)
    <3>1. c \in running /\ c \notin running' /\ at' = at
      BY <2>11 DEF Quit, mainVars
    <3>2. CASE outbox' = outbox
      BY <2>2, <3>1, <3>2
    <3>3. CASE at[c] # NoRoom /\ Tell(c, [kind |-> "crash"])
      BY <2>7, <3>1, <3>3, Messages
    <3> QED
      BY <2>11, <3>2, <3>3 DEF Quit
  <2>12. ASSUME NEW kind, Receives(c, kind)
         PROVE  ToldByTurns(c)'
    <3>1. q # << >> /\ outbox'[c] = Tail(q) /\ running' = running /\ at' = at
      BY <2>12, ReadMessage DEF Receives, mainVars, q
    <3>2. ByTurns(Tail(q)) /\ (Tail(q) # << >> => Final(Tail(q)) = Final(q))
      BY <2>1, <3>1, TurnsRead, OneReadLess
    <3> QED
      BY <2>1, <3>1, <3>2 DEF ToldByTurns
  <2> QED
    BY <1>3, <2>3, <2>4, <2>5, <2>6, <2>8, <2>9, <2>10, <2>11, <2>12 DEF Acts,
       RoomCreation, PlayerJoinRoom, PlayerLeaveRoom, PlayerCrash
<1>4. ASSUME NEW c \in Clients, Acts(c), NEW d \in Clients
      PROVE  ToldByTurns(d)'
  <2>1. CASE d = c
    BY <1>3, <1>4, <2>1
  <2>2. CASE d # c
    BY <1>1, <1>4, <2>2, OthersUntouched
  <2> QED
    BY <2>1, <2>2
<1> QED
  BY <1>2, <1>4, SomebodyActs

\* A session that opens has an id that nobody finds a room by.
LEMMA NewIdUnknown ==
  ASSUME IdInv, ExactInv, NEW c \in Clients, ConnectCast(c)
  PROVE  id'["cast"][c] \in Ids /\ id'["cast"][c] \notin DOMAIN roomOf
<1>1. id["cast"][c] = NoId /\ Accepted("cast", c)
  BY DEF ConnectCast
<1>2. id'["cast"][c] \in Ids /\ \A d \in Clients : id["cast"][d] # id'["cast"][c]
  BY <1>1, IdsGiven, Numbers
<1> QED
  BY <1>2 DEF ExactInv

LEMMA DistinctIds ==
  ASSUME IdInv, NEW c \in Clients, NEW d \in Clients, c # d, id["cast"][c] \in Ids
  PROVE  id["cast"][d] # id["cast"][c]
BY Numbers DEF IdInv, IdsAccountedFor

\* As long as no connection is lost in a room, the cast server's rooms hold whom they should.
LEMMA ExactStep ==
  ASSUME IdInv, MainInv, SeatsInv, ExactInv, [Next]_vars, lost = 0, lost' = 0,
         \A c \in Clients : HeardByTurns(c)
  PROVE  ExactInv'
<1>1. ASSUME UNCHANGED castVars, \A i \in DOMAIN roomOf : \E c \in Clients : id'["cast"][c] = i
      PROVE  ExactInv'
  BY <1>1 DEF castVars, ExactInv, ExactRooms
<1>2. CASE UNCHANGED vars
  BY <1>1, <1>2 DEF vars, ExactInv
<1>3. ASSUME NEW c \in Clients, Acts(c)
      PROVE  ExactInv'
  <2>1. \A d \in Clients \ {c} : id'["cast"][d] = id["cast"][d]
    BY <1>3, OthersUntouched DEF Untouched
  <2>2. ASSUME id["cast"][c] \in DOMAIN roomOf => id'["cast"][c] = id["cast"][c]
        PROVE  \A i \in DOMAIN roomOf : \E d \in Clients : id'["cast"][d] = i
    <3> SUFFICES ASSUME NEW i \in DOMAIN roomOf
                 PROVE  \E d \in Clients : id'["cast"][d] = i
      OBVIOUS
    <3>1. PICK d \in Clients : id["cast"][d] = i
      BY DEF ExactInv
    <3>2. id'["cast"][d] = i
      BY <2>1, <2>2, <3>1
    <3> QED
      BY <3>2
  <2>3. NoId \notin DOMAIN roomOf
    BY Numbers DEF SeatsInv
  <2>4. CASE Handles(c)
    <3> DEFINE i == id["cast"][c]
               m == Head(outbox[c])
    <3>1. /\ i \in Ids /\ DOMAIN roomOf' \ {i} = DOMAIN roomOf \ {i} /\ outbox[c] # << >>
          /\ ExactRooms /\ (Enters(m) => i \notin DOMAIN roomOf) => ExactRooms'
      BY <2>4, MessageHandled DEF Handled
    <3>2. ExactRooms'
      BY <3>1 DEF ExactInv, HeardByTurns
    <3>3. id' = id
      BY <2>4 DEF Handles, RoomCreation, PlayerJoinRoom, PlayerLeaveRoom, PlayerCrash, Receives
    <3>4. ASSUME NEW j \in DOMAIN roomOf'
          PROVE  \E d \in Clients : id'["cast"][d] = j
      <4>1. CASE j = i
        BY <3>3, <4>1
      <4>2. CASE j # i
        BY <2>2, <3>1, <3>3, <4>2
      <4> QED
        BY <4>1, <4>2
    <3> QED
      BY <3>2, <3>4 DEF ExactInv
  <2>5. CASE CloseCast(c)
    <3> DEFINE i == id["cast"][c]
    <3>1. roomOf' = roomOf /\ rooms' = [r \in DOMAIN rooms |-> Killed(rooms[r], i)]
      BY <2>5 DEF CloseCast
    <3>2. i \notin DOMAIN roomOf
      BY <2>5 DEF CloseCast, Loses
    <3>3. rooms' = rooms
      BY <3>1, <3>2, KilledSeats DEF ExactInv
    <3> QED
      BY <1>1, <2>2, <3>1, <3>2, <3>3 DEF castVars
  <2>6. CASE ConnectMain(c) \/ CloseMain(c)
    <3>1. id'["cast"][c] = id["cast"][c]
      BY <2>6, IdsGiven, IdsTaken, Numbers DEF ConnectMain, CloseMain
    <3> QED
      BY <1>1, <2>2, <2>6, <3>1 DEF ConnectMain, CloseMain
  <2>7. CASE ConnectCast(c)
    BY <1>1, <2>2, <2>3, <2>7 DEF ConnectCast
  <2>8. CASE ConnectionRefused(c) \/ CreateRoom(c) \/ LeaveRoom(c) \/ Quit(c) \/ Undefined(c)
             \/ \E r \in MainRoomNumbers : JoinRoom(c, r)
    BY <1>1, <2>2, <2>8 DEF ConnectionRefused, CreateRoom, LeaveRoom, Quit, JoinRoom, Undefined
  <2> QED
    BY <1>3, <2>4, <2>5, <2>6, <2>7, <2>8 DEF Acts, Handles
<1> QED
  BY <1>2, <1>3, SomebodyActs

LEMMA HeardStep ==
  ASSUME IdInv, MainInv, SeatsInv, ExactInv, \A c \in Clients : ToldByTurns(c),
         [Next]_vars, lost = 0, lost' = 0,
         \A c \in Clients : HeardByTurns(c)
  PROVE  \A c \in Clients : HeardByTurns(c)'
<1>1. ASSUME NEW d \in Clients, Untouched(d), id["cast"][d] \in DOMAIN roomOf' <=> id["cast"][d] \in DOMAIN roomOf
      PROVE  HeardByTurns(d)'
  BY <1>1 DEF Untouched, HeardByTurns
<1>2. CASE UNCHANGED vars
  BY <1>1, <1>2 DEF vars, clientVars, mainVars, castVars, Untouched
<1>3. NoId \notin DOMAIN roomOf
  BY Numbers DEF SeatsInv
<1>4. ASSUME NEW c \in Clients, Acts(c)
      PROVE  HeardByTurns(c)' /\ \A d \in Clients \ {c} : id["cast"][d] \in DOMAIN roomOf' <=> id["cast"][d] \in DOMAIN roomOf
  <2> DEFINE q == outbox[c]
             i == id["cast"][c]
             others == \A d \in Clients \ {c} : id["cast"][d] \in DOMAIN roomOf' <=> id["cast"][d] \in DOMAIN roomOf
  <2>1. /\ q \in Seq(Message) /\ ByTurns(q)
        /\ c \in running /\ q # << >> => (Enters(Final(q)) <=> at[c] # NoRoom)
        /\ q # << >> /\ Enters(Head(q)) => i \notin DOMAIN roomOf
        /\ c \in running /\ q = << >> /\ i \in DOMAIN roomOf => at[c] # NoRoom
        /\ q # << >> => i # NoId
        /\ outbox \in [Clients -> Seq(Message)]
    BY DEF MainInv, Present, ToldByTurns, HeardByTurns
  <2> HIDE DEF q, others
  <2>2. roomOf' = roomOf => others
    BY DEF others
  <2>3. ASSUME outbox' = outbox, roomOf' = roomOf, id'["cast"][c] = id["cast"][c],
               c \notin running' \/ (c \in running /\ at'[c] = at[c])
        PROVE  HeardByTurns(c)' /\ others
    BY <2>1, <2>2, <2>3 DEF HeardByTurns, q
  <2>4. CASE ConnectMain(c)
    <3>1. roomOf' = roomOf /\ i = NoId
      BY <2>4, Numbers DEF ConnectMain, castVars
    <3>2. id'["cast"][c] = NoId
      BY <2>4, <3>1, IdsGiven, Numbers DEF ConnectMain
    <3> QED
      BY <1>3, <2>2, <3>1, <3>2 DEF HeardByTurns
  <2>5. CASE ConnectCast(c)
    <3>1. roomOf' = roomOf /\ id'["cast"][c] \notin DOMAIN roomOf
      BY <2>5, NewIdUnknown DEF ConnectCast, castVars
    <3> QED
      BY <2>2, <3>1 DEF HeardByTurns
  <2>6. CASE ConnectionRefused(c) \/ Undefined(c)
    <3>1. running' = running /\ outbox' = outbox /\ roomOf' = roomOf /\ id' = id /\ at' = at
      BY <2>6 DEF ConnectionRefused, Undefined, clientVars, mainVars, castVars
    <3> QED
      BY <2>3, <3>1
  <2>7. CASE CloseMain(c)
    <3>1. outbox' = outbox /\ c \notin running' /\ roomOf' = roomOf
      BY <2>7 DEF CloseMain, clientVars, castVars
    <3>2. id'["cast"][c] = id["cast"][c]
      BY <2>7, IdsTaken, Numbers DEF CloseMain
    <3> QED
      BY <2>3, <3>1, <3>2
  <2>8. CASE CloseCast(c)
    <3>1. outbox'[c] = << >> /\ c \notin running' /\ roomOf' = roomOf
      BY <2>1, <2>8 DEF CloseCast
    <3> QED
      BY <2>2, <3>1 DEF HeardByTurns
  <2>9. ASSUME NEW m \in Message, Tell(c, m), c \in running, Enters(m) => at[c] = NoRoom,
               roomOf' = roomOf, id' = id
        PROVE  HeardByTurns(c)' /\ others
    <3>1. outbox'[c] = Append(q, m)
      BY <2>9, ToldMessage DEF q
    <3>2. Append(q, m) # << >> /\ Head(Append(q, m)) = IF q = << >> THEN m ELSE Head(q)
      BY <2>1, OneMoreTold
    <3> QED
      BY <2>1, <2>2, <2>9, <3>1, <3>2 DEF HeardByTurns
  <2>10. CASE CreateRoom(c)
    <3>1. Playing(c) /\ at[c] = NoRoom /\ Tell(c, [kind |-> "create"]) /\ id' = id /\ roomOf' = roomOf
      BY <2>10 DEF CreateRoom, castVars
    <3> QED
      BY <2>9, <3>1, Messages DEF Playing
  <2>11. ASSUME NEW r \in MainRoomNumbers, JoinRoom(c, r)
         PROVE  HeardByTurns(c)' /\ others
    <3> DEFINE m == [kind |-> "join", host |-> id["main"][host[r]]]
    <3>1. Playing(c) /\ at[c] = NoRoom /\ Tell(c, m) /\ host[r] # None /\ id' = id /\ roomOf' = roomOf
      BY <2>11 DEF JoinRoom, castVars
    <3>2. host[r] \in Clients /\ at[host[r]] = r
      BY <3>1 DEF MainInv
    <3>3. id["main"][host[r]] \in Ids
      BY <3>2, Numbers DEF MainInv, Present, IdInv, IdTypes
    <3>4. m \in Message
      BY <3>3, Messages
    <3> HIDE DEF m
    <3> QED
      BY <2>9, <3>1, <3>4 DEF Playing
  <2>12. CASE LeaveRoom(c)
    <3>1. Playing(c) /\ Tell(c, [kind |-> "leave"]) /\ id' = id /\ roomOf' = roomOf
      BY <2>12 DEF LeaveRoom, castVars
    <3> QED
      BY <2>9, <3>1, Messages DEF Playing
  <2>13. CASE Quit(c)
    <3>1. c \in running /\ c \notin running' /\ id' = id /\ roomOf' = roomOf
      BY <2>13 DEF Quit, castVars
    <3>2. CASE outbox' = outbox
      BY <2>3, <3>1, <3>2
    <3>3. CASE Tell(c, [kind |-> "crash"])
      BY <2>9, <3>1, <3>3, Messages
    <3> QED
      BY <2>13, <3>2, <3>3 DEF Quit
  <2>14. CASE Handles(c)
    <3> DEFINE m == Head(q)
    <3>1. PICK kind : Receives(c, kind)
      BY <2>14 DEF Handles, RoomCreation, PlayerJoinRoom, PlayerLeaveRoom, PlayerCrash
    <3>2. q # << >> /\ outbox'[c] = Tail(q) /\ running' = running /\ at' = at /\ id' = id
      BY <3>1, ReadMessage DEF Receives, mainVars, q
    <3>3. /\ Tail(q) # << >> => (Enters(Head(Tail(q))) <=> ~ Enters(Head(q)))
          /\ Tail(q) = << >> => Final(q) = Head(q)
      BY <2>1, <3>2, TurnsRead, OneReadLess
    <3>4. /\ i \in Ids /\ DOMAIN roomOf' \ {i} = DOMAIN roomOf \ {i}
          /\ ~ Enters(Head(q)) => i \notin DOMAIN roomOf'
      BY <2>14, MessageHandled DEF Handled, q
    <3>5. others
      <4> SUFFICES ASSUME NEW d \in Clients \ {c}
                   PROVE  id["cast"][d] \in DOMAIN roomOf' <=> id["cast"][d] \in DOMAIN roomOf
        BY DEF others
      <4>1. id["cast"][d] # i
        BY <3>4, DistinctIds
      <4> QED
        BY <3>4, <4>1
    <3>6. HeardByTurns(c)'
      <4> DEFINE t == Tail(q)
                 j == id'["cast"][c]
      <4>0. outbox'[c] = t /\ j = i
        BY <3>2
      <4>1. CASE Enters(Head(q))
        <5>1. ~ (t # << >> /\ Enters(Head(t)))
          BY <3>3, <4>1
        <5>2. c \in running' /\ t = << >> => at'[c] # NoRoom
          BY <2>1, <3>2, <3>3, <4>1
        <5> HIDE DEF t, j
        <5> QED
          BY <4>0, <5>1, <5>2 DEF HeardByTurns
      <4>2. CASE ~ Enters(Head(q))
        <5>1. j \notin DOMAIN roomOf'
          BY <3>4, <4>0, <4>2
        <5> HIDE DEF t
        <5> QED
          BY <5>1 DEF HeardByTurns
      <4> QED
        BY <4>1, <4>2
    <3> QED
      BY <3>5, <3>6 DEF others
  <2>15. HeardByTurns(c)' /\ others
    BY <1>4, <2>4, <2>5, <2>6, <2>7, <2>8, <2>10, <2>11, <2>12, <2>13, <2>14 DEF Acts, Handles, others
  <2> QED
    BY <2>15 DEF others
<1>5. ASSUME NEW c \in Clients, Acts(c), NEW d \in Clients
      PROVE  HeardByTurns(d)'
  <2>1. CASE d = c
    BY <1>4, <1>5, <2>1
  <2>2. CASE d # c
    BY <1>1, <1>4, <1>5, <2>2, OthersUntouched
  <2> QED
    BY <2>1, <2>2
<1> QED
  BY <1>2, <1>5, SomebodyActs

----------------------------------------------------------------------------
(* Both servers, as long as nothing goes wrong *)

LEMMA AsFarUnderWay ==
  ASSUME NEW d, Untouched(d)
  PROVE  UnderWay(d)' <=> UnderWay(d)
BY DEF Untouched, UnderWay, Servers

LEMMA UnderWayCases ==
  ASSUME NEW c
  PROVE  UnderWay(c) <=> \/ outbox[c] # << >>
                         \/ c \notin running /\ (id["main"][c] # NoId \/ id["cast"][c] # NoId)
BY DEF UnderWay, Servers

\* Nobody overtakes.
LEMMA OthersSettled ==
  ASSUME NEW c, Overtakes(c), mishaps' = {}
  PROVE  \A d \in Clients \ {c} : ~ UnderWay(d)
BY DEF Overtakes, Goes

LEMMA AgreeKept ==
  ASSUME NEW c, NEW d, Agree(c, d), at'[c] = at[c], at'[d] = at[d],
         SameCastRoom(c, d)' <=> SameCastRoom(c, d)
  PROVE  Agree(c, d)'
BY DEF Agree

\* The host that is named when joining
LEMMA NamedHost ==
  ASSUME NEW q \in Seq(Message), q # << >>, Final(q).kind = "join"
  PROVE  Final(q).host \in Ids /\ Enters(Final(q))
<1>1. Final(q) \in Message
  BY DEF Final
<1> QED
  BY <1>1 DEF Message, Enters

LEMMA OneIdStep ==
  ASSUME IdInv, MainInv, [Next]_vars, mishaps' = {}, \A c \in Clients : OneId(c)
  PROVE  \A c \in Clients : OneId(c)'
<1>1. ASSUME NEW d \in Clients, id'["main"][d] = id["main"][d], id'["cast"][d] = id["cast"][d]
      PROVE  OneId(d)'
  BY <1>1 DEF OneId
<1>2. CASE UNCHANGED vars
  BY <1>1, <1>2 DEF vars
<1>3. ASSUME NEW c \in Clients, Acts(c)
      PROVE  OneId(c)'
  <2>1. CASE ConnectMain(c)
    <3>1. id'["cast"][c] = NoId
      BY <2>1, IdsGiven, Numbers DEF ConnectMain
    <3> QED
      BY <3>1 DEF OneId
  <2>2. CASE ConnectCast(c)
    <3>1. id'["main"][c] = id["main"][c]
      BY <2>2, IdsGiven, Numbers DEF ConnectCast
    <3>2. id'["cast"][c] = id["main"][c]
      BY <2>2 DEF ConnectCast, Goes
    <3> QED
      BY <3>1, <3>2 DEF OneId
  <2>3. CASE CloseMain(c) \/ CloseCast(c)
    <3>1. id'["main"][c] = NoId \/ id'["cast"][c] = NoId
      BY <2>3, IdsTaken, Numbers DEF CloseMain, CloseCast
    <3> QED
      BY <3>1 DEF OneId
  <2>4. CASE id' = id
    BY <1>1, <2>4
  <2> QED
    BY <1>3, <2>1, <2>2, <2>3, <2>4 DEF Acts, ConnectionRefused, CreateRoom, LeaveRoom, Quit, JoinRoom,
       RoomCreation, PlayerJoinRoom, PlayerLeaveRoom, PlayerCrash, Receives, Undefined
<1>4. ASSUME NEW c \in Clients, Acts(c), NEW d \in Clients
      PROVE  OneId(d)'
  <2>1. CASE d = c
    BY <1>3, <1>4, <2>1
  <2>2. CASE d # c
    BY <1>1, <1>4, <2>2, OthersUntouched DEF Untouched
  <2> QED
    BY <2>1, <2>2
<1> QED
  BY <1>2, <1>4, SomebodyActs

\* What the table says of the other clients stays as it is.
LEMMA OthersSeated ==
  ASSUME IdInv, MainInv, SeatsInv, NEW c \in Clients, Acts(c), NEW d \in Clients \ {c}
  PROVE  LET i == id["cast"][d] IN
         (i \in DOMAIN roomOf' <=> i \in DOMAIN roomOf) /\ (i \in DOMAIN roomOf => roomOf'[i] = roomOf[i])
<1>1. CASE Handles(c)
  <2>1. /\ id["cast"][c] \in Ids /\ DOMAIN roomOf' \ {id["cast"][c]} = DOMAIN roomOf \ {id["cast"][c]}
        /\ \A j \in DOMAIN roomOf \ {id["cast"][c]} : roomOf'[j] = roomOf[j]
    BY <1>1, MessageHandled DEF Handled
  <2>2. id["cast"][d] # id["cast"][c]
    BY <2>1, DistinctIds
  <2> QED
    BY <2>1, <2>2
<1>2. CASE ~ Handles(c)
  <2>1. roomOf' = roomOf
    BY <1>2 DEF Acts, Handles, ConnectMain, ConnectCast, ConnectionRefused, CloseMain, CloseCast,
       CreateRoom, LeaveRoom, Quit, JoinRoom, Undefined, castVars
  <2> QED
    BY <2>1
<1> QED
  BY <1>1, <1>2

LEMMA OthersAgree ==
  ASSUME IdInv, MainInv, SeatsInv, NEW c \in Clients, Acts(c),
         NEW d \in Clients \ {c}, NEW e \in Clients \ {c}, Agree(d, e)
  PROVE  Agree(d, e)'
<1>1. Untouched(d) /\ Untouched(e)
  BY OthersUntouched
<1>2. /\ id["cast"][d] \in DOMAIN roomOf' <=> id["cast"][d] \in DOMAIN roomOf
      /\ id["cast"][d] \in DOMAIN roomOf => roomOf'[id["cast"][d]] = roomOf[id["cast"][d]]
  BY OthersSeated
<1>3. /\ id["cast"][e] \in DOMAIN roomOf' <=> id["cast"][e] \in DOMAIN roomOf
      /\ id["cast"][e] \in DOMAIN roomOf => roomOf'[id["cast"][e]] = roomOf[id["cast"][e]]
  BY OthersSeated
<1>4. SameCastRoom(d, e)' <=> SameCastRoom(d, e)
  BY <1>1, <1>2, <1>3 DEF Untouched, SameCastRoom
<1> QED
  BY <1>1, <1>4, AgreeKept DEF Untouched

\* The last message of a client has been handled: it is where it has told.
LEMMA HandledAgrees ==
  ASSUME IdInv, MainInv, SeatsInv, SettledInv, NEW c \in Clients, Handles(c),
         ToldByTurns(c), HeardByTurns(c), ~ UnderWay(c)'
  PROVE  \A d \in Clients : ~ UnderWay(d)' => Agree(c, d)' /\ Agree(d, c)'
<1> DEFINE q == outbox[c]
           i == id["cast"][c]
           m == Head(q)
<1>1. PICK kind : Receives(c, kind)
  BY DEF Handles, RoomCreation, PlayerJoinRoom, PlayerLeaveRoom, PlayerCrash
<1>2. /\ q \in Seq(Message) /\ q # << >> /\ outbox'[c] = Tail(q)
      /\ running' = running /\ at' = at /\ id' = id
  BY <1>1, ReadMessage DEF Receives, mainVars
<1>3. i \in Ids /\ DOMAIN roomOf' \ {i} = DOMAIN roomOf \ {i}
      /\ (\A j \in DOMAIN roomOf \ {i} : roomOf'[j] = roomOf[j])
      /\ (Enters(m) => m.kind = "create" \/ m.kind = "join")
      /\ (m.kind = "create" => i \in DOMAIN roomOf' /\ roomOf'[i] \notin Range(roomOf))
      /\ (m.kind = "join" /\ i \notin DOMAIN roomOf /\ m.host \in DOMAIN roomOf =>
           i \in DOMAIN roomOf' /\ roomOf'[i] = roomOf[m.host])
      /\ (~ Enters(m) => i \notin DOMAIN roomOf')
  BY MessageHandled DEF Handled
<1>4. Acts(c)
  BY DEF Acts, Handles
<1>5. i # NoId
  BY <1>3, Numbers
<1>6. Tail(q) = << >> /\ c \in running
  BY <1>2, <1>5 DEF UnderWay, Servers
<1>7. Final(q) = m
  BY <1>2, <1>6, OneReadLess
<1>8. Enters(m) <=> at[c] # NoRoom
  BY <1>2, <1>6, <1>7 DEF ToldByTurns
<1>9. Enters(m) => i \notin DOMAIN roomOf
  BY <1>2 DEF HeardByTurns
<1>10. UnderWay(c)
  BY <1>2 DEF UnderWay
<1> HIDE DEF q, m
<1> SUFFICES ASSUME NEW d \in Clients, ~ UnderWay(d)'
             PROVE  Agree(c, d)' /\ Agree(d, c)'
  OBVIOUS
<1> DEFINE j == id["cast"][d]
           together == i \in DOMAIN roomOf' /\ j \in DOMAIN roomOf' /\ roomOf'[i] = roomOf'[j]
<1>11. ASSUME at[c] # NoRoom \/ at[d] # NoRoom => (at[c] = at[d] <=> together)
       PROVE  Agree(c, d)' /\ Agree(d, c)'
  <2>1. SameCastRoom(c, d)' <=> together
    BY <1>2 DEF SameCastRoom
  <2>2. SameCastRoom(d, c)' <=> together
    BY <1>2 DEF SameCastRoom
  <2> HIDE DEF together
  <2>3. at[c] = at[d] <=> at[d] = at[c]
    OBVIOUS
  <2>4. Agree(c, d)'
    BY <1>2, <1>11, <2>1 DEF Agree
  <2>5. Agree(d, c)'
    BY <1>2, <1>11, <2>2, <2>3 DEF Agree
  <2> QED
    BY <2>4, <2>5
<1>12. ASSUME d # c
       PROVE  /\ ~ UnderWay(d) /\ j # i
              /\ (j \in DOMAIN roomOf' <=> j \in DOMAIN roomOf)
              /\ (j \in DOMAIN roomOf => roomOf'[j] = roomOf[j] /\ roomOf[j] \in Range(roomOf))
  <2>1. Untouched(d)
    BY <1>4, <1>12, OthersUntouched
  <2>2. j # i
    BY <1>3, <1>12, DistinctIds
  <2>3. j \in DOMAIN roomOf => roomOf[j] \in Range(roomOf)
    BY DEF Range
  <2>4. ~ UnderWay(d)
    BY <2>1, AsFarUnderWay
  <2> QED
    BY <1>3, <2>2, <2>3, <2>4
<1>13. CASE m.kind = "create"
  <2>0. Enters(m)
    BY <1>13 DEF Enters
  <2>1. at[c] # NoRoom /\ i \in DOMAIN roomOf' /\ roomOf'[i] \notin Range(roomOf)
    BY <1>3, <1>8, <1>13, <2>0
  <2>2. CASE d = c
    BY <1>11, <2>1, <2>2
  <2>3. CASE d # c
    <3>1. at[d] # at[c]
      BY <1>2, <1>6, <1>7, <1>13, <2>3 DEF SettledInv, TellsWhere, q
    <3>2. ~ together
      BY <1>12, <2>1, <2>3
    <3> QED
      BY <1>11, <3>1, <3>2
  <2> QED
    BY <2>2, <2>3
<1>14. CASE m.kind = "join"
  <2>0. Enters(m)
    BY <1>14 DEF Enters
  <2>1. PICK h \in Clients \ {c} : ~ UnderWay(h) /\ at[h] = at[c] /\ id["cast"][h] = m.host
    BY <1>2, <1>6, <1>7, <1>14 DEF SettledInv, TellsWhere, q
  <2>2. at[c] # NoRoom /\ i \notin DOMAIN roomOf
    BY <1>8, <1>9, <2>0
  <2>3. \A e \in Clients : ~ UnderWay(e) => (at[h] = at[e] <=> SameCastRoom(h, e))
    BY <2>1, <2>2 DEF SettledInv, Agree
  <2>4. m.host \in DOMAIN roomOf
    BY <2>1, <2>3 DEF SameCastRoom
  <2>5. i \in DOMAIN roomOf' /\ roomOf'[i] = roomOf[m.host]
    BY <1>3, <1>14, <2>2, <2>4
  <2>6. CASE d = c
    BY <1>11, <2>2, <2>5, <2>6
  <2>7. CASE d # c
    <3>1. at[h] = at[d] <=> SameCastRoom(h, d)
      BY <1>12, <2>3, <2>7
    <3>2. SameCastRoom(h, d) <=> j \in DOMAIN roomOf /\ roomOf[m.host] = roomOf[j]
      BY <2>1, <2>4 DEF SameCastRoom
    <3>3. together <=> j \in DOMAIN roomOf /\ roomOf[m.host] = roomOf[j]
      BY <1>12, <2>5, <2>7
    <3> HIDE DEF together
    <3> QED
      BY <1>11, <2>1, <3>1, <3>2, <3>3
  <2> QED
    BY <2>6, <2>7
<1>15. CASE ~ Enters(m)
  <2>1. at[c] = NoRoom /\ ~ together
    BY <1>3, <1>8, <1>15
  <2> HIDE DEF together
  <2> QED
    BY <1>11, <2>1
<1> QED
  BY <1>3, <1>13, <1>14, <1>15

LEMMA AgreeStep ==
  ASSUME IdInv, MainInv, SeatsInv, ExactInv, SettledInv, [Next]_vars, mishaps' = {}, lost = 0, lost' = 0,
         \A c \in Clients : ToldByTurns(c) /\ HeardByTurns(c)
  PROVE  \A c, d \in Clients : ~ UnderWay(c)' /\ ~ UnderWay(d)' => Agree(c, d)'
<1>1. CASE UNCHANGED vars
  BY <1>1 DEF vars, clientVars, mainVars, castVars, SettledInv, UnderWay, Agree, SameCastRoom
<1>2. ASSUME NEW c \in Clients, Acts(c), ~ UnderWay(c)', NEW d \in Clients, ~ UnderWay(d)'
      PROVE  Agree(c, d)' /\ Agree(d, c)'
  <2>1. ASSUME at'[c] = NoRoom, id'["cast"][c] = NoId, NoId \notin DOMAIN roomOf'
        PROVE  Agree(c, d)' /\ Agree(d, c)'
    BY <2>1 DEF Agree, SameCastRoom
  <2>2. ASSUME outbox' = outbox, at' = at, running' = running, roomOf' = roomOf,
               ~ UnderWay(c),
               \/ id'["cast"][c] = id["cast"][c]
               \/ id'["cast"][c] \notin DOMAIN roomOf /\ id["cast"][c] = NoId
        PROVE  Agree(c, d)' /\ Agree(d, c)'
    <3>1. NoId \notin DOMAIN roomOf
      BY Numbers DEF SeatsInv
    <3>2. ~ UnderWay(d) /\ (d # c => id'["cast"][d] = id["cast"][d])
      BY <1>2, <2>2, AsFarUnderWay, OthersUntouched DEF Untouched
    <3>3. SameCastRoom(c, d)' <=> SameCastRoom(c, d)
      BY <2>2, <3>1, <3>2 DEF SameCastRoom
    <3>4. SameCastRoom(d, c)' <=> SameCastRoom(d, c)
      BY <2>2, <3>1, <3>2 DEF SameCastRoom
    <3>5. Agree(c, d) /\ Agree(d, c)
      BY <2>2, <3>2 DEF SettledInv
    <3> QED
      BY <2>2, <3>3, <3>4, <3>5, AgreeKept
  <2>3. CASE ConnectMain(c)
    <3>1. outbox' = outbox /\ at' = at /\ roomOf' = roomOf
          /\ id["main"][c] = NoId /\ id["cast"][c] = NoId /\ outbox[c] = << >>
      BY <2>3, Numbers DEF ConnectMain, mainVars, castVars, MainInv, Present
    <3>2. id'["cast"][c] = NoId
      BY <2>3, <3>1, IdsGiven, Numbers DEF ConnectMain
    <3>3. at[c] = NoRoom /\ NoId \notin DOMAIN roomOf
      BY <3>1, Numbers DEF MainInv, Present, SeatsInv
    <3> QED
      BY <2>1, <3>1, <3>2, <3>3
  <2>4. CASE ConnectCast(c)
    <3>1. /\ outbox' = outbox /\ at' = at /\ running' = running /\ roomOf' = roomOf
          /\ c \in running /\ id["cast"][c] = NoId
      BY <2>4 DEF ConnectCast, clientVars, mainVars, castVars
    <3>2. ~ UnderWay(c)
      BY <1>2, <3>1 DEF UnderWay
    <3> QED
      BY <2>2, <2>4, <3>1, <3>2, NewIdUnknown
  <2>5. CASE ConnectionRefused(c) \/ Undefined(c)
    <3>1. outbox' = outbox /\ at' = at /\ running' = running /\ roomOf' = roomOf /\ id' = id
      BY <2>5 DEF ConnectionRefused, Undefined, clientVars, mainVars, castVars
    <3>2. ~ UnderWay(c)
      BY <1>2, <3>1 DEF UnderWay
    <3> QED
      BY <2>2, <3>1, <3>2
  <2>6. CASE CloseMain(c) \/ CloseCast(c)
    <3>1. c \notin running' /\ roomOf' = roomOf
      BY <2>6 DEF CloseMain, CloseCast, clientVars, castVars
    <3>2. id'["cast"][c] = NoId /\ id'["main"][c] = NoId
      BY <1>2, <3>1 DEF UnderWay, Servers
    <3>3. at'[c] = NoRoom
      <4>1. CASE CloseMain(c)
        BY <4>1, LeftInOrder DEF CloseMain, MainInv
      <4>2. CASE CloseCast(c)
        <5>1. at' = at /\ id'["main"][c] = id["main"][c]
          BY <4>2, IdsTaken, Numbers DEF CloseCast, mainVars
        <5> QED
          BY <3>2, <5>1 DEF MainInv, Present
      <4> QED
        BY <2>6, <4>1, <4>2
    <3>4. NoId \notin DOMAIN roomOf
      BY Numbers DEF SeatsInv
    <3> QED
      BY <2>1, <3>1, <3>2, <3>3, <3>4
  <2>7. ASSUME NEW m, Tell(c, m)
        PROVE  FALSE
    <3>1. outbox'[c] = Append(outbox[c], m) /\ outbox[c] \in Seq(Message)
      BY <2>7 DEF Tell, MainInv
    <3>2. Append(outbox[c], m) # << >>
      BY <3>1
    <3> QED
      BY <1>2, <3>1, <3>2 DEF UnderWay
  <2>8. CASE CreateRoom(c) \/ LeaveRoom(c) \/ \E r \in MainRoomNumbers : JoinRoom(c, r)
    BY <2>7, <2>8 DEF CreateRoom, LeaveRoom, JoinRoom
  <2>9. CASE Quit(c)
    <3>1. c \in running /\ c \notin running' /\ id' = id
      BY <2>9 DEF Quit
    <3>2. id["main"][c] # NoId
      BY <3>1 DEF MainInv, Present
    <3> QED
      BY <1>2, <3>1, <3>2 DEF UnderWay, Servers
  <2>10. CASE Handles(c)
    BY <1>2, <2>10, HandledAgrees
  <2> QED
    BY <1>2, <2>3, <2>4, <2>5, <2>6, <2>8, <2>9, <2>10 DEF Acts, Handles
<1>3. ASSUME NEW c \in Clients, Acts(c), NEW d \in Clients, NEW e \in Clients, ~ UnderWay(d)', ~ UnderWay(e)'
      PROVE  Agree(d, e)'
  <2>1. CASE d # c /\ e # c
    <3>1. Untouched(d) /\ Untouched(e)
      BY <1>3, <2>1, OthersUntouched
    <3>2. Agree(d, e)
      BY <1>3, <3>1, AsFarUnderWay DEF SettledInv
    <3> QED
      BY <1>3, <2>1, <3>2, OthersAgree
  <2>2. CASE d = c \/ e = c
    BY <1>2, <1>3, <2>2
  <2> QED
    BY <2>1, <2>2
<1> QED
  BY <1>1, <1>3, SomebodyActs

LEMMA TellsWhereStep ==
  ASSUME IdInv, MainInv, SeatsInv, SettledInv, [Next]_vars, mishaps' = {}, lost = 0, lost' = 0,
         \A c \in Clients : ToldByTurns(c)
  PROVE  \A c \in Clients : TellsWhere(c)'
<1>1. CASE UNCHANGED vars
  BY <1>1 DEF vars, clientVars, mainVars, SettledInv, UnderWay, TellsWhere
<1>2. \A e \in Clients : id["cast"][e] = NoId \/ id["cast"][e] \in Ids
  BY Numbers DEF IdInv, IdTypes
\* What c told stays true, as far as it is concerned.
<1>3. ASSUME NEW d \in Clients, TellsWhere(d), d \in running' => d \in running,
             at'[d] = at[d],
             outbox'[d] # << >> => outbox[d] # << >> /\ Final(outbox'[d]) = Final(outbox[d]),
             d \in running /\ outbox[d] # << >> =>
               \A e \in Clients \ {d} :
                 /\ at'[e] = at[d] => at[e] = at[d]
                 /\ ~ UnderWay(e) /\ at[e] = at[d] /\ id["cast"][e] \in Ids =>
                      ~ UnderWay(e)' /\ at'[e] = at[e] /\ id'["cast"][e] = id["cast"][e]
      PROVE  TellsWhere(d)'
  <2> SUFFICES ASSUME d \in running', outbox'[d] # << >>
               PROVE  /\ Final(outbox[d]).kind = "join" =>
                           \E h \in Clients \ {d} :
                             ~ UnderWay(h)' /\ at'[h] = at'[d] /\ id'["cast"][h] = Final(outbox[d]).host
                      /\ Final(outbox[d]).kind = "create" => \A e \in Clients \ {d} : at'[e] # at'[d]
    BY <1>3 DEF TellsWhere
  <2>1. d \in running /\ outbox[d] # << >> /\ outbox[d] \in Seq(Message)
    BY <1>3 DEF MainInv
  <2>2. ASSUME Final(outbox[d]).kind = "join"
        PROVE  \E h \in Clients \ {d} :
                 ~ UnderWay(h)' /\ at'[h] = at'[d] /\ id'["cast"][h] = Final(outbox[d]).host
    <3>1. PICK h \in Clients \ {d} :
            ~ UnderWay(h) /\ at[h] = at[d] /\ id["cast"][h] = Final(outbox[d]).host
      BY <1>3, <2>1, <2>2 DEF TellsWhere
    <3>2. id["cast"][h] \in Ids
      BY <2>1, <2>2, <3>1, NamedHost
    <3>3. ~ UnderWay(h)' /\ at'[h] = at[h] /\ id'["cast"][h] = id["cast"][h]
      BY <1>3, <2>1, <3>1, <3>2
    <3> QED
      BY <1>3, <3>1, <3>3
  <2>3. ASSUME Final(outbox[d]).kind = "create"
        PROVE  \A e \in Clients \ {d} : at'[e] # at'[d]
    BY <1>3, <2>1, <2>3 DEF TellsWhere
  <2> QED
    BY <2>2, <2>3
<1>4. ASSUME NEW c \in Clients, Acts(c), NEW d \in Clients \ {c}
      PROVE  TellsWhere(d)'
  <2>1. Untouched(d) /\ TellsWhere(d) /\ outbox[d] \in Seq(Message)
    BY <1>4, OthersUntouched DEF SettledInv, MainInv
  <2>2. ASSUME d \in running, outbox[d] # << >>
        PROVE  UnderWay(d)
    BY <2>2 DEF UnderWay
  <2>3. ASSUME d \in running /\ outbox[d] # << >> =>
                 /\ at'[c] = at[d] => at[c] = at[d]
                 /\ ~ UnderWay(c) /\ at[c] = at[d] /\ id["cast"][c] \in Ids =>
                      ~ UnderWay(c)' /\ at'[c] = at[c] /\ id'["cast"][c] = id["cast"][c]
        PROVE  TellsWhere(d)'
    <3>1. ASSUME NEW e \in Clients \ {d}, d \in running, outbox[d] # << >>
          PROVE  /\ at'[e] = at[d] => at[e] = at[d]
                 /\ ~ UnderWay(e) /\ at[e] = at[d] /\ id["cast"][e] \in Ids =>
                      ~ UnderWay(e)' /\ at'[e] = at[e] /\ id'["cast"][e] = id["cast"][e]
      <4>1. CASE e = c
        BY <2>3, <3>1, <4>1
      <4>2. CASE e # c
        <5>1. Untouched(e)
          BY <1>4, <4>2, OthersUntouched
        <5> QED
          BY <5>1, AsFarUnderWay DEF Untouched
      <4> QED
        BY <4>1, <4>2
    <3> QED
      BY <1>3, <2>1, <3>1 DEF Untouched
  <2>4. CASE Overtakes(c)
    BY <1>4, <2>2, <2>3, <2>4, OthersSettled
  <2>5. CASE ConnectMain(c) \/ ConnectCast(c)
    <3>1. at' = at /\ id["cast"][c] = NoId
      BY <2>5, Numbers DEF ConnectMain, ConnectCast, mainVars
    <3> QED
      BY <2>3, <3>1, Numbers
  <2>6. CASE ConnectionRefused(c) \/ Undefined(c)
    <3>1. outbox' = outbox /\ at' = at /\ running' = running /\ id' = id
      BY <2>6 DEF ConnectionRefused, Undefined, clientVars, mainVars
    <3>2. UnderWay(c)' <=> UnderWay(c)
      BY <3>1 DEF UnderWay
    <3> QED
      BY <2>3, <3>1, <3>2
  <2>7. CASE CloseCast(c) \/ Handles(c)
    <3>1. at' = at
      BY <2>7 DEF CloseCast, Handles, RoomCreation, PlayerJoinRoom, PlayerLeaveRoom, PlayerCrash,
         Receives, mainVars
    <3>2. UnderWay(c)
      BY <2>7, Numbers DEF UnderWay, CloseCast, Handles, RoomCreation, PlayerJoinRoom, PlayerLeaveRoom,
         PlayerCrash, Receives
    <3> QED
      BY <2>3, <3>1, <3>2
  <2>8. CASE CreateRoom(c)
    <3> DEFINE free == {r \in MainRoomNumbers : host[r] = None}
               r0 == Min(free)
    <3>1. free # {} /\ at'[c] = r0 /\ at[c] = NoRoom
      BY <2>8 DEF CreateRoom, MainInv
    <3>2. r0 \in free
      <4>1. free \in SUBSET Nat
        BY ConstantsAssumption DEF MainRoomNumbers
      <4> HIDE DEF free
      <4> QED
        BY <3>1, <4>1, LeastIsOne
    <3>3. host[r0] = None /\ r0 # NoRoom
      BY <3>2, Numbers
    <3> HIDE DEF free, r0
    <3>4. at[d] # r0
      BY <3>3 DEF MainInv, Present
    <3>5. CASE at[d] = NoRoom
      <4>1. d \in running /\ outbox[d] # << >> => ~ Enters(Final(outbox[d]))
        BY <3>5 DEF ToldByTurns
      <4>2. ~ (d \in running /\ outbox[d] # << >>
                 /\ (Final(outbox[d]).kind = "join" \/ Final(outbox[d]).kind = "create"))
        BY <4>1 DEF Enters
      <4> QED
        BY <2>1, <4>2 DEF TellsWhere, Untouched
    <3>6. CASE at[d] # NoRoom
      BY <2>3, <3>1, <3>4, <3>6
    <3> QED
      BY <3>5, <3>6
  <2> QED
    BY <1>4, <2>4, <2>5, <2>6, <2>7, <2>8 DEF Acts, Handles, CloseMain, LeaveRoom, Quit, JoinRoom
<1>5. ASSUME NEW c \in Clients, Acts(c)
      PROVE  TellsWhere(c)'
  <2>1. \A e \in Clients \ {c} : Untouched(e)
    BY <1>5, OthersUntouched
  <2>2. outbox[c] \in Seq(Message) /\ TellsWhere(c)
    BY DEF MainInv, SettledInv
  <2>3. ASSUME c \in running' => c \in running, at' = at,
               outbox'[c] # << >> => outbox[c] # << >> /\ Final(outbox'[c]) = Final(outbox[c])
        PROVE  TellsWhere(c)'
    BY <1>3, <2>1, <2>2, <2>3, AsFarUnderWay DEF Untouched
  <2>4. CASE ConnectMain(c)
    <3>1. outbox'[c] = << >>
      BY <2>4, Numbers DEF ConnectMain, MainInv, Present
    <3> QED
      BY <3>1 DEF TellsWhere
  <2>5. CASE ConnectCast(c) \/ ConnectionRefused(c) \/ Undefined(c)
    BY <2>3, <2>5 DEF ConnectCast, ConnectionRefused, Undefined, clientVars, mainVars
  <2>6. CASE CloseMain(c) \/ CloseCast(c) \/ Quit(c)
    <3>1. c \notin running'
      BY <2>6 DEF CloseMain, CloseCast, Quit, clientVars
    <3> QED
      BY <3>1 DEF TellsWhere
  <2>7. ASSUME NEW m \in Message, Tell(c, m)
        PROVE  Final(outbox'[c]) = m
    BY <2>2, <2>7, ToldMessage, OneMoreTold
  <2>8. CASE CreateRoom(c)
    <3> DEFINE free == {r \in MainRoomNumbers : host[r] = None}
               r0 == Min(free)
               m == [kind |-> "create"]
    <3>1. free # {} /\ at'[c] = r0 /\ Tell(c, m)
      BY <2>8 DEF CreateRoom, MainInv
    <3>2. r0 \in free
      <4>1. free \in SUBSET Nat
        BY ConstantsAssumption DEF MainRoomNumbers
      <4> HIDE DEF free
      <4> QED
        BY <3>1, <4>1, LeastIsOne
    <3>3. host[r0] = None /\ r0 # NoRoom
      BY <3>2, Numbers
    <3> HIDE DEF free, r0
    <3>4. \A e \in Clients \ {c} : at'[e] # r0
      BY <2>1, <3>3 DEF MainInv, Present, Untouched
    <3>5. Final(outbox'[c]) = m
      BY <2>7, <3>1, Messages
    <3>6. m.kind # "join"
      OBVIOUS
    <3> HIDE DEF m
    <3> QED
      BY <3>1, <3>4, <3>5, <3>6 DEF TellsWhere
  <2>9. ASSUME NEW r \in MainRoomNumbers, JoinRoom(c, r)
        PROVE  TellsWhere(c)'
    <3>1. host[r] \in Clients /\ at[host[r]] = r
      BY <2>9 DEF JoinRoom, MainInv
    <3>2. PICK h \in Clients : h = host[r]
      BY <3>1
    <3> DEFINE m == [kind |-> "join", host |-> id["main"][h]]
    <3>3. /\ at[c] = NoRoom /\ at' = [at EXCEPT ![c] = r] /\ Tell(c, m)
          /\ Overtakes(c)
      BY <2>9, <3>2 DEF JoinRoom
    <3>4. at[h] = r /\ h # c
      BY <3>1, <3>2, <3>3, Numbers
    <3>5. ~ UnderWay(h) /\ ~ UnderWay(h)'
      <4>1. h \in Clients \ {c} /\ Untouched(h)
        BY <2>1, <3>4
      <4>2. ~ UnderWay(h)
        BY <3>3, <4>1, OthersSettled
      <4> QED
        BY <4>1, <4>2, AsFarUnderWay
    <3>6. id["main"][h] # NoId /\ at[h] # NoRoom
      BY <3>4, Numbers DEF MainInv, Present
    <3>7. h \in running
      BY <3>5, <3>6 DEF UnderWay, Servers
    <3>8. id["cast"][h] # NoId
      BY <3>4, <3>6, <3>7 DEF MainInv, Present
    <3>9. id["main"][h] = id["cast"][h]
      BY <3>4, <3>6, <3>8 DEF SettledInv, OneId
    <3>10. id["main"][h] \in Ids
      BY <1>2, <3>4, <3>8, <3>9
    <3>11. m \in Message /\ m.kind = "join" /\ m.host = id["main"][h]
      BY <3>10, Messages
    <3> HIDE DEF m
    <3>12. Final(outbox'[c]) = m
      BY <2>7, <3>3, <3>11
    <3>13. at'[c] = r /\ at'[h] = r /\ id'["cast"][h] = id["cast"][h]
      BY <2>1, <3>3, <3>4 DEF MainInv, Untouched
    <3>14. h \in Clients \ {c} /\ ~ UnderWay(h)' /\ at'[h] = at'[c] /\ id'["cast"][h] = m.host
      BY <3>4, <3>5, <3>9, <3>11, <3>13
    <3>15. Final(outbox'[c]).kind # "create" /\ Final(outbox'[c]).host = m.host
      BY <3>11, <3>12
    <3>16. \E g \in Clients \ {c} :
             ~ UnderWay(g)' /\ at'[g] = at'[c] /\ id'["cast"][g] = Final(outbox'[c]).host
      BY <3>14, <3>15
    <3> QED
      BY <3>15, <3>16 DEF TellsWhere
  <2>10. CASE LeaveRoom(c)
    <3>1. Tell(c, [kind |-> "leave"])
      BY <2>10 DEF LeaveRoom
    <3>2. Final(outbox'[c]) = [kind |-> "leave"]
      BY <2>7, <3>1, Messages
    <3>3. Final(outbox'[c]).kind = "leave"
      BY <3>2
    <3> QED
      BY <3>3 DEF TellsWhere
  <2>11. ASSUME NEW kind, Receives(c, kind)
         PROVE  TellsWhere(c)'
    <3>1. outbox'[c] = Tail(outbox[c]) /\ outbox[c] # << >> /\ running' = running /\ at' = at
      BY <2>11, ReadMessage DEF Receives, mainVars
    <3>2. outbox'[c] # << >> => Final(outbox'[c]) = Final(outbox[c])
      BY <2>2, <3>1, OneReadLess
    <3> QED
      BY <2>3, <3>1, <3>2
  <2> QED
    BY <1>5, <2>4, <2>5, <2>6, <2>8, <2>9, <2>10, <2>11 DEF Acts,
       RoomCreation, PlayerJoinRoom, PlayerLeaveRoom, PlayerCrash
<1> QED
  BY <1>1, <1>4, <1>5, SomebodyActs

----------------------------------------------------------------------------
(* The theorems *)

LEMMA CastInit == Init => CastInv
<1> SUFFICES ASSUME Init
             PROVE  CastInv
  OBVIOUS
<1>1. /\ running = {} /\ at = [c \in Clients |-> NoRoom] /\ outbox = [c \in Clients |-> << >>]
      /\ id = [s \in Servers |-> [c \in Clients |-> NoId]] /\ roomOf = << >> /\ rooms = << >>
  BY DEF Init
<1>2. \A c \in Clients : ToldByTurns(c) /\ HeardByTurns(c) /\ TellsWhere(c)
  BY <1>1 DEF ToldByTurns, ByTurns, HeardByTurns, TellsWhere
<1>3. ExactInv
  BY <1>1 DEF ExactInv, ExactRooms
<1>4. SettledInv
  <2>1. \A c \in Clients : at[c] = NoRoom /\ id["main"][c] = NoId
    BY <1>1, Numbers
  <2> QED
    BY <1>2, <2>1 DEF SettledInv, OneId, Agree
<1> QED
  BY <1>2, <1>3, <1>4, IdInit, CastBegin DEF CastInv

LEMMA CastStep == CastInv /\ [Next]_vars => CastInv'
<1> SUFFICES ASSUME CastInv, [Next]_vars
             PROVE  CastInv'
  OBVIOUS
<1>1. /\ IdInv /\ SeatsInv /\ MainInv /\ HistoryInv
      /\ \A c \in Clients : ToldByTurns(c)
      /\ lost = 0 => ExactInv /\ ExactRooms /\ \A c \in Clients : HeardByTurns(c)
      /\ lost = 0 /\ mishaps = {} => SettledInv
  BY DEF CastInv, ExactInv
<1>2. IdInv' /\ SeatsInv' /\ MainInv' /\ \A c \in Clients : ToldByTurns(c)'
  BY <1>1, IdStep, SeatsStep, MainStep, ToldStep
<1>3. HistoryInv' /\ mishaps \subseteq mishaps' /\ lost' >= lost /\ lost \in Nat /\ lost' \in Nat
  BY <1>1, HistoryStep
<1>4. lost' = 0 => lost = 0
  BY <1>3
<1>5. mishaps' = {} => mishaps = {}
  BY <1>3
<1>6. ASSUME lost' = 0
      PROVE  ExactInv' /\ \A c \in Clients : HeardByTurns(c)'
  BY <1>1, <1>4, <1>6, ExactStep, HeardStep
<1>7. ASSUME lost' = 0, mishaps' = {}
      PROVE  SettledInv'
  <2>1. SettledInv /\ lost = 0 /\ ExactInv /\ \A c \in Clients : ToldByTurns(c) /\ HeardByTurns(c)
    BY <1>1, <1>4, <1>5, <1>7
  <2>2. \A c \in Clients : OneId(c)'
    BY <1>1, <1>7, <2>1, OneIdStep DEF SettledInv
  <2>3. \A c \in Clients : TellsWhere(c)'
    BY <1>1, <1>7, <2>1, TellsWhereStep
  <2>4. \A c, d \in Clients : ~ UnderWay(c)' /\ ~ UnderWay(d)' => Agree(c, d)'
    BY <1>1, <1>7, <2>1, AgreeStep
  <2> QED
    BY <2>2, <2>3, <2>4 DEF SettledInv
<1> QED
  BY <1>2, <1>3, <1>6, <1>7 DEF CastInv

LEMMA CastInvariant == Spec => []CastInv
BY CastInit, CastStep, PTL DEF Spec

\* The two containers of a Room, the table that finds it and the sessions it points to stay
\* what they are declared to be, in both processes, whatever is lost.
THEOREM CastRoomsTypes == Spec => []TypeOK
<1>1. CastInv => TypeOK
  <2> SUFFICES ASSUME CastInv
               PROVE  TypeOK
    OBVIOUS
  <2>1. SeatsInv /\ MainInv /\ HistoryInv /\ IdTypes
    BY DEF CastInv, IdInv
  <2>2. rooms \in [DOMAIN rooms -> CastRoom]
    BY <2>1 DEF SeatsInv, Furnished
  <2> QED
    BY <2>1, <2>2 DEF TypeOK, SeatsInv, MainInv, HistoryInv, IdTypes
<1> QED
  BY <1>1, CastInvariant, PTL

\* For any number of clients and rooms: m_players, m_playersVec and m_playerSessionIdToRoom hold
\* the same players; who has left on the main server and has told so is out on the cast server;
\* and without a lost connection no pointer dangles (RoomsManager::switchRoomJoinOrExit,
\* Room::addPlayer, Room::removePlayer).
THEOREM ServersAgreeOnRooms == Spec => []RoomsAgree
<1>1. CastInv => RoomsAgree
  <2> SUFFICES ASSUME CastInv
               PROVE  RoomsAgree
    OBVIOUS
  <2>1. /\ SeatsInv /\ HistoryInv
        /\ lost = 0 => ExactRooms /\ \A c \in Clients : HeardByTurns(c)
        /\ running \subseteq Clients
    BY DEF CastInv, ExactInv, MainInv
  <2>2. VectorsAgree
    <3>1. ASSUME NEW r \in DOMAIN rooms
          PROVE  DOMAIN rooms[r].players = {p.id : p \in ToSet(rooms[r].vec)}
      BY <2>1 DEF SeatsInv, Furnished
    <3>2. ASSUME NEW r \in DOMAIN rooms, lost = 0
          PROVE  /\ DOMAIN rooms[r].players = {i \in DOMAIN roomOf : roomOf[i] = r}
                 /\ Cardinality(ToSet(rooms[r].vec)) = Len(rooms[r].vec)
      <4>1. Exact(rooms[r], r, roomOf)
        BY <2>1, <3>2 DEF ExactRooms
      <4>2. rooms[r].vec \in Seq(Pointer)
        BY <2>1, PartsOfRoom DEF SeatsInv
      <4> QED
        BY <4>1, <4>2, InjectiveCounted DEF Exact
    <3> QED
      BY <2>1, <3>1, <3>2 DEF VectorsAgree, SeatsInv
  <2>3. OutsideMeansOutside
    BY <2>1 DEF OutsideMeansOutside, HeardByTurns
  <2> QED
    BY <2>1, <2>2, <2>3 DEF RoomsAgree, HistoryInv
<1> QED
  BY <1>1, CastInvariant, PTL

\* For any number of clients and rooms: as long as nothing has gone wrong, once all messages
\* are read, two clients share a room of the cast server exactly when they share one of the main
\* server.  That holds only as the id by which a client names its host is the host's id on both,
\* and nobody moves while another's message is under way.
THEOREM TogetherOnBothServers == Spec => []Together
<1>1. CastInv => Together
  BY DEF CastInv, SettledInv, Agree, Together, Quiet, TogetherOnBoth
<1> QED
  BY <1>1, CastInvariant, PTL

=============================================================================
