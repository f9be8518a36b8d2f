-------------------------- MODULE CastRelayProofs --------------------------
(***************************************************************************)
(* The forwarding of packets, for any number of sessions and any limits:   *)
(* the table, the map and the vector of a room hold the same players, so   *)
(* that every packet reaches those it is for; and the windows in which     *)
(* attacks are counted bound what gets through in any interval of time.    *)
(***************************************************************************)
EXTENDS CastRelay, Integers, SequencesExt, Vectors, SequenceTheorems, FiniteSetTheorems,
        WellFoundedInduction, TLAPS

----------------------------------------------------------------------------
(* Sequences: those that stand in a std::vector *)

\* push_back adds one member, and no duplicate when it was not there.
LEMMA SeatsAfterAppend ==
  ASSUME NEW S, NEW s \in Seq(S), NEW p \in S
  PROVE  /\ Append(s, p) \in Seq(S)
         /\ ToSet(Append(s, p)) = ToSet(s) \cup {p}
         /\ IsInjective(s) /\ p \notin ToSet(s) => IsInjective(Append(s, p))
<1>1. DOMAIN s = 1 .. Len(s) /\ DOMAIN Append(s, p) = 1 .. Len(s) + 1
  BY AppendProperties
<1>2. \A i \in 1 .. Len(s) : Append(s, p)[i] = s[i]
  BY AppendProperties
<1>3. Append(s, p)[Len(s) + 1] = p /\ Len(s) \in Nat
  BY AppendProperties
<1>4. ToSet(Append(s, p)) = ToSet(s) \cup {p}
  BY <1>1, <1>2, <1>3 DEF ToSet
<1>5. IsInjective(s) /\ p \notin ToSet(s) => IsInjective(Append(s, p))
  BY <1>1, <1>2, <1>3 DEF ToSet, IsInjective
<1> QED
  BY <1>4, <1>5, AppendProperties

\* Each of the positions is the n-th for exactly one n.
LEMMA PositionsCounted ==
  ASSUME NEW m \in Nat, NEW I \in SUBSET (1 .. m)
  PROVE  /\ IsFiniteSet(I) /\ Cardinality(I) \in Nat
         /\ \A n \in 1 .. Cardinality(I) : Position(I, n) \in I
         /\ \A n, k \in 1 .. Cardinality(I) : Position(I, n) = Position(I, k) => n = k
         /\ \A i \in I : \E n \in 1 .. Cardinality(I) : Position(I, n) = i
<1> DEFINE upTo(i) == {j \in I : j <= i}
           rank == [i \in I |-> Cardinality(upTo(i))]
           c == Cardinality(I)
<1>1. IsFiniteSet(I) /\ c \in Nat
  <2>1. IsFiniteSet(1 .. m)
    BY FS_Interval
  <2> QED
    BY <2>1, FS_Subset, FS_CardinalityType
<1>2. ASSUME NEW i \in I
      PROVE  /\ IsFiniteSet(upTo(i)) /\ Cardinality(upTo(i)) \in Nat
             /\ Cardinality(upTo(i)) \in 1 .. c
  <2>1. upTo(i) \in SUBSET I /\ i \in upTo(i)
    OBVIOUS
  <2>2. IsFiniteSet(upTo(i)) /\ Cardinality(upTo(i)) <= c
    BY <1>1, <2>1, FS_Subset
  <2>3. Cardinality(upTo(i)) \in Nat /\ Cardinality(upTo(i)) # 0
    BY <2>1, <2>2, FS_CardinalityType, FS_EmptySet
  <2> QED
    BY <1>1, <2>2, <2>3
<1>3. ASSUME NEW i \in I, NEW k \in I, i < k
      PROVE  Cardinality(upTo(i)) < Cardinality(upTo(k))
  <2>1. upTo(i) \in SUBSET upTo(k) /\ k \in upTo(k) /\ k \notin upTo(i)
    <3>1. i \in Nat /\ k \in Nat /\ \A j \in I : j \in Nat
      OBVIOUS
    <3>2. \A j \in I : j <= i => j <= k
      BY <1>3, <3>1
    <3>3. k <= k /\ ~(k <= i)
      BY <1>3, <3>1
    <3> QED
      BY <3>2, <3>3
  <2>2. /\ Cardinality(upTo(i)) <= Cardinality(upTo(k))
        /\ Cardinality(upTo(k)) = Cardinality(upTo(i)) => upTo(k) = upTo(i)
    BY <1>2, <2>1, FS_Subset
  <2>3. Cardinality(upTo(k)) # Cardinality(upTo(i))
    BY <2>1, <2>2
  <2> QED
    BY <1>2, <2>2, <2>3
<1>4. rank \in [I -> 1 .. c]
  BY <1>2
<1>5. \A i, k \in I : rank[i] = rank[k] => i = k
  <2> SUFFICES ASSUME NEW i \in I, NEW k \in I, i # k
               PROVE  rank[i] # rank[k]
    OBVIOUS
  <2>1. i < k \/ k < i
    OBVIOUS
  <2> QED
    BY <1>2, <1>3, <2>1
<1>6. \A n \in 1 .. c : \E i \in I : rank[i] = n
  <2>1. IsFiniteSet(1 .. c) /\ Cardinality(1 .. c) = c
    BY <1>1, FS_Interval
  <2>2. rank \in Injection(I, 1 .. c)
    BY <1>4, <1>5 DEF Injection, IsInjective
  <2>3. rank \in Surjection(I, 1 .. c)
    BY <2>1, <2>2, FS_Injection
  <2> QED
    BY <2>3 DEF Surjection
<1>7. \A n \in 1 .. c : Position(I, n) \in I /\ rank[Position(I, n)] = n
  <2> SUFFICES ASSUME NEW n \in 1 .. c
               PROVE  Position(I, n) \in I /\ rank[Position(I, n)] = n
    OBVIOUS
  <2>1. \E i \in I : Cardinality(upTo(i)) = n
    BY <1>6
  <2> QED
    BY <2>1 DEF Position
<1>8. \A i \in I : Position(I, rank[i]) = i
  BY <1>4, <1>5, <1>7
<1> QED
  BY <1>1, <1>4, <1>7, <1>8

\* A vector holds what stood at those positions, each as often as there.
LEMMA SeatsAtPositions ==
  ASSUME NEW S, NEW s \in Seq(S), NEW I \in SUBSET DOMAIN s
  PROVE  /\ AtPositions(s, I) \in Seq(S)
         /\ ToSet(AtPositions(s, I)) = {s[i] : i \in I}
         /\ IsInjective(s) => IsInjective(AtPositions(s, I))
<1> DEFINE c == Cardinality(I)
           t == AtPositions(s, I)
<1>1. DOMAIN s = 1 .. Len(s) /\ Len(s) \in Nat
  OBVIOUS
<1>2. /\ c \in Nat
      /\ \A n \in 1 .. c : Position(I, n) \in I
      /\ \A n, k \in 1 .. c : Position(I, n) = Position(I, k) => n = k
      /\ \A i \in I : \E n \in 1 .. c : Position(I, n) = i
  BY ZenonT(30), <1>1, PositionsCounted
<1>3. DOMAIN t = 1 .. c /\ \A n \in 1 .. c : t[n] = s[Position(I, n)]
  BY DEF AtPositions
<1>4. t \in Seq(S)
  <2>1. t = [n \in 1 .. c |-> s[Position(I, n)]]
    BY DEF AtPositions
  <2>2. \A n \in 1 .. c : s[Position(I, n)] \in S
    BY <1>1, <1>2
  <2> QED
    BY <1>2, <2>1, <2>2
<1> HIDE DEF t
<1>5. ToSet(t) = {s[i] : i \in I}
  BY <1>2, <1>3 DEF ToSet
<1>6. IsInjective(s) => IsInjective(t)
  BY <1>1, <1>2, <1>3 DEF IsInjective
<1> QED
  BY <1>4, <1>5, <1>6 DEF t

----------------------------------------------------------------------------
(* Numbers and counting *)

\* A non-empty set of natural numbers has a least element.
LEMMA LeastNumber ==
  ASSUME NEW S \in SUBSET Nat, S # {}
  PROVE  \E k \in S : \A j \in S : k <= j
<1> DEFINE R == {ss \in Nat \X Nat : ss[1] < ss[2]}
<1>1. OpToRel(<, Nat) = R
  BY DEF OpToRel
<1>2. PICK k \in S : \A j \in S : ~ (<<j, k>> \in R)
  BY ZenonT(30), <1>1, NatLessThanWellFounded, WFMin
<1>3. \A j \in S : k <= j
  <2> TAKE j \in S
  <2>1. j \in Nat /\ k \in Nat
    OBVIOUS
  <2>2. <<j, k>> \notin R
    BY <1>2
  <2> QED
    BY <2>1, <2>2
<1> QED
  BY <1>3

\* A sequence without duplicates is as long as it has elements.
LEMMA InjectiveCounted ==
  ASSUME NEW S, NEW s \in Seq(S), IsInjective(s)
  PROVE  IsFiniteSet(ToSet(s)) /\ Cardinality(ToSet(s)) = Len(s)
<1>1. DOMAIN s = 1 .. Len(s) /\ Len(s) \in Nat
  OBVIOUS
<1>2. IsFiniteSet(1 .. Len(s)) /\ Cardinality(1 .. Len(s)) = Len(s)
  BY <1>1, FS_Interval
<1>3. s \in [1 .. Len(s) -> ToSet(s)]
  BY <1>1 DEF ToSet
<1>4. s \in Injection(1 .. Len(s), ToSet(s)) /\ s \in Surjection(1 .. Len(s), ToSet(s))
  BY <1>1, <1>3 DEF Injection, Surjection, ToSet
<1>5. ExistsBijection(1 .. Len(s), ToSet(s))
  BY <1>4 DEF ExistsBijection, Bijection
<1> QED
  BY <1>2, <1>5, FS_Bijection

\* SetToSeq goes through all of a finite set, and through each element once.
LEMMA SetEnumerated ==
  ASSUME NEW S, IsFiniteSet(S)
  PROVE  SetToSeq(S) \in Seq(S) /\ IsInjective(SetToSeq(S)) /\ ToSet(SetToSeq(S)) = S
<1> DEFINE c == Cardinality(S)
           s == SetToSeq(S)
<1>1. c \in Nat /\ \E f : f \in Bijection(1 .. c, S)
  BY FS_CardinalityType DEF ExistsBijection
<1>2. \E f \in [1 .. c -> S] : IsInjective(f)
  BY <1>1 DEF Bijection, Injection
<1>3. s \in [1 .. c -> S] /\ IsInjective(s)
  BY <1>2 DEF SetToSeq
<1> HIDE DEF s
<1>4. IsFiniteSet(1 .. c) /\ Cardinality(1 .. c) = c
  BY <1>1, FS_Interval
<1>5. s \in Injection(1 .. c, S)
  BY <1>3 DEF Injection
<1>6. s \in Surjection(1 .. c, S)
  BY <1>4, <1>5, FS_Injection
<1>7. ToSet(s) = S
  BY <1>3, <1>6 DEF Surjection, ToSet
<1>8. s \in Seq(S)
  BY <1>1, <1>3
<1> QED
  BY <1>3, <1>7, <1>8 DEF s

\* A function from a part of S leaves one of |S| + 1 numbers free.
LEMMA OneNumberFree ==
  ASSUME NEW S, IsFiniteSet(S), NEW f, DOMAIN f \subseteq S
  PROVE  \E n \in 1 .. Cardinality(S) + 1 : n \notin Range(f)
<1> DEFINE c == Cardinality(S)
           g == [x \in DOMAIN f |-> f[x]]
<1>1. c \in Nat /\ IsFiniteSet(DOMAIN f) /\ Cardinality(DOMAIN f) <= c
  BY FS_Subset, FS_CardinalityType
<1>2. g \in Surjection(DOMAIN f, Range(f))
  BY DEF Surjection, Range
<1>3. IsFiniteSet(Range(f)) /\ Cardinality(Range(f)) <= Cardinality(DOMAIN f)
  BY <1>1, <1>2, FS_Surjection
<1>4. Cardinality(DOMAIN f) \in Nat /\ Cardinality(Range(f)) \in Nat
  BY <1>1, <1>3, FS_CardinalityType
<1>5. Cardinality(1 .. c + 1) = c + 1
  BY <1>1, FS_Interval
<1>6. ASSUME 1 .. c + 1 \subseteq Range(f)
      PROVE  FALSE
  <2>1. Cardinality(1 .. c + 1) <= Cardinality(Range(f))
    BY <1>3, <1>6, FS_Subset
  <2> QED
    BY <1>1, <1>3, <1>4, <1>5, <2>1
<1> QED
  BY <1>6

\* The least of some numbers
LEMMA LeastIsOne ==
  ASSUME NEW S \in SUBSET Nat, S # {}
  PROVE  Min(S) \in S
BY LeastNumber DEF Min

----------------------------------------------------------------------------
(* The table, the map and the vector *)

\* The room with number r: its two containers, by the entries of the table.
Seated(room, r, entries) ==
  /\ room \in Room
  /\ room.players = {x \in DOMAIN entries : entries[x] = r}
  /\ IsInjective(room.vec) /\ ToSet(room.vec) = room.players

RoomsInv ==
  /\ inside \subseteq Sessions /\ inMatch \subseteq Sessions
  /\ DOMAIN roomOf \subseteq inside /\ roomOf = [x \in DOMAIN roomOf |-> roomOf[x]]
  /\ DOMAIN rooms = Range(roomOf) /\ rooms = [r \in DOMAIN rooms |-> rooms[r]]
  /\ \A r \in DOMAIN rooms : Seated(rooms[r], r, roomOf)

LEMMA RoomsBegin == Init => RoomsInv /\ ~astray
BY DEF Init, RoomsInv, Range, Seated

\* A room is as the table says when its containers are.
LEMMA SeatedByTable ==
  ASSUME NEW players, NEW vec \in Seq(Sessions), NEW r, NEW entries,
         players = {x \in DOMAIN entries : entries[x] = r}, players \subseteq Sessions,
         IsInjective(vec), ToSet(vec) = players
  PROVE  Seated([players |-> players, vec |-> vec], r, entries)
<1> DEFINE room == [players |-> players, vec |-> vec]
<1>1. room \in Room /\ room.players = players /\ room.vec = vec
  BY DEF Room
<1> HIDE DEF room
<1>2. Seated(room, r, entries)
  BY <1>1 DEF Seated
<1> QED
  BY <1>2 DEF room

\* The vector without s holds the others.
LEMMA WithoutOne ==
  ASSUME NEW S, NEW vec \in Seq(S), IsInjective(vec), NEW s
  PROVE  /\ Without(vec, s) \in Seq(S) /\ IsInjective(Without(vec, s))
         /\ ToSet(Without(vec, s)) = ToSet(vec) \ {s}
<1> DEFINE I == {i \in DOMAIN vec : vec[i] # s}
<1>1. /\ AtPositions(vec, I) \in Seq(S) /\ IsInjective(AtPositions(vec, I))
      /\ ToSet(AtPositions(vec, I)) = {vec[i] : i \in I}
  BY SeatsAtPositions
<1>2. {vec[i] : i \in I} = ToSet(vec) \ {s}
  BY DEF ToSet
<1> QED
  BY <1>1, <1>2 DEF Without

\* Rooms that lose nobody are as before.
LEMMA RoomsKept ==
  ASSUME RoomsInv, UNCHANGED <<roomOf, rooms>>, DOMAIN roomOf \subseteq inside',
         inside' \subseteq Sessions, inMatch' \subseteq Sessions
  PROVE  RoomsInv'
BY DEF RoomsInv, Seated

LEMMA RoomCreationSeats ==
  ASSUME RoomsInv, NEW s \in Sessions, RoomCreation(s)
  PROVE  RoomsInv'
<1> DEFINE free == {n \in 1 .. Cardinality(Sessions) + 1 : n \notin DOMAIN rooms}
           r == Min(free)
           room == [players |-> {s}, vec |-> <<s>>]
<1>1. s \notin DOMAIN roomOf
  BY DEF RoomsInv, RoomCreation
<1>2. r \notin DOMAIN rooms
  <2>1. free \in SUBSET Nat
    OBVIOUS
  <2>2. \E n \in 1 .. Cardinality(Sessions) + 1 : n \notin Range(roomOf)
    BY ConstantsAssumption, OneNumberFree DEF RoomsInv
  <2>3. free # {}
    BY <2>2 DEF RoomsInv
  <2> HIDE DEF free
  <2>4. r \in free
    BY <2>1, <2>3, LeastIsOne
  <2> QED
    BY <2>4 DEF free
<1>3. /\ roomOf' = [x \in DOMAIN roomOf \cup {s} |-> IF x = s THEN r ELSE roomOf[x]]
      /\ rooms' = Keeping([x \in DOMAIN rooms \cup {r} |-> IF x = r THEN room ELSE rooms[x]],
                          roomOf')
      /\ inside' = inside \cup {s} /\ inMatch' = inMatch
  BY DEF RoomCreation
<1> HIDE DEF r
<1>4. Range(roomOf') = DOMAIN rooms \cup {r}
  BY SMTT(30), <1>1, <1>3 DEF Range, RoomsInv
<1>5. rooms' = [x \in DOMAIN rooms \cup {r} |-> IF x = r THEN room ELSE rooms[x]]
  BY <1>3, <1>4 DEF Keeping, Restrict
<1>6. ASSUME NEW x \in DOMAIN rooms
      PROVE  Seated(rooms'[x], x, roomOf')
  <2>1. x # r /\ rooms'[x] = rooms[x]
    BY <1>2, <1>5
  <2>2. {y \in DOMAIN roomOf' : roomOf'[y] = x} = {y \in DOMAIN roomOf : roomOf[y] = x}
    BY <1>1, <1>3, <2>1
  <2> QED
    BY <2>1, <2>2 DEF RoomsInv, Seated
<1>7. Seated(rooms'[r], r, roomOf')
  <2>1. rooms'[r] = [players |-> {s}, vec |-> <<s>>]
    BY <1>5
  <2>2. {s} = {y \in DOMAIN roomOf' : roomOf'[y] = r}
    BY <1>1, <1>2, <1>3 DEF RoomsInv, Range
  <2>3. <<s>> \in Seq(Sessions) /\ IsInjective(<<s>>) /\ ToSet(<<s>>) = {s}
    BY DEF IsInjective, ToSet
  <2> QED
    BY <2>1, <2>2, <2>3, SeatedByTable
<1> QED
  BY <1>1, <1>3, <1>4, <1>5, <1>6, <1>7 DEF RoomsInv

LEMMA RemovalSeats ==
  ASSUME RoomsInv, NEW s \in Sessions, RemovePlayerFromRoom(s), inside' = inside \ {s}
  PROVE  RoomsInv'
<1>1. CASE s \notin DOMAIN roomOf
  <2>1. roomOf' = roomOf
    BY <1>1 DEF RemovePlayerFromRoom, Restrict, RoomsInv
  <2>2. rooms' = rooms /\ inMatch' = inMatch
    BY <1>1 DEF RemovePlayerFromRoom
  <2> QED
    BY <1>1, <2>1, <2>2, RoomsKept DEF RoomsInv
<1>2. CASE s \in DOMAIN roomOf
  <2> DEFINE r == roomOf[s]
             before == rooms[r]
             after == [players |-> before.players \ {s}, vec |-> Without(before.vec, s)]
  <2>1. r \in DOMAIN rooms /\ Seated(before, r, roomOf)
    BY <1>2 DEF RoomsInv, Range
  <2>2. roomOf' = [x \in DOMAIN roomOf \ {s} |-> roomOf[x]]
    BY DEF RemovePlayerFromRoom, Restrict
  <2>3. rooms' = [x \in Range(roomOf') |-> IF x = r THEN after ELSE rooms[x]]
    <3>1. Range(roomOf') \subseteq DOMAIN rooms
      BY <2>2 DEF Range, RoomsInv
    <3>2. rooms' = [x \in Range(roomOf') |-> [rooms EXCEPT ![r] = after][x]]
      BY <1>2 DEF RemovePlayerFromRoom, Keeping, Restrict
    <3> QED
      BY <3>1, <3>2
  <2>4. ASSUME NEW x \in Range(roomOf'), x # r
        PROVE  Seated(rooms'[x], x, roomOf')
    <3>1. x \in DOMAIN rooms /\ rooms'[x] = rooms[x]
      BY <2>2, <2>3, <2>4 DEF Range, RoomsInv
    <3>2. {y \in DOMAIN roomOf' : roomOf'[y] = x} = {y \in DOMAIN roomOf : roomOf[y] = x}
      BY <2>2, <2>4
    <3> QED
      BY <3>1, <3>2 DEF RoomsInv, Seated
  <2>5. ASSUME r \in Range(roomOf')
        PROVE  Seated(rooms'[r], r, roomOf')
    <3>1. before.vec \in Seq(Sessions) /\ IsInjective(before.vec) /\ ToSet(before.vec) = before.players
      BY <2>1 DEF Seated, Room
    <3>2. before.players \ {s} = {y \in DOMAIN roomOf' : roomOf'[y] = r}
      BY <2>1, <2>2 DEF Seated
    <3>3. before.players \ {s} \subseteq Sessions
      BY <2>1 DEF Seated, Room
    <3>4. /\ Without(before.vec, s) \in Seq(Sessions) /\ IsInjective(Without(before.vec, s))
          /\ ToSet(Without(before.vec, s)) = before.players \ {s}
      BY <3>1, WithoutOne
    <3>5. rooms'[r] = after
      BY <2>3, <2>5
    <3>6. Seated(after, r, roomOf')
      BY <3>2, <3>3, <3>4, SeatedByTable, Zenon
    <3> QED
      BY <3>5, <3>6
  <2>6. DOMAIN rooms' = Range(roomOf') /\ rooms' = [x \in DOMAIN rooms' |-> rooms'[x]]
    BY <2>3
  <2>7. /\ DOMAIN roomOf' \subseteq inside' /\ inside' \subseteq Sessions /\ inMatch' \subseteq Sessions
        /\ roomOf' = [x \in DOMAIN roomOf' |-> roomOf'[x]]
    BY <1>2, <2>2 DEF RoomsInv, RemovePlayerFromRoom
  <2> QED
    BY <2>4, <2>5, <2>6, <2>7 DEF RoomsInv
<1> QED
  BY <1>1, <1>2

LEMMA JoinSeats ==
  ASSUME RoomsInv, NEW s \in Sessions, NEW host \in Sessions, PlayerJoinRoom(s, host)
  PROVE  RoomsInv'
<1>1. s \notin DOMAIN roomOf /\ inside' = inside \cup {s} /\ inMatch' = inMatch
  BY DEF RoomsInv, PlayerJoinRoom
<1>2. CASE host \notin DOMAIN roomOf
  BY <1>1, <1>2, RoomsKept DEF PlayerJoinRoom, RoomsInv
<1>3. CASE host \in DOMAIN roomOf
  <2> DEFINE r == roomOf[host]
             before == rooms[r]
             after == [players |-> before.players \cup {s}, vec |-> Append(before.vec, s)]
  <2>1. r \in DOMAIN rooms /\ Seated(before, r, roomOf)
    BY <1>3 DEF RoomsInv, Range
  <2>2. /\ roomOf' = [x \in DOMAIN roomOf \cup {s} |-> IF x = s THEN r ELSE roomOf[x]]
        /\ rooms' = [rooms EXCEPT ![r] = after]
    BY <1>3 DEF PlayerJoinRoom
  <2>3. Range(roomOf') = Range(roomOf)
    BY <1>1, <1>3, <2>2 DEF Range
  <2>4. ASSUME NEW x \in DOMAIN rooms, x # r
        PROVE  Seated(rooms'[x], x, roomOf')
    <3>1. rooms'[x] = rooms[x]
      BY <2>2, <2>4
    <3>2. {y \in DOMAIN roomOf' : roomOf'[y] = x} = {y \in DOMAIN roomOf : roomOf[y] = x}
      BY <1>1, <2>2, <2>4
    <3> QED
      BY <3>1, <3>2 DEF RoomsInv, Seated
  <2>5. Seated(rooms'[r], r, roomOf')
    <3>1. before.vec \in Seq(Sessions) /\ IsInjective(before.vec) /\ ToSet(before.vec) = before.players
      BY <2>1 DEF Seated, Room
    <3>2. s \notin before.players /\ before.players \cup {s} = {y \in DOMAIN roomOf' : roomOf'[y] = r}
      BY <1>1, <2>1, <2>2 DEF Seated
    <3>3. before.players \cup {s} \subseteq Sessions
      BY <2>1 DEF Seated, Room
    <3>4. /\ Append(before.vec, s) \in Seq(Sessions) /\ IsInjective(Append(before.vec, s))
          /\ ToSet(Append(before.vec, s)) = before.players \cup {s}
      BY <3>1, <3>2, SeatsAfterAppend
    <3>5. rooms'[r] = after
      BY <2>1, <2>2
    <3>6. Seated(after, r, roomOf')
      BY <3>2, <3>3, <3>4, SeatedByTable, Zenon
    <3> QED
      BY <3>5, <3>6
  <2>6. DOMAIN rooms' = DOMAIN rooms /\ rooms' = [x \in DOMAIN rooms' |-> rooms'[x]]
    BY <2>2 DEF RoomsInv
  <2>7. /\ DOMAIN roomOf' \subseteq inside' /\ inside' \subseteq Sessions /\ inMatch' \subseteq Sessions
        /\ roomOf' = [x \in DOMAIN roomOf' |-> roomOf'[x]]
    BY <1>1, <2>2 DEF RoomsInv
  <2>8. DOMAIN rooms' = Range(roomOf')
    BY <2>3, <2>6 DEF RoomsInv
  <2>9. \A x \in DOMAIN rooms' : Seated(rooms'[x], x, roomOf')
    BY <2>4, <2>5, <2>6
  <2> QED
    BY <2>6, <2>7, <2>8, <2>9 DEF RoomsInv
<1> QED
  BY <1>2, <1>3

\* Every step keeps the three in agreement.
LEMMA RoomsStep == RoomsInv /\ [Next]_vars => RoomsInv'
<1> SUFFICES ASSUME RoomsInv, [Next]_vars
             PROVE  RoomsInv'
  OBVIOUS
<1>1. /\ inside \subseteq Sessions /\ inMatch \subseteq Sessions /\ DOMAIN roomOf \subseteq inside
  BY DEF RoomsInv
<1>2. CASE UNCHANGED vars
  BY <1>1, <1>2, RoomsKept DEF vars, members
<1>3. CASE Tick
  BY <1>1, <1>3, RoomsKept DEF Tick, members
<1>4. ASSUME NEW s \in Sessions, RoomCreation(s)
      PROVE  RoomsInv'
  BY <1>4, RoomCreationSeats
<1>5. ASSUME NEW s \in Sessions, LeaveRoom(s)
      PROVE  RoomsInv'
  BY <1>5, RemovalSeats DEF LeaveRoom
<1>6. ASSUME NEW s \in Sessions, Reconnect(s)
      PROVE  RoomsInv'
  BY <1>1, <1>6, RoomsKept DEF Reconnect, members
<1>7. ASSUME NEW s \in Sessions, NEW host \in Sessions, PlayerJoinRoom(s, host)
      PROVE  RoomsInv'
  BY <1>7, JoinSeats
<1>8. ASSUME NEW s \in Sessions, NEW host \in Sessions, Crash(s, host)
      PROVE  RoomsInv'
  BY <1>8, RemovalSeats DEF Crash
<1>9. ASSUME NEW s \in Sessions, NEW order \in Orders, NEW receiver \in Sessions,
             Relay(s, order, receiver) \/ WeaponAttack(s, order, receiver)
      PROVE  RoomsInv'
  BY <1>1, <1>9, RoomsKept DEF Relay, WeaponAttack, members
<1>10. ASSUME NEW s \in Sessions, NEW receiver \in Sessions, MatchStart(s, receiver)
       PROVE  RoomsInv'
  BY <1>1, <1>10, RoomsKept DEF MatchStart, members
<1>11. ASSUME NEW s \in Sessions, InitialLoading(s) \/ MatchEnd(s) \/ MatchLeave(s)
       PROVE  RoomsInv'
  BY <1>1, <1>11, RoomsKept DEF InitialLoading, MatchEnd, MatchLeave, members
<1>12. ASSUME NEW s \in Sessions, NEW position \in Positions, PlayerPosition(s, position)
       PROVE  RoomsInv'
  BY <1>1, <1>12, RoomsKept DEF PlayerPosition, members
<1> QED
  BY <1>2, <1>3, <1>4, <1>5, <1>6, <1>7, <1>8, <1>9, <1>10, <1>11, <1>12 DEF Next

----------------------------------------------------------------------------
(* Who gets a copy *)

\* A copy to each of these, and the writes in which the handlers send them
CopiesFor(R, order) == {Write(x, order, x) : x \in R}
CopiesTo(receivers, order) ==
  [i \in DOMAIN receivers |-> Write(receivers[i], order, receivers[i])]

\* One copy to each of those, and nothing else: as many writes as receivers.
LEMMA OneCopyEach ==
  ASSUME NEW receivers \in Seq(Sessions), IsInjective(receivers), NEW order
  PROVE  /\ ToSet(CopiesTo(receivers, order)) = CopiesFor(ToSet(receivers), order)
         /\ Len(CopiesTo(receivers, order)) = Cardinality(CopiesFor(ToSet(receivers), order))
<1> DEFINE writes == CopiesTo(receivers, order)
           due == CopiesFor(ToSet(receivers), order)
<1>0. /\ writes = [i \in DOMAIN receivers |-> Write(receivers[i], order, receivers[i])]
      /\ due = {Write(x, order, x) : x \in ToSet(receivers)}
  BY DEF CopiesTo, CopiesFor
<1> HIDE DEF writes, due
<1>1. DOMAIN receivers = 1 .. Len(receivers) /\ Len(receivers) \in Nat
  OBVIOUS
<1>2. ToSet(writes) = due
  BY <1>0 DEF ToSet
<1>3. writes \in Seq(due)
  <2>1. \A i \in 1 .. Len(receivers) : Write(receivers[i], order, receivers[i]) \in due
    BY <1>0, <1>1 DEF ToSet
  <2> QED
    BY <1>0, <1>1, <2>1
<1>4. IsInjective(writes)
  <2>1. \A x, y : Write(x, order, x) = Write(y, order, y) => x = y
    BY DEF Write
  <2> QED
    BY <1>0, <2>1 DEF IsInjective
<1>5. Len(writes) = Cardinality(due)
  BY <1>2, <1>3, <1>4, InjectiveCounted
<1> QED
  BY <1>2, <1>5 DEF writes, due

\* The map and the vector of the sender's room hold those who share it.
LEMMA RoomOfSender ==
  ASSUME RoomsInv, NEW s \in DOMAIN roomOf
  PROVE  /\ Seated(rooms[roomOf[s]], roomOf[s], roomOf)
         /\ rooms[roomOf[s]].players = RoomMates(s)
<1>1. roomOf[s] \in DOMAIN rooms
  BY DEF RoomsInv, Range
<1>2. Seated(rooms[roomOf[s]], roomOf[s], roomOf)
  BY <1>1 DEF RoomsInv
<1> QED
  BY <1>2 DEF Seated, RoomMates

\* Nothing is written for a sender in no room, and nothing was due.
LEMMA NoRoomNoWrites ==
  /\ ToSet(<< >>) = {} /\ Len(<< >>) = Cardinality({})
  /\ \A s : s \notin DOMAIN roomOf => RoomMates(s) = {}
BY FS_EmptySet DEF ToSet, RoomMates

LEMMA ToAllExact ==
  ASSUME RoomsInv, ~astray, NEW s, NEW order, WritesToAll(s, order)
  PROVE  ~astray'
<1> DEFINE writes == BroadcastToRoom(s, order)
           due == CopiesFor(RoomMates(s), order)
<1> SUFFICES ToSet(writes) = due /\ Len(writes) = Cardinality(due)
  BY DEF WritesToAll, Writes, CopiesFor
<1>1. CASE s \notin DOMAIN roomOf
  <2>1. writes = << >> /\ due = {}
    BY <1>1, NoRoomNoWrites DEF BroadcastToRoom, CopiesFor
  <2> QED
    BY <2>1, NoRoomNoWrites
<1>2. CASE s \in DOMAIN roomOf
  <2> DEFINE room == rooms[roomOf[s]]
             receivers == SetToSeq(room.players)
  <2>1. room \in Room /\ room.players = RoomMates(s) /\ IsFiniteSet(room.players)
    <3>1. Seated(room, roomOf[s], roomOf) /\ room.players = RoomMates(s)
      BY <1>2, RoomOfSender
    <3>2. /\ room \in Room /\ room.vec \in Seq(Sessions) /\ IsInjective(room.vec)
          /\ ToSet(room.vec) = room.players
      BY <3>1 DEF Seated, Room
    <3> HIDE DEF room
    <3> QED
      BY <3>1, <3>2, InjectiveCounted
  <2>2. /\ receivers \in Seq(room.players) /\ IsInjective(receivers)
        /\ ToSet(receivers) = RoomMates(s)
    BY <2>1, SetEnumerated
  <2>3. receivers \in Seq(Sessions)
    <3>1. room.players \subseteq Sessions
      BY <2>1 DEF Room
    <3> HIDE DEF room, receivers
    <3> QED
      BY <2>2, <3>1
  <2>4. writes = CopiesTo(receivers, order)
    BY <1>2 DEF BroadcastToRoom, CopiesTo
  <2> HIDE DEF receivers, writes
  <2> QED
    BY <2>2, <2>3, <2>4, OneCopyEach
<1> QED
  BY <1>1, <1>2

LEMMA ToOthersExact ==
  ASSUME RoomsInv, ~astray, NEW s, NEW order, WritesToOthers(s, order)
  PROVE  ~astray'
<1> DEFINE writes == BroadcastToRoomExceptSelf(s, order)
           due == CopiesFor(RoomMates(s) \ {s}, order)
<1> SUFFICES ToSet(writes) = due /\ Len(writes) = Cardinality(due)
  BY DEF WritesToOthers, Writes, CopiesFor
<1>1. CASE s \notin DOMAIN roomOf
  <2>1. writes = << >> /\ due = {}
    BY <1>1, NoRoomNoWrites DEF BroadcastToRoomExceptSelf, CopiesFor
  <2> QED
    BY <2>1, NoRoomNoWrites
<1>2. CASE s \in DOMAIN roomOf
  <2> DEFINE vec == rooms[roomOf[s]].vec
             receivers == Without(vec, s)
  <2>1. vec \in Seq(Sessions) /\ IsInjective(vec) /\ ToSet(vec) = RoomMates(s)
    BY <1>2, RoomOfSender DEF Seated, Room
  <2>2. /\ receivers \in Seq(Sessions) /\ IsInjective(receivers)
        /\ ToSet(receivers) = RoomMates(s) \ {s}
    BY <2>1, WithoutOne
  <2>3. writes = CopiesTo(receivers, order)
    BY <1>2 DEF BroadcastToRoomExceptSelf, CopiesTo
  <2> HIDE DEF receivers, writes
  <2> QED
    BY <2>2, <2>3, OneCopyEach
<1> QED
  BY <1>1, <1>2

LEMMA ToOneExact ==
  ASSUME RoomsInv, ~astray, NEW receiver, NEW s, NEW order, WritesTo(receiver, s, order)
  PROVE  ~astray'
<1> DEFINE writes == ForwardTo(receiver, s, order)
           due == {Write(x, order, s) : x \in RoomMates(s) \cap {receiver}}
<1>1. CASE receiver \in RoomMates(s)
  <2>1. s \in DOMAIN roomOf
    BY <1>1, NoRoomNoWrites
  <2>2. receiver \in rooms[roomOf[s]].players
    BY <1>1, <2>1, RoomOfSender
  <2> DEFINE w == Write(receiver, order, s)
  <2>3. writes = <<w>> /\ due = {w}
    BY <1>1, <2>1, <2>2 DEF ForwardTo
  <2> HIDE DEF w, writes, due
  <2>4. ToSet(<<w>>) = {w} /\ Len(<<w>>) = 1 /\ Cardinality({w}) = 1
    <3>1. ToSet(<<w>>) = {w}
      BY DEF ToSet
    <3>2. Cardinality({w}) = 1
      BY FS_Singleton
    <3> QED
      BY <3>1, <3>2
  <2>5. ToSet(writes) = due /\ Len(writes) = Cardinality(due)
    BY <2>3, <2>4
  <2> QED
    BY <2>5 DEF WritesTo, Writes, writes, due
<1>2. CASE receiver \notin RoomMates(s)
  <2>1. writes = << >>
    BY <1>2, RoomOfSender DEF ForwardTo
  <2>2. due = {}
    BY <1>2
  <2> QED
    BY <2>1, <2>2, NoRoomNoWrites DEF WritesTo, Writes
<1> QED
  BY <1>1, <1>2

\* No step writes to others than it should.
LEMMA NobodyAstrayStep == RoomsInv /\ ~astray /\ [Next]_vars => ~astray'
<1> SUFFICES ASSUME RoomsInv, ~astray, [Next]_vars
             PROVE  ~astray'
  OBVIOUS
<1>1. CASE UNCHANGED vars \/ Tick
  BY <1>1 DEF vars, Tick
<1>2. ASSUME NEW s \in Sessions,
             \/ RoomCreation(s) \/ LeaveRoom(s) \/ Reconnect(s) \/ MatchEnd(s) \/ MatchLeave(s)
             \/ \E host \in Sessions : PlayerJoinRoom(s, host)
      PROVE  ~astray'
  BY <1>2 DEF RoomCreation, LeaveRoom, Reconnect, MatchEnd, MatchLeave, PlayerJoinRoom
<1>3. ASSUME NEW s \in Sessions, NEW host \in Sessions, Crash(s, host)
      PROVE  ~astray'
  BY <1>3, ToOneExact DEF Crash
<1>4. ASSUME NEW s \in Sessions, NEW order \in Orders, NEW receiver \in Sessions,
             Relay(s, order, receiver)
      PROVE  ~astray'
  BY <1>4, ToAllExact, ToOthersExact, ToOneExact DEF Relay
<1>5. ASSUME NEW s \in Sessions, NEW order \in Orders, NEW receiver \in Sessions,
             WeaponAttack(s, order, receiver)
      PROVE  ~astray'
  BY <1>5, ToAllExact, ToOneExact DEF WeaponAttack
<1>6. ASSUME NEW s \in Sessions, NEW receiver \in Sessions, MatchStart(s, receiver)
      PROVE  ~astray'
  BY <1>6, ToOneExact DEF MatchStart
<1>7. ASSUME NEW s \in Sessions, InitialLoading(s)
      PROVE  ~astray'
  BY <1>7, ToOthersExact DEF InitialLoading
<1>8. ASSUME NEW s \in Sessions, NEW position \in Positions, PlayerPosition(s, position)
      PROVE  ~astray'
  BY <1>8, ToOthersExact DEF PlayerPosition
<1> QED
  BY <1>1, <1>2, <1>3, <1>4, <1>5, <1>6, <1>7, <1>8 DEF Next

\* A packet reaches those and only those it is for, once each and with the right id in the
\* header, after any sequence of creations, joins, leaves and crashes of any number of sessions
\* (RelayedToRoomMates: broadcastToRoom, broadcastToRoomExceptSelf, playerForwardToHost and
\* hostForwardToPlayer look the receivers up in the map or the vector of the room).
THEOREM PacketsRelayedToRoomMates == Spec => []RelayedToRoomMates
<1>1. Init => RoomsInv /\ ~astray
  BY RoomsBegin
<1>2. RoomsInv /\ ~astray /\ [Next]_vars => RoomsInv' /\ ~astray'
  BY RoomsStep, NobodyAstrayStep
<1>3. RoomsInv /\ ~astray => RelayedToRoomMates
  BY DEF RelayedToRoomMates
<1> QED
  BY <1>1, <1>2, <1>3, PTL DEF Spec

----------------------------------------------------------------------------
(* Attacks *)

N == MAX_PACKETS + MAX_EXCEED

Attack == [at : Nat, relayed : BOOLEAN]

\* Which of the attacks of an id opened the window that its entry counts
Opening(l, sent) == Len(sent) - l.packetCount + 1

\* The relayed ones before it that are within a window's length of it
Trailing(l, sent) ==
  {i \in 1 .. Opening(l, sent) - 1 :
     sent[i].relayed /\ sent[i].at >= l.lastReset - RESET_INTERVAL}

\* The entry of an id counts its attacks since the window was opened: all of them within the
\* window, the first N of them relayed.  Of those before, it lets at most N - 1 trail.
WindowInv(l, sent, time) ==
  /\ l \in [packetCount : Nat, exceedCount : Nat, lastReset : Nat]
  /\ l.lastReset <= time
  /\ l.packetCount \in 1 .. Len(sent)
  /\ l.exceedCount = IF l.packetCount > MAX_PACKETS THEN l.packetCount - MAX_PACKETS ELSE 0
  /\ sent[Opening(l, sent)].at = l.lastReset
  /\ \A i \in Opening(l, sent) .. Len(sent) :
       /\ l.lastReset <= sent[i].at /\ sent[i].at <= time
       /\ sent[i].at - l.lastReset <= RESET_INTERVAL
       /\ sent[i].relayed <=> i - Opening(l, sent) < N
  /\ \A i \in 1 .. Opening(l, sent) - 1 : sent[i].at < l.lastReset
  /\ Cardinality(Trailing(l, sent)) <= N - 1

LimitsInv ==
  /\ now \in Nat
  /\ attacks \in [Attackers -> Seq(Attack)]
  /\ \A s \in Attackers : Len(attacks[s]) <= MaxAttacks
  /\ DOMAIN limits \subseteq Attackers /\ limits = [s \in DOMAIN limits |-> limits[s]]
  /\ \A s \in Attackers \ DOMAIN limits : attacks[s] = << >>
  /\ \A s \in DOMAIN limits : WindowInv(limits[s], attacks[s], now)

LEMMA LimitsConstants ==
  /\ MAX_PACKETS \in Nat /\ MAX_PACKETS # 0 /\ RESET_INTERVAL \in Nat /\ RESET_INTERVAL # 0
  /\ MAX_EXCEED \in Nat /\ MaxTime \in Nat /\ MaxAttacks \in Nat
  /\ N \in Nat /\ N # 0
BY ConstantsAssumption DEF N

LEMMA LimitsBegin == Init => LimitsInv
BY LimitsConstants DEF Init, LimitsInv

\* An attack that opens a window: the ones that trail it are the relayed ones of the previous
\* window but for the first, which is more than a window's length away.
LEMMA WindowOpened ==
  ASSUME NEW sent \in Seq(Attack), NEW time \in Nat,
         NEW old, WindowInv(old, sent, time), time - old.lastReset > RESET_INTERVAL,
         NEW relayed \in BOOLEAN, relayed
  PROVE  WindowInv([packetCount |-> 1, exceedCount |-> 0, lastReset |-> time],
                   Append(sent, [at |-> time, relayed |-> relayed]), time)
<1> DEFINE l == [packetCount |-> 1, exceedCount |-> 0, lastReset |-> time]
           e == [at |-> time, relayed |-> relayed]
           all == Append(sent, e)
           first == Opening(old, sent)
<1>1. /\ l \in [packetCount : Nat, exceedCount : Nat, lastReset : Nat]
      /\ l.packetCount = 1 /\ l.exceedCount = 0 /\ l.lastReset = time
      /\ e \in Attack /\ e.at = time /\ e.relayed
  BY LimitsConstants DEF Attack
<1> HIDE DEF l, e
<1>2. /\ Len(sent) \in Nat /\ Len(all) = Len(sent) + 1 /\ all[Len(sent) + 1] = e
      /\ \A i \in 1 .. Len(sent) : all[i] = sent[i] /\ sent[i] \in Attack
  BY <1>1, AppendProperties
<1> HIDE DEF all
<1>3. Opening(l, all) = Len(sent) + 1
  BY <1>1, <1>2 DEF Opening
<1>4. /\ old.lastReset \in Nat /\ old.packetCount \in 1 .. Len(sent)
      /\ first = Len(sent) - old.packetCount + 1 /\ first \in 1 .. Len(sent)
      /\ \A i \in first .. Len(sent) :
           /\ sent[i].at - old.lastReset <= RESET_INTERVAL
           /\ sent[i].relayed <=> i - first < N
      /\ sent[first].at = old.lastReset
      /\ \A i \in 1 .. first - 1 : sent[i].at < old.lastReset
  BY <1>2 DEF WindowInv, Opening
<1> HIDE DEF first
<1>5. \A i \in 1 .. Len(sent) : sent[i].at \in Nat /\ sent[i].at < time
  <2> TAKE i \in 1 .. Len(sent)
  <2>1. sent[i].at \in Nat
    BY <1>2 DEF Attack
  <2>2. i < first \/ i \in first .. Len(sent)
    BY <1>2, <1>4
  <2>3. CASE i < first
    <3>1. sent[i].at < old.lastReset
      BY <1>4, <2>3
    <3> QED
      BY <1>4, <2>1, <3>1, LimitsConstants
  <2>4. CASE i \in first .. Len(sent)
    <3>1. sent[i].at - old.lastReset <= RESET_INTERVAL
      BY <1>4, <2>4
    <3> QED
      BY <1>4, <2>1, <3>1, LimitsConstants
  <2> QED
    BY <2>1, <2>2, <2>3, <2>4
<1>6. Cardinality(Trailing(l, all)) <= N - 1
  <2>1. Trailing(l, all) \subseteq first + 1 .. first + N - 1
    <3> SUFFICES ASSUME NEW i \in Trailing(l, all)
                 PROVE  i \in first + 1 .. first + N - 1
      OBVIOUS
    <3>1. i \in 1 .. Len(sent) /\ sent[i].relayed /\ sent[i].at >= time - RESET_INTERVAL
      BY <1>1, <1>2, <1>3 DEF Trailing
    <3>2. sent[i].at \in Nat /\ sent[i].at > old.lastReset
      BY <1>4, <1>5, <3>1, LimitsConstants
    <3>3. i >= first
      BY SMTT(30), <1>4, <3>1, <3>2
    <3>4. i # first
      BY <1>4, <3>2
    <3>5. i - first < N
      BY <1>4, <3>1, <3>3
    <3>6. i \in Int /\ first \in Int /\ N \in Int
      BY <1>4, <3>1, LimitsConstants
    <3> QED
      BY <3>3, <3>4, <3>5, <3>6
  <2>2. IsFiniteSet(first + 1 .. first + N - 1) /\ Cardinality(first + 1 .. first + N - 1) = N - 1
    <3>1. first \in Int /\ N \in Nat /\ N # 0
      BY <1>4, LimitsConstants
    <3> QED
      BY <3>1, FS_Interval
  <2> QED
    BY ZenonT(30), <2>1, <2>2, FS_Subset
<1>7. WindowInv(l, all, time)
  <2>1. all[Opening(l, all)].at = l.lastReset
    BY <1>1, <1>2, <1>3
  <2>2. \A i \in Opening(l, all) .. Len(all) :
          /\ l.lastReset <= all[i].at /\ all[i].at <= time
          /\ all[i].at - l.lastReset <= RESET_INTERVAL
          /\ all[i].relayed <=> i - Opening(l, all) < N
    <3> TAKE i \in Opening(l, all) .. Len(all)
    <3>1. i = Len(sent) + 1 /\ i - Opening(l, all) = 0 /\ all[i] = e
      BY <1>2, <1>3
    <3>2. i - Opening(l, all) < N
      BY <3>1, LimitsConstants
    <3>3. /\ l.lastReset <= all[i].at /\ all[i].at <= time
          /\ all[i].at - l.lastReset <= RESET_INTERVAL
      BY <1>1, <3>1, LimitsConstants
    <3>4. all[i].relayed
      BY <1>1, <3>1, Zenon
    <3> QED
      BY <3>2, <3>3, <3>4
  <2>3. \A i \in 1 .. Opening(l, all) - 1 : all[i].at < l.lastReset
    <3> TAKE i \in 1 .. Opening(l, all) - 1
    <3>1. i \in 1 .. Len(sent)
      BY <1>2, <1>3
    <3> QED
      BY <1>1, <1>2, <1>5, <3>1
  <2> QED
    BY <1>1, <1>2, <1>6, <2>1, <2>2, <2>3, LimitsConstants DEF WindowInv
<1> QED
  BY <1>7 DEF l, e, all

\* The very first attack of an id
LEMMA WindowFirst ==
  ASSUME NEW time \in Nat, NEW relayed \in BOOLEAN, relayed
  PROVE  WindowInv([packetCount |-> 1, exceedCount |-> 0, lastReset |-> time],
                   Append(<< >>, [at |-> time, relayed |-> relayed]), time)
<1> DEFINE l == [packetCount |-> 1, exceedCount |-> 0, lastReset |-> time]
           e == [at |-> time, relayed |-> relayed]
           all == Append(<< >>, e)
<1>1. /\ l \in [packetCount : Nat, exceedCount : Nat, lastReset : Nat]
      /\ l.packetCount = 1 /\ l.exceedCount = 0 /\ l.lastReset = time
      /\ e.at = time /\ e.relayed
  OBVIOUS
<1> HIDE DEF l, e
<1>2. Len(all) = 1 /\ all[1] = e
  OBVIOUS
<1> HIDE DEF all
<1>3. Opening(l, all) = 1
  BY <1>1, <1>2 DEF Opening
<1>4. Trailing(l, all) = {}
  BY <1>3 DEF Trailing
<1>5. Cardinality(Trailing(l, all)) <= N - 1
  BY <1>4, FS_EmptySet, LimitsConstants
<1>6. 0 < N /\ 0 <= RESET_INTERVAL /\ ~ (1 > MAX_PACKETS)
  BY LimitsConstants
<1>7. \A i \in 1 .. 1 : i = 1 /\ i - 1 = 0
  OBVIOUS
<1>8. all[1].relayed
  BY <1>1, <1>2, Zenon
<1>9. \A i \in Opening(l, all) .. Len(all) :
        /\ l.lastReset <= all[i].at /\ all[i].at <= time
        /\ all[i].at - l.lastReset <= RESET_INTERVAL
        /\ all[i].relayed <=> i - Opening(l, all) < N
  BY <1>1, <1>2, <1>3, <1>6, <1>7, <1>8
<1>10. WindowInv(l, all, time)
  BY <1>1, <1>2, <1>3, <1>5, <1>6, <1>9 DEF WindowInv
<1> QED
  BY <1>10 DEF l, e, all

\* One more attack within the window
LEMMA WindowContinued ==
  ASSUME NEW sent \in Seq(Attack), NEW time \in Nat,
         NEW old, WindowInv(old, sent, time), time - old.lastReset <= RESET_INTERVAL,
         NEW l, l = [packetCount |-> old.packetCount + 1,
                     exceedCount |-> IF old.packetCount + 1 > MAX_PACKETS
                                     THEN old.exceedCount + 1 ELSE old.exceedCount,
                     lastReset |-> old.lastReset],
         NEW relayed \in BOOLEAN, relayed <=> l.exceedCount <= MAX_EXCEED
  PROVE  WindowInv(l, Append(sent, [at |-> time, relayed |-> relayed]), time)
<1> DEFINE e == [at |-> time, relayed |-> relayed]
           all == Append(sent, e)
           first == Opening(old, sent)
<1>1. /\ old \in [packetCount : Nat, exceedCount : Nat, lastReset : Nat]
      /\ old.packetCount \in Nat /\ old.exceedCount \in Nat /\ old.lastReset \in Nat
      /\ old.lastReset <= time /\ old.packetCount \in 1 .. Len(sent)
      /\ old.exceedCount = IF old.packetCount > MAX_PACKETS
                           THEN old.packetCount - MAX_PACKETS ELSE 0
  BY DEF WindowInv
<1>2. /\ l \in [packetCount : Nat, exceedCount : Nat, lastReset : Nat]
      /\ l.packetCount = old.packetCount + 1 /\ l.lastReset = old.lastReset
      /\ l.exceedCount = IF l.packetCount > MAX_PACKETS
                         THEN l.packetCount - MAX_PACKETS ELSE 0
      /\ e \in Attack /\ e.at = time /\ e.relayed = relayed
  <2>1. /\ l.packetCount = old.packetCount + 1 /\ l.lastReset = old.lastReset
        /\ l.exceedCount = IF old.packetCount + 1 > MAX_PACKETS
                           THEN old.exceedCount + 1 ELSE old.exceedCount
    OBVIOUS
  <2>2. old.packetCount + 1 \in Nat /\ l.exceedCount \in Nat
    BY <1>1, <2>1
  <2>3. l \in [packetCount : Nat, exceedCount : Nat, lastReset : Nat]
    BY <1>1, <2>1, <2>2
  <2>4. l.exceedCount = IF l.packetCount > MAX_PACKETS
                        THEN l.packetCount - MAX_PACKETS ELSE 0
    BY <1>1, <2>1, LimitsConstants
  <2>5. e \in Attack /\ e.at = time /\ e.relayed = relayed
    BY DEF Attack
  <2> QED
    BY <2>1, <2>3, <2>4, <2>5
<1>3. l.exceedCount <= MAX_EXCEED <=> old.packetCount < N
  BY <1>1, <1>2, LimitsConstants DEF N
<1> HIDE DEF e
<1>4. /\ Len(sent) \in Nat /\ Len(all) = Len(sent) + 1 /\ all[Len(sent) + 1] = e
      /\ \A i \in 1 .. Len(sent) : all[i] = sent[i] /\ sent[i] \in Attack
  BY <1>2, AppendProperties
<1> HIDE DEF all
<1>5. Opening(l, all) = first /\ first \in 1 .. Len(sent) /\ first = Len(sent) - old.packetCount + 1
  BY <1>1, <1>2, <1>4 DEF Opening
<1>6. /\ sent[first].at = old.lastReset
      /\ \A i \in first .. Len(sent) :
           /\ old.lastReset <= sent[i].at /\ sent[i].at <= time
           /\ sent[i].at - old.lastReset <= RESET_INTERVAL
           /\ sent[i].relayed <=> i - first < N
      /\ \A i \in 1 .. first - 1 : sent[i].at < old.lastReset
      /\ Cardinality(Trailing(old, sent)) <= N - 1
  BY DEF WindowInv
<1>7. Trailing(l, all) = Trailing(old, sent)
  <2>1. \A i \in 1 .. first - 1 : all[i] = sent[i]
    BY <1>4, <1>5
  <2> QED
    BY <1>2, <1>5, <2>1 DEF Trailing
<1> HIDE DEF first
<1>8. all[first].at = l.lastReset
  BY <1>2, <1>4, <1>5, <1>6
<1>9. \A i \in first .. Len(all) :
        /\ l.lastReset <= all[i].at /\ all[i].at <= time
        /\ all[i].at - l.lastReset <= RESET_INTERVAL
        /\ all[i].relayed <=> i - first < N
  <2> TAKE i \in first .. Len(all)
  <2>1. CASE i \in first .. Len(sent)
    <3>1. all[i] = sent[i]
      BY <1>4, <1>5, <2>1
    <3>2. /\ old.lastReset <= sent[i].at /\ sent[i].at <= time
          /\ sent[i].at - old.lastReset <= RESET_INTERVAL
          /\ sent[i].relayed <=> i - first < N
      BY <1>6, <2>1
    <3> QED
      BY <1>2, <3>1, <3>2
  <2>2. CASE i = Len(sent) + 1
    <3>1. i - first = old.packetCount
      BY <1>1, <1>4, <1>5, <2>2
    <3>2. all[i] = e
      BY <1>4, <2>2
    <3>3. /\ l.lastReset <= all[i].at /\ all[i].at <= time
          /\ all[i].at - l.lastReset <= RESET_INTERVAL
      BY <1>1, <1>2, <3>2
    <3>4. all[i].relayed <=> relayed
      BY <1>2, <3>2, Zenon
    <3>5. relayed <=> i - first < N
      BY <1>3, <3>1
    <3> QED
      BY <3>3, <3>4, <3>5
  <2> QED
    BY <1>4, <1>5, <2>1, <2>2
<1>10. \A i \in 1 .. first - 1 : all[i].at < l.lastReset
  <2> TAKE i \in 1 .. first - 1
  <2>1. all[i] = sent[i]
    BY <1>4, <1>5
  <2> QED
    BY <1>2, <1>6, <2>1
<1>11. l.packetCount \in 1 .. Len(all)
  BY <1>1, <1>2, <1>4
<1>12. WindowInv(l, all, time)
  BY <1>1, <1>2, <1>5, <1>6, <1>7, <1>8, <1>9, <1>10, <1>11 DEF WindowInv
<1> QED
  BY <1>12 DEF e, all

\* The window stays one as time goes by.
LEMMA WindowLater ==
  ASSUME NEW sent, NEW l, NEW time \in Nat, WindowInv(l, sent, time), sent \in Seq(Attack)
  PROVE  WindowInv(l, sent, time + 1)
<1>1. l.lastReset \in Nat /\ l.lastReset <= time + 1
  BY DEF WindowInv
<1>2. \A i \in Opening(l, sent) .. Len(sent) : sent[i].at <= time + 1
  <2> TAKE i \in Opening(l, sent) .. Len(sent)
  <2>1. i \in 1 .. Len(sent)
    BY DEF WindowInv, Opening
  <2>2. sent[i].at \in Nat
    <3>1. sent[i] \in Attack
      BY <2>1
    <3> QED
      BY <3>1 DEF Attack
  <2>3. sent[i].at <= time
    BY DEF WindowInv
  <2> QED
    BY <2>2, <2>3
<1>3. \A i \in Opening(l, sent) .. Len(sent) :
        /\ l.lastReset <= sent[i].at
        /\ sent[i].at - l.lastReset <= RESET_INTERVAL
        /\ sent[i].relayed <=> i - Opening(l, sent) < N
  BY DEF WindowInv
<1>4. \A i \in Opening(l, sent) .. Len(sent) :
        /\ l.lastReset <= sent[i].at /\ sent[i].at <= time + 1
        /\ sent[i].at - l.lastReset <= RESET_INTERVAL
        /\ sent[i].relayed <=> i - Opening(l, sent) < N
  BY <1>2, <1>3
<1>5. /\ l \in [packetCount : Nat, exceedCount : Nat, lastReset : Nat]
      /\ l.packetCount \in 1 .. Len(sent)
      /\ l.exceedCount = IF l.packetCount > MAX_PACKETS THEN l.packetCount - MAX_PACKETS ELSE 0
      /\ sent[Opening(l, sent)].at = l.lastReset
      /\ \A i \in 1 .. Opening(l, sent) - 1 : sent[i].at < l.lastReset
      /\ Cardinality(Trailing(l, sent)) <= N - 1
  BY DEF WindowInv
<1> QED
  BY <1>1, <1>4, <1>5 DEF WindowInv

\* The attacks of an id in an interval of time, and those that got through
SentOf(sent, from, to) == {i \in DOMAIN sent : sent[i].at \in from .. to}
ThroughOf(sent, from, to) == {i \in SentOf(sent, from, to) : sent[i].relayed}

LEMMA AttacksOfOne ==
  \A s, from, to : /\ Sent(s, from, to) = SentOf(attacks[s], from, to)
                   /\ Through(s, from, to) = ThroughOf(attacks[s], from, to)
BY DEF Sent, Through, SentOf, ThroughOf

LEMMA SentFinite ==
  ASSUME NEW sent \in Seq(Attack), NEW from, NEW to
  PROVE  IsFiniteSet(SentOf(sent, from, to)) /\ IsFiniteSet(ThroughOf(sent, from, to))
<1>1. IsFiniteSet(DOMAIN sent)
  <2>1. DOMAIN sent = 1 .. Len(sent) /\ Len(sent) \in Nat
    OBVIOUS
  <2> QED
    BY <2>1, FS_Interval
<1>2. SentOf(sent, from, to) \subseteq DOMAIN sent /\ ThroughOf(sent, from, to) \subseteq DOMAIN sent
  BY DEF SentOf, ThroughOf
<1> QED
  BY <1>1, <1>2, FS_Subset

\* In the interval that ends now, what got through is in the present window, or trails it.
LEMMA WindowBound ==
  ASSUME NEW sent \in Seq(Attack), NEW time \in Nat, NEW l, WindowInv(l, sent, time)
  PROVE  Cardinality(ThroughOf(sent, time - RESET_INTERVAL, time)) <= 2 * N - 1
<1> DEFINE first == Opening(l, sent)
           through == ThroughOf(sent, time - RESET_INTERVAL, time)
           window == first .. first + N - 1
           trailing == Trailing(l, sent)
<1>1. /\ first \in 1 .. Len(sent) /\ first \in Nat /\ Len(sent) \in Nat
      /\ l.lastReset \in Nat /\ l.lastReset <= time
      /\ \A i \in first .. Len(sent) : sent[i].relayed <=> i - first < N
      /\ Cardinality(trailing) <= N - 1
  BY DEF WindowInv, Opening
<1>2. through \subseteq trailing \cup window
  <2> SUFFICES ASSUME NEW i \in through
               PROVE  i \in trailing \/ i \in window
    OBVIOUS
  <2>1. i \in 1 .. Len(sent) /\ sent[i].at \in time - RESET_INTERVAL .. time /\ sent[i].relayed
    BY DEF ThroughOf, SentOf
  <2>2. CASE i >= first
    <3>1. i - first < N
      BY <1>1, <2>1, <2>2
    <3>2. i \in Int /\ first \in Int /\ N \in Int
      BY <1>1, <2>1, LimitsConstants
    <3> QED
      BY <2>2, <3>1, <3>2
  <2>3. CASE i < first
    <3>1. i \in 1 .. first - 1
      BY <1>1, <2>1, <2>3
    <3>2. sent[i].at >= l.lastReset - RESET_INTERVAL
      BY <1>1, <2>1, LimitsConstants
    <3> QED
      BY <2>1, <3>1, <3>2 DEF Trailing
  <2> QED
    BY <1>1, <2>1, <2>2, <2>3
<1>3. IsFiniteSet(window) /\ Cardinality(window) = N
  <2>1. first \in Int /\ N \in Nat /\ N # 0
    BY <1>1, LimitsConstants
  <2> HIDE DEF first
  <2> QED
    BY <2>1, FS_Interval
<1>4. IsFiniteSet(trailing)
  <2>1. trailing \subseteq 1 .. Len(sent)
    BY <1>1 DEF Trailing
  <2>2. IsFiniteSet(1 .. Len(sent))
    BY <1>1, FS_Interval
  <2> QED
    BY <2>1, <2>2, FS_Subset
<1> HIDE DEF first, through, window, trailing
<1>5. IsFiniteSet(trailing \cup window)
      /\ Cardinality(trailing \cup window)
           = Cardinality(trailing) + Cardinality(window) - Cardinality(trailing \cap window)
  BY <1>3, <1>4, FS_Union
<1>6. Cardinality(trailing) \in Nat /\ Cardinality(trailing \cap window) \in Nat
  BY <1>3, <1>4, FS_Intersection, FS_CardinalityType
<1>7. Cardinality(through) <= Cardinality(trailing \cup window)
      /\ Cardinality(through) \in Nat /\ Cardinality(trailing \cup window) \in Nat
  BY <1>2, <1>5, FS_Subset, FS_CardinalityType
<1> QED
  BY <1>1, <1>3, <1>5, <1>6, <1>7, LimitsConstants DEF through

\* An attack that is dropped as it comes was one of more than N in its window.
LEMMA DroppedBound ==
  ASSUME NEW sent \in Seq(Attack), NEW time \in Nat, NEW l, WindowInv(l, sent, time),
         sent[Len(sent)].at = time, ~ sent[Len(sent)].relayed
  PROVE  Cardinality(SentOf(sent, time - RESET_INTERVAL, time)) > N
<1> DEFINE first == Opening(l, sent)
           window == first .. Len(sent)
           within == SentOf(sent, time - RESET_INTERVAL, time)
<1>1. /\ Len(sent) \in Nat /\ DOMAIN sent = 1 .. Len(sent)
      /\ l.lastReset \in Nat /\ l.packetCount \in 1 .. Len(sent)
      /\ first = Len(sent) - l.packetCount + 1 /\ first \in 1 .. Len(sent)
  BY DEF WindowInv, Opening
<1>2. \A i \in window : /\ l.lastReset <= sent[i].at /\ sent[i].at <= time
                        /\ sent[i].at - l.lastReset <= RESET_INTERVAL
                        /\ sent[i].relayed <=> i - first < N
  BY DEF WindowInv
<1> HIDE DEF first
<1>3. ~ (Len(sent) - first < N) /\ time - l.lastReset <= RESET_INTERVAL
  <2>1. Len(sent) \in window
    BY <1>1
  <2> QED
    BY <1>2, <2>1
<1>4. window \subseteq within
  <2> SUFFICES ASSUME NEW i \in window
               PROVE  i \in within
    OBVIOUS
  <2>1. i \in DOMAIN sent
    BY <1>1
  <2>2. sent[i].at \in Nat
    <3>1. sent[i] \in Attack
      BY <2>1
    <3> QED
      BY <3>1 DEF Attack
  <2>3. l.lastReset <= sent[i].at /\ sent[i].at <= time
    BY <1>2
  <2>4. RESET_INTERVAL \in Nat /\ l.lastReset \in Nat /\ time - l.lastReset <= RESET_INTERVAL
    BY <1>1, <1>3, LimitsConstants
  <2>5. sent[i].at \in time - RESET_INTERVAL .. time
    BY <2>2, <2>3, <2>4
  <2> QED
    BY <2>1, <2>5 DEF SentOf
<1>5. IsFiniteSet(window) /\ Cardinality(window) = Len(sent) - first + 1
  <2>1. first \in Int /\ Len(sent) \in Int /\ ~ (first > Len(sent))
    BY <1>1
  <2> QED
    BY <2>1, FS_Interval
<1>6. IsFiniteSet(within)
  BY SentFinite
<1> HIDE DEF within, window
<1>7. /\ Cardinality(window) <= Cardinality(within)
      /\ Cardinality(window) \in Nat /\ Cardinality(within) \in Nat
  BY <1>4, <1>5, <1>6, FS_Subset, FS_CardinalityType
<1> QED
  BY <1>1, <1>3, <1>5, <1>7, LimitsConstants DEF within

\* The attacks of one id are limited, as long as the clock shows this or less.
Limited(sent, time) ==
  /\ \A t \in 0 .. time : Cardinality(ThroughOf(sent, t - RESET_INTERVAL, t)) <= 2 * N - 1
  /\ \A i \in DOMAIN sent : ~ sent[i].relayed =>
       Cardinality(SentOf(sent, sent[i].at - RESET_INTERVAL, sent[i].at)) > N

LEMMA NothingLimited ==
  ASSUME NEW time \in Nat
  PROVE  Limited(<< >>, time)
<1>1. \A from, to : ThroughOf(<< >>, from, to) = {}
  BY DEF ThroughOf, SentOf
<1>2. Cardinality({}) <= 2 * N - 1
  BY FS_EmptySet, LimitsConstants
<1>3. DOMAIN << >> = {}
  OBVIOUS
<1> QED
  BY <1>1, <1>2, <1>3, Zenon DEF Limited

\* One more attack, as its entry counts it
LEMMA LimitedAfterAttack ==
  ASSUME NEW sent \in Seq(Attack), NEW time \in Nat, Limited(sent, time),
         NEW e \in Attack, e.at = time, NEW l, WindowInv(l, Append(sent, e), time)
  PROVE  Limited(Append(sent, e), time)
<1> DEFINE all == Append(sent, e)
<1>1. /\ Len(sent) \in Nat /\ Len(all) = Len(sent) + 1 /\ all[Len(sent) + 1] = e
      /\ all \in Seq(Attack) /\ DOMAIN all = 1 .. Len(sent) + 1 /\ DOMAIN sent = 1 .. Len(sent)
      /\ \A i \in 1 .. Len(sent) : all[i] = sent[i] /\ sent[i] \in Attack
  BY AppendProperties
<1> HIDE DEF all
<1>2. ASSUME NEW t \in 0 .. time
      PROVE  Cardinality(ThroughOf(all, t - RESET_INTERVAL, t)) <= 2 * N - 1
  <2>1. CASE t = time
    BY <1>1, <2>1, WindowBound DEF all
  <2>2. CASE t # time
    <3>1. ThroughOf(all, t - RESET_INTERVAL, t) = ThroughOf(sent, t - RESET_INTERVAL, t)
      <4>1. e.at \notin t - RESET_INTERVAL .. t
        BY <2>2
      <4> QED
        BY <1>1, <4>1 DEF ThroughOf, SentOf
    <3> QED
      BY <3>1 DEF Limited
  <2> QED
    BY <2>1, <2>2
<1>3. ASSUME NEW i \in DOMAIN all, ~ all[i].relayed
      PROVE  Cardinality(SentOf(all, all[i].at - RESET_INTERVAL, all[i].at)) > N
  <2>1. CASE i = Len(sent) + 1
    <3>1. all[Len(all)].at = time /\ ~ all[Len(all)].relayed /\ all[i].at = time
      BY <1>1, <1>3, <2>1
    <3> QED
      BY <1>1, <3>1, DroppedBound DEF all
  <2>2. CASE i \in 1 .. Len(sent)
    <3> DEFINE at == sent[i].at
               before == SentOf(sent, at - RESET_INTERVAL, at)
               after == SentOf(all, at - RESET_INTERVAL, at)
    <3>1. all[i] = sent[i] /\ Cardinality(before) > N
      BY <1>1, <1>3, <2>2 DEF Limited
    <3>2. before \subseteq after
      BY <1>1 DEF SentOf
    <3>3. IsFiniteSet(after)
      BY <1>1, SentFinite
    <3> HIDE DEF before, after
    <3>4. /\ Cardinality(before) <= Cardinality(after)
          /\ Cardinality(before) \in Nat /\ Cardinality(after) \in Nat
      BY <3>2, <3>3, FS_Subset, FS_CardinalityType
    <3>5. Cardinality(after) > N
      BY <3>1, <3>4, LimitsConstants
    <3> QED
      BY <3>1, <3>5 DEF after
  <2> QED
    BY <1>1, <2>1, <2>2
<1> QED
  BY <1>2, <1>3 DEF Limited, all

\* The clock goes on.
LEMMA LimitedLater ==
  ASSUME NEW sent \in Seq(Attack), NEW time \in Nat, Limited(sent, time),
         NEW l, WindowInv(l, sent, time)
  PROVE  Limited(sent, time + 1)
<1>1. WindowInv(l, sent, time + 1) /\ time + 1 \in Nat
  BY WindowLater
<1>2. \A t \in 0 .. time + 1 : t = time + 1 \/ t \in 0 .. time
  OBVIOUS
<1>3. Cardinality(ThroughOf(sent, (time + 1) - RESET_INTERVAL, time + 1)) <= 2 * N - 1
  BY <1>1, WindowBound
<1> QED
  BY <1>2, <1>3 DEF Limited

LimitsKept ==
  LimitsInv /\ \A s \in Attackers : Limited(attacks[s], now)

LEMMA LimitsKeptBegin == Init => LimitsKept
<1> SUFFICES ASSUME Init
             PROVE  LimitsKept
  OBVIOUS
<1>1. LimitsInv
  BY LimitsBegin
<1>2. \A s \in Attackers : attacks[s] = << >>
  BY DEF Init
<1> QED
  BY <1>1, <1>2, NothingLimited DEF LimitsKept, LimitsInv

LEMMA AttackRecorded ==
  ASSUME NEW time \in Nat, NEW relayed \in BOOLEAN
  PROVE  /\ [at |-> time, relayed |-> relayed] \in Attack
         /\ [at |-> time, relayed |-> relayed].at = time
BY DEF Attack

\* An attack is recorded as the entry of its id counts it: both windows and bounds stay.
LEMMA AttackCounted ==
  ASSUME LimitsKept, NEW s \in Attackers, NEW order, NEW receiver, WeaponAttack(s, order, receiver)
  PROVE  /\ attacks'[s] \in Seq(Attack) /\ Len(attacks'[s]) <= MaxAttacks
         /\ WindowInv(limits'[s], attacks'[s], now) /\ Limited(attacks'[s], now)
<1> DEFINE sent == attacks[s]
           l == Counted(s)
           relayed == l.exceedCount <= MAX_EXCEED
           e == [at |-> now, relayed |-> relayed]
<1>1. sent \in Seq(Attack) /\ now \in Nat /\ Limited(sent, now)
  BY DEF LimitsKept, LimitsInv
<1>2. limits'[s] = l /\ attacks'[s] = Append(sent, e) /\ Len(sent) < MaxAttacks
  <2>1. limits'[s] = l
    BY DEF WeaponAttack
  <2>2. attacks'[s] = Append(sent, e)
    BY <2>1 DEF WeaponAttack, LimitsKept, LimitsInv
  <2> QED
    BY <2>1, <2>2 DEF WeaponAttack
<1>3. relayed \in BOOLEAN /\ e \in Attack /\ e.at = now
  <2>1. relayed \in BOOLEAN
    OBVIOUS
  <2>2. now \in Nat
    BY <1>1
  <2> HIDE DEF relayed, l, sent
  <2>3. e \in Attack /\ e.at = now
    BY <2>1, <2>2, AttackRecorded, Zenon
  <2> QED
    BY <2>1, <2>3, Zenon
<1>4. WindowInv(l, Append(sent, e), now)
  <2>1. CASE s \notin DOMAIN limits \/ now - limits[s].lastReset > RESET_INTERVAL
    <3>1. l = [packetCount |-> 1, exceedCount |-> 0, lastReset |-> now]
      <4> DEFINE data == Fresh
      <4>1. l = [data EXCEPT !.packetCount = data.packetCount + 1,
                             !.exceedCount = IF data.packetCount + 1 > MAX_PACKETS
                                             THEN @ + 1 ELSE @]
        BY <2>1 DEF Counted
      <4>2. data = [packetCount |-> 0, exceedCount |-> 0, lastReset |-> now]
        BY DEF Fresh
      <4>3. ~ (1 > MAX_PACKETS) /\ 0 + 1 = 1
        BY LimitsConstants
      <4>4. data.packetCount = 0
        BY <4>2
      <4>5. data.packetCount + 1 = 1 /\ ~ (data.packetCount + 1 > MAX_PACKETS)
        BY <4>3, <4>4
      <4> HIDE DEF data, l
      <4>6. l = [data EXCEPT !.packetCount = 1, !.exceedCount = data.exceedCount]
        BY <4>1, <4>5, Zenon
      <4> QED
        BY <4>2, <4>6
    <3>2. relayed
      BY <3>1, LimitsConstants
    <3> HIDE DEF l, relayed
    <3>3. CASE s \notin DOMAIN limits
      <4>1. sent = << >>
        BY <3>3 DEF LimitsKept, LimitsInv
      <4> HIDE DEF sent
      <4> QED
        BY <1>1, <1>3, <3>1, <3>2, <4>1, WindowFirst
    <3>4. CASE s \in DOMAIN limits
      <4>1. WindowInv(limits[s], sent, now) /\ now - limits[s].lastReset > RESET_INTERVAL
        BY <2>1, <3>4 DEF LimitsKept, LimitsInv
      <4> HIDE DEF sent
      <4> QED
        BY <1>1, <1>3, <3>1, <3>2, <4>1, WindowOpened
    <3> QED
      BY <3>3, <3>4
  <2>2. CASE s \in DOMAIN limits /\ ~ (now - limits[s].lastReset > RESET_INTERVAL)
    <3> DEFINE old == limits[s]
    <3>1. WindowInv(old, sent, now)
      BY <2>2 DEF LimitsKept, LimitsInv
    <3>2. now - old.lastReset <= RESET_INTERVAL
      BY <1>1, <2>2, <3>1, LimitsConstants DEF WindowInv
    <3>3. old \in [packetCount : Nat, exceedCount : Nat, lastReset : Nat]
      BY <3>1 DEF WindowInv
    <3>4. l = [old EXCEPT !.packetCount = old.packetCount + 1,
                          !.exceedCount = IF old.packetCount + 1 > MAX_PACKETS
                                          THEN @ + 1 ELSE @]
      BY <2>2 DEF Counted
    <3> HIDE DEF old, l
    <3>5. l = [packetCount |-> old.packetCount + 1,
               exceedCount |-> IF old.packetCount + 1 > MAX_PACKETS
                               THEN old.exceedCount + 1 ELSE old.exceedCount,
               lastReset |-> old.lastReset]
      BY <3>3, <3>4
    <3>6. relayed <=> l.exceedCount <= MAX_EXCEED
      OBVIOUS
    <3> HIDE DEF sent, relayed
    <3> QED
      BY <1>1, <1>3, <3>1, <3>2, <3>5, <3>6, WindowContinued
  <2> QED
    BY <2>1, <2>2
<1> HIDE DEF e, l, sent
<1>5. Limited(Append(sent, e), now)
  BY <1>1, <1>3, <1>4, LimitedAfterAttack
<1>6. Append(sent, e) \in Seq(Attack) /\ Len(Append(sent, e)) <= MaxAttacks
  BY <1>1, <1>2, <1>3, AppendProperties, LimitsConstants
<1> QED
  BY <1>2, <1>4, <1>5, <1>6

LEMMA LimitsStep == LimitsKept /\ [Next]_vars => LimitsKept'
<1> SUFFICES ASSUME LimitsKept, [Next]_vars
             PROVE  LimitsKept'
  OBVIOUS
<1>1. CASE UNCHANGED <<attackVars, now>>
  BY <1>1 DEF LimitsKept, LimitsInv, attackVars
<1>2. CASE Tick
  <2>1. now' = now + 1 /\ limits' = limits /\ attacks' = attacks /\ now \in Nat /\ now' \in Nat
    BY <1>2 DEF Tick, attackVars, LimitsKept, LimitsInv
  <2>2. ASSUME NEW s \in DOMAIN limits
        PROVE  WindowInv(limits'[s], attacks'[s], now') /\ Limited(attacks'[s], now')
    <3>1. /\ s \in Attackers /\ attacks[s] \in Seq(Attack) /\ WindowInv(limits[s], attacks[s], now)
          /\ Limited(attacks[s], now)
      BY DEF LimitsKept, LimitsInv
    <3>2. WindowInv(limits[s], attacks[s], now + 1) /\ Limited(attacks[s], now + 1)
      BY <2>1, <3>1, WindowLater, LimitedLater
    <3> QED
      BY <2>1, <3>2
  <2>3. ASSUME NEW s \in Attackers \ DOMAIN limits
        PROVE  Limited(attacks'[s], now')
    BY <2>1, NothingLimited DEF LimitsKept, LimitsInv
  <2> QED
    BY <2>1, <2>2, <2>3 DEF LimitsKept, LimitsInv
<1>3. ASSUME NEW s \in Sessions, NEW order \in Orders, NEW receiver \in Sessions,
             WeaponAttack(s, order, receiver)
      PROVE  LimitsKept'
  <2>1. /\ s \in Attackers /\ now' = now /\ now \in Nat
        /\ DOMAIN limits' = DOMAIN limits \cup {s}
        /\ limits' = [x \in DOMAIN limits' |-> limits'[x]]
        /\ \A x \in DOMAIN limits \ {s} : limits'[x] = limits[x]
    BY <1>3 DEF WeaponAttack, LimitsKept, LimitsInv
  <2>2. /\ attacks' \in [Attackers -> Seq(Attack)]
        /\ \A x \in Attackers \ {s} : attacks'[x] = attacks[x]
    <3>1. attacks'[s] \in Seq(Attack)
      BY <1>3, <2>1, AttackCounted
    <3>2. attacks' = [attacks EXCEPT ![s] = attacks'[s]]
      BY <1>3, <2>1 DEF WeaponAttack, LimitsKept, LimitsInv
    <3> QED
      BY <3>1, <3>2 DEF LimitsKept, LimitsInv
  <2>3. /\ Len(attacks'[s]) <= MaxAttacks
        /\ WindowInv(limits'[s], attacks'[s], now') /\ Limited(attacks'[s], now')
    BY <1>3, <2>1, AttackCounted
  <2>4. DOMAIN limits' \subseteq Attackers
    BY <2>1 DEF LimitsKept, LimitsInv
  <2>5. \A x \in Attackers : Len(attacks'[x]) <= MaxAttacks /\ Limited(attacks'[x], now')
    BY <2>1, <2>2, <2>3 DEF LimitsKept, LimitsInv
  <2>6. \A x \in Attackers \ DOMAIN limits' : attacks'[x] = << >>
    BY <2>1, <2>2 DEF LimitsKept, LimitsInv
  <2>7. \A x \in DOMAIN limits' : WindowInv(limits'[x], attacks'[x], now')
    BY <2>1, <2>2, <2>3 DEF LimitsKept, LimitsInv
  <2> QED
    BY <2>1, <2>2, <2>4, <2>5, <2>6, <2>7 DEF LimitsKept, LimitsInv
<1> QED
  BY <1>1, <1>2, <1>3 DEF Next, vars, RoomCreation, LeaveRoom, Reconnect, MatchEnd, MatchLeave,
     PlayerJoinRoom, Crash, Relay, MatchStart, InitialLoading, PlayerPosition

\* Whatever the limits are and however many ids attack: in any interval as long as a window at
\* most two windows' worth less one of an id's attacks gets through, and an attack is dropped
\* only at the end of an interval with more than one window's worth (AttacksLimited:
\* isRateLimited, handleHostWeaponAttack, nonHostWeaponAttack).
THEOREM WindowsLimitAttacks == Spec => []AttacksLimited
<1>1. Init => LimitsKept
  BY LimitsKeptBegin
<1>2. LimitsKept => AttacksLimited
  <2> SUFFICES ASSUME LimitsKept, NEW s \in Attackers
               PROVE  /\ \A t \in 0 .. now :
                           Cardinality(Through(s, t - RESET_INTERVAL, t))
                             <= 2 * (MAX_PACKETS + MAX_EXCEED) - 1
                      /\ \A i \in DOMAIN attacks[s] : ~attacks[s][i].relayed =>
                           Cardinality(Sent(s, attacks[s][i].at - RESET_INTERVAL, attacks[s][i].at))
                             > MAX_PACKETS + MAX_EXCEED
    BY DEF AttacksLimited
  <2>1. Limited(attacks[s], now)
    BY DEF LimitsKept
  <2> QED
    BY <2>1, AttacksOfOne DEF Limited, N
<1> QED
  BY <1>1, <1>2, LimitsStep, PTL DEF Spec

\* The table, the rooms and the limits keep their shape: a room is there exactly as long as
\* somebody is entered, and no counter exceeds the attacks that were sent (TypeOK).
THEOREM CastRelayTypes == Spec => []TypeOK
<1> DEFINE IInv == RoomsInv /\ LimitsKept /\ astray \in BOOLEAN
<1>1. Init => IInv
  BY RoomsBegin, LimitsKeptBegin DEF Init
<1>2. IInv /\ [Next]_vars => IInv'
  <2> SUFFICES ASSUME astray \in BOOLEAN, [Next]_vars
               PROVE  astray' \in BOOLEAN
    BY RoomsStep, LimitsStep
  <2>1. \A writes, due : Writes(writes, due) => astray' \in BOOLEAN
    BY DEF Writes
  <2>2. \A x, y : WritesToAll(x, y) => astray' \in BOOLEAN
    BY <2>1, Zenon DEF WritesToAll
  <2>3. \A x, y : WritesToOthers(x, y) => astray' \in BOOLEAN
    BY <2>1, Zenon DEF WritesToOthers
  <2>4. \A x, y, z : WritesTo(x, y, z) => astray' \in BOOLEAN
    BY <2>1, Zenon DEF WritesTo
  <2>5. UNCHANGED astray => astray' \in BOOLEAN
    OBVIOUS
  <2>6. CASE Tick \/ UNCHANGED vars
    BY <2>5, <2>6 DEF Tick, vars
  <2>7. ASSUME NEW s \in Sessions,
               \/ RoomCreation(s) \/ LeaveRoom(s) \/ Reconnect(s) \/ MatchEnd(s) \/ MatchLeave(s)
               \/ \E host \in Sessions : PlayerJoinRoom(s, host)
        PROVE  astray' \in BOOLEAN
    BY <2>5, <2>7 DEF RoomCreation, LeaveRoom, Reconnect, MatchEnd, MatchLeave, PlayerJoinRoom
  <2>8. ASSUME NEW s \in Sessions, NEW host \in Sessions,
               \/ Crash(s, host) \/ MatchStart(s, host) \/ InitialLoading(s)
        PROVE  astray' \in BOOLEAN
    BY <2>3, <2>4, <2>5, <2>8 DEF Crash, MatchStart, InitialLoading
  <2>9. ASSUME NEW s \in Sessions, NEW order \in Orders, NEW receiver \in Sessions,
               Relay(s, order, receiver) \/ WeaponAttack(s, order, receiver)
        PROVE  astray' \in BOOLEAN
    BY <2>2, <2>3, <2>4, <2>5, <2>9 DEF Relay, WeaponAttack
  <2>10. ASSUME NEW s \in Sessions, NEW position \in Positions, PlayerPosition(s, position)
         PROVE  astray' \in BOOLEAN
    BY <2>3, <2>10 DEF PlayerPosition
  <2> QED
    BY <2>6, <2>7, <2>8, <2>9, <2>10 DEF Next
<1>3. IInv => TypeOK
  <2> SUFFICES ASSUME RoomsInv, LimitsKept, astray \in BOOLEAN
               PROVE  TypeOK
    OBVIOUS
  <2>1. \A r \in DOMAIN rooms : rooms[r] \in Room
    BY DEF RoomsInv, Seated
  <2>2. ASSUME NEW s \in DOMAIN limits
        PROVE  /\ limits[s].lastReset \in 0 .. now
               /\ limits[s].packetCount \in 1 .. MaxAttacks
               /\ limits[s].exceedCount = Max({0, limits[s].packetCount - MAX_PACKETS})
    <3> DEFINE l == limits[s]
    <3>1. /\ now \in Nat /\ l.lastReset \in Nat /\ l.lastReset <= now /\ l.packetCount \in Nat
          /\ l.packetCount \in 1 .. Len(attacks[s]) /\ Len(attacks[s]) <= MaxAttacks
          /\ Len(attacks[s]) \in Nat
          /\ l.exceedCount = IF l.packetCount > MAX_PACKETS THEN l.packetCount - MAX_PACKETS ELSE 0
      BY DEF LimitsKept, LimitsInv, WindowInv
    <3> HIDE DEF l
    <3>2. ASSUME NEW a \in Int
          PROVE  Max({0, a}) = IF a > 0 THEN a ELSE 0
      <4> DEFINE S == {0, a}
      <4>1. \E x \in S : \A y \in S : x >= y
        OBVIOUS
      <4>2. Max(S) \in S /\ \A y \in S : Max(S) >= y
        BY <4>1 DEF Max
      <4> QED
        BY <4>2
    <3>3. l.packetCount - MAX_PACKETS \in Int
      BY <3>1, LimitsConstants
    <3>4. l.exceedCount = Max({0, l.packetCount - MAX_PACKETS})
      BY <3>1, <3>2, <3>3, LimitsConstants
    <3> QED
      BY <3>1, <3>4, LimitsConstants DEF l
  <2>3. DOMAIN limits \subseteq Attackers
    BY DEF LimitsKept, LimitsInv
  <2>4. /\ inside \subseteq Sessions /\ inMatch \subseteq Sessions
        /\ DOMAIN roomOf \subseteq inside /\ DOMAIN rooms = Range(roomOf)
    BY DEF RoomsInv
  <2> QED
    BY <2>1, <2>2, <2>3, <2>4 DEF TypeOK
<1> HIDE DEF IInv
<1> QED
  BY <1>1, <1>2, <1>3, PTL DEF Spec
=============================================================================
