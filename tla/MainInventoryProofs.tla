------------------------ MODULE MainInventoryProofs ------------------------
(***************************************************************************)
(* Proofs about the items and the purse of an account (MainInventory).     *)
(*                                                                         *)
(* A request goes through several updates of the player and of the queue,  *)
(* so the invariant is stated of any v = [p, rows]: Sound(v, ..) holds at  *)
(* every point of a request, and each operation (Unequip, PutOn, Delete,   *)
(* AddItems, Replaced, EnergyAdded) has a lemma that it stays so.  Two     *)
(* things carry it: nothing that is held, stored or queued has a number    *)
(* above m_latestItemNumber, so that new numbers are unused; and the item  *)
(* of a number that is not excused is filed once, in the inventory or at   *)
(* the place that its only row says.                                       *)
(*                                                                         *)
(* The wealth needs more, also of the numbers that are excused: that each  *)
(* has one row, and that what the session holds under it is worth what the *)
(* row is (Backed), so that nothing is refunded or upgraded twice.         *)
(***************************************************************************)
EXTENDS MainInventory, Integers, SequencesExt, Vectors, SequenceTheorems, FiniteSetTheorems,
        WellFoundedInduction, TLAPS

----------------------------------------------------------------------------
(* Sequences: those that stand in a std::vector *)

\* Each of the positions is the n-th for exactly one n.
LEMMA PositionsCounted ==
  ASSUME NEW m \in Nat, NEW I \in SUBSET (1 .. m)
  PROVE  /\ IsFiniteSet(I) /\ Cardinality(I) \in Nat
         /\ \A n \in 1 .. Cardinality(I) : Position(I, n) \in I
         /\ \A n, k \in 1 .. Cardinality(I) : Position(I, n) = Position(I, k) => n = k
         /\ \A i \in I : \E n \in 1 .. Cardinality(I) : Position(I, n) = i
<1> DEFINE upTo(i) == {j \in I : j <= i}
           rank == [i \in I |-> Cardinality(upTo(i))]
           c == Cardinality(I)
<1>1. IsFiniteSet(I) /\ c \in Nat
  <2>1. IsFiniteSet(1 .. m)
    BY FS_Interval
  <2> QED
    BY <2>1, FS_Subset, FS_CardinalityType
<1>2. ASSUME NEW i \in I
      PROVE  /\ IsFiniteSet(upTo(i)) /\ Cardinality(upTo(i)) \in Nat
             /\ Cardinality(upTo(i)) \in 1 .. c
  <2>1. upTo(i) \in SUBSET I /\ i \in upTo(i)
    OBVIOUS
  <2>2. IsFiniteSet(upTo(i)) /\ Cardinality(upTo(i)) <= c
    BY <1>1, <2>1, FS_Subset
  <2>3. Cardinality(upTo(i)) \in Nat /\ Cardinality(upTo(i)) # 0
    BY <2>1, <2>2, FS_CardinalityType, FS_EmptySet
  <2> QED
    BY <1>1, <2>2, <2>3
<1>3. ASSUME NEW i \in I, NEW k \in I, i < k
      PROVE  Cardinality(upTo(i)) < Cardinality(upTo(k))
  <2>1. upTo(i) \in SUBSET upTo(k) /\ k \in upTo(k) /\ k \notin upTo(i)
    <3>1. i \in Nat /\ k \in Nat /\ \A j \in I : j \in Nat
      OBVIOUS
    <3>2. \A j \in I : j <= i => j <= k
      BY <1>3, <3>1
    <3>3. k <= k /\ ~(k <= i)
      BY <1>3, <3>1
    <3> QED
      BY <3>2, <3>3
  <2>2. /\ Cardinality(upTo(i)) <= Cardinality(upTo(k))
        /\ Cardinality(upTo(k)) = Cardinality(upTo(i)) => upTo(k) = upTo(i)
    BY <1>2, <2>1, FS_Subset
  <2>3. Cardinality(upTo(k)) # Cardinality(upTo(i))
    BY <2>1, <2>2
  <2> QED
    BY <1>2, <2>2, <2>3
<1>4. rank \in [I -> 1 .. c]
  BY <1>2
<1>5. \A i, k \in I : rank[i] = rank[k] => i = k
  <2> SUFFICES ASSUME NEW i \in I, NEW k \in I, i # k
               PROVE  rank[i] # rank[k]
    OBVIOUS
  <2>1. i < k \/ k < i
    OBVIOUS
  <2> QED
    BY <1>2, <1>3, <2>1
<1>6. \A n \in 1 .. c : \E i \in I : rank[i] = n
  <2>1. IsFiniteSet(1 .. c) /\ Cardinality(1 .. c) = c
    BY <1>1, FS_Interval
  <2>2. rank \in Injection(I, 1 .. c)
    BY <1>4, <1>5 DEF Injection, IsInjective
  <2>3. rank \in Surjection(I, 1 .. c)
    BY <2>1, <2>2, FS_Injection
  <2> QED
    BY <2>3 DEF Surjection
<1>7. \A n \in 1 .. c : Position(I, n) \in I /\ rank[Position(I, n)] = n
  <2> SUFFICES ASSUME NEW n \in 1 .. c
               PROVE  Position(I, n) \in I /\ rank[Position(I, n)] = n
    OBVIOUS
  <2>1. \E i \in I : Cardinality(upTo(i)) = n
    BY <1>6
  <2> QED
    BY <2>1 DEF Position
<1>8. \A i \in I : Position(I, rank[i]) = i
  BY <1>4, <1>5, <1>7
<1> QED
  BY <1>1, <1>4, <1>7, <1>8

\* A vector holds what stood at those positions, each as often as there.
LEMMA SeatsAtPositions ==
  ASSUME NEW S, NEW s \in Seq(S), NEW I \in SUBSET DOMAIN s
  PROVE  /\ AtPositions(s, I) \in Seq(S)
         /\ ToSet(AtPositions(s, I)) = {s[i] : i \in I}
         /\ IsInjective(s) => IsInjective(AtPositions(s, I))
<1> DEFINE c == Cardinality(I)
           t == AtPositions(s, I)
<1>1. DOMAIN s = 1 .. Len(s) /\ Len(s) \in Nat
  OBVIOUS
<1>2. /\ c \in Nat
      /\ \A n \in 1 .. c : Position(I, n) \in I
      /\ \A n, k \in 1 .. c : Position(I, n) = Position(I, k) => n = k
      /\ \A i \in I : \E n \in 1 .. c : Position(I, n) = i
  BY ZenonT(30), <1>1, PositionsCounted
<1>3. DOMAIN t = 1 .. c /\ \A n \in 1 .. c : t[n] = s[Position(I, n)]
  BY DEF AtPositions
<1>4. t \in Seq(S)
  <2>1. t = [n \in 1 .. c |-> s[Position(I, n)]]
    BY DEF AtPositions
  <2>2. \A n \in 1 .. c : s[Position(I, n)] \in S
    BY <1>1, <1>2
  <2> QED
    BY <1>2, <2>1, <2>2
<1> HIDE DEF t
<1>5. ToSet(t) = {s[i] : i \in I}
  BY <1>2, <1>3 DEF ToSet
<1>6. IsInjective(s) => IsInjective(t)
  BY <1>1, <1>2, <1>3 DEF IsInjective
<1> QED
  BY <1>4, <1>5, <1>6 DEF t

----------------------------------------------------------------------------
(* Numbers and counting *)

\* A non-empty set of natural numbers has a least element.
LEMMA LeastNumber ==
  ASSUME NEW S \in SUBSET Nat, S # {}
  PROVE  \E k \in S : \A j \in S : k <= j
<1> DEFINE R == {ss \in Nat \X Nat : ss[1] < ss[2]}
<1>1. OpToRel(<, Nat) = R
  BY DEF OpToRel
<1>2. PICK k \in S : \A j \in S : ~ (<<j, k>> \in R)
  BY ZenonT(30), <1>1, NatLessThanWellFounded, WFMin
<1>3. \A j \in S : k <= j
  <2> TAKE j \in S
  <2>1. j \in Nat /\ k \in Nat
    OBVIOUS
  <2>2. <<j, k>> \notin R
    BY <1>2
  <2> QED
    BY <2>1, <2>2
<1> QED
  BY <1>3

\* A bounded one has a greatest element.
LEMMA GreatestNumber ==
  ASSUME NEW S \in SUBSET Nat, S # {}, NEW n \in Nat, \A j \in S : j <= n
  PROVE  \E k \in S : \A j \in S : j <= k
<1> DEFINE bounds == {m \in Nat : \A j \in S : j <= m}
<1>1. PICK k \in bounds : \A m \in bounds : k <= m
  <2>1. bounds \in SUBSET Nat /\ bounds # {}
    OBVIOUS
  <2> QED
    BY <2>1, LeastNumber
<1>2. CASE k \in S
  BY <1>1, <1>2
<1>3. CASE k \notin S
  <2>1. k \in Nat /\ \A j \in S : j \in Nat /\ j < k
    BY <1>1, <1>3
  <2>2. PICK j \in S : TRUE
    OBVIOUS
  <2>3. k - 1 \in bounds
    BY <2>1, <2>2
  <2> QED
    BY <1>1, <2>3
<1> QED
  BY <1>2, <1>3

----------------------------------------------------------------------------
(* Maps of items *)

LEMMA FilesType ==
  ASSUME NEW S, NEW f
  PROVE  f \in Files(S) <=> DOMAIN f \in SUBSET S /\ f \in [DOMAIN f -> Item]
BY DEF Files

LEMMA PutFile ==
  ASSUME NEW S, NEW f \in Files(S), NEW k \in S, NEW x \in Item
  PROVE  /\ Put(f, k, x) \in Files(S)
         /\ DOMAIN Put(f, k, x) = DOMAIN f \cup {k}
         /\ Put(f, k, x)[k] = x
         /\ \A j \in DOMAIN f \ {k} : Put(f, k, x)[j] = f[j]
<1>1. DOMAIN f \in SUBSET S /\ f \in [DOMAIN f -> Item]
  BY FilesType
<1>2. DOMAIN Put(f, k, x) = DOMAIN f \cup {k} /\ Put(f, k, x)[k] = x
      /\ \A j \in DOMAIN f \ {k} : Put(f, k, x)[j] = f[j]
  BY DEF Put
<1>3. Put(f, k, x) \in [DOMAIN f \cup {k} -> Item]
  BY <1>1 DEF Put
<1> HIDE DEF Put
<1>4. DOMAIN f \cup {k} \in SUBSET S
  BY <1>1
<1> QED
  BY <1>2, <1>3, <1>4, FilesType

LEMMA RestrictFile ==
  ASSUME NEW S, NEW f \in Files(S), NEW k
  PROVE  /\ Restrict(f, DOMAIN f \ {k}) \in Files(S)
         /\ DOMAIN Restrict(f, DOMAIN f \ {k}) = DOMAIN f \ {k}
         /\ \A j \in DOMAIN f \ {k} : Restrict(f, DOMAIN f \ {k})[j] = f[j]
<1> DEFINE g == Restrict(f, DOMAIN f \ {k})
<1>1. DOMAIN f \in SUBSET S /\ f \in [DOMAIN f -> Item]
  BY FilesType
<1>2. DOMAIN g = DOMAIN f \ {k} /\ \A j \in DOMAIN f \ {k} : g[j] = f[j]
  BY DEF Restrict
<1>3. g \in [DOMAIN f \ {k} -> Item]
  BY <1>1 DEF Restrict
<1> HIDE DEF g
<1>4. g \in Files(S)
  BY <1>1, <1>2, <1>3, FilesType
<1> QED
  BY <1>2, <1>4 DEF g

\* Another item under a key that is in use
LEMMA ExchangeFile ==
  ASSUME NEW S, NEW f \in Files(S), NEW k \in DOMAIN f, NEW x \in Item
  PROVE  /\ [f EXCEPT ![k] = x] \in Files(S)
         /\ DOMAIN [f EXCEPT ![k] = x] = DOMAIN f
         /\ [f EXCEPT ![k] = x][k] = x
         /\ \A j \in DOMAIN f \ {k} : [f EXCEPT ![k] = x][j] = f[j]
<1> DEFINE g == [f EXCEPT ![k] = x]
<1>1. DOMAIN f \in SUBSET S /\ f \in [DOMAIN f -> Item]
  BY FilesType
<1>2. DOMAIN g = DOMAIN f /\ g[k] = x /\ \A j \in DOMAIN f \ {k} : g[j] = f[j]
  BY <1>1
<1>3. g \in [DOMAIN f -> Item]
  BY <1>1
<1> HIDE DEF g
<1>4. g \in Files(S)
  BY <1>1, <1>2, <1>3, FilesType
<1> QED
  BY <1>2, <1>4 DEF g

\* Any part of a finite set of keys is finite.
LEMMA FileItems ==
  ASSUME NEW S, NEW f \in Files(S), NEW k \in DOMAIN f
  PROVE  k \in S /\ f[k] \in Item
BY FilesType

LEMMA KeysFinite ==
  /\ \A f \in Files(Numbers) : IsFiniteSet(DOMAIN f) /\ Cardinality(DOMAIN f) \in Nat
  /\ \A f \in Files(Characters \X Slots) : IsFiniteSet(DOMAIN f) /\ Cardinality(DOMAIN f) \in Nat
<1>1. IsFiniteSet(Numbers)
  BY FS_Interval, ConstantsAssumption DEF Numbers
<1>2. IsFiniteSet(Slots)
  <2>1. IsFiniteSet({"weapon"})
    BY FS_Singleton
  <2>2. IsFiniteSet({"weapon"} \cup {"head"})
    BY <2>1, FS_AddElement
  <2>3. IsFiniteSet(({"weapon"} \cup {"head"}) \cup {"set"})
    BY <2>2, FS_AddElement
  <2>4. Slots = ({"weapon"} \cup {"head"}) \cup {"set"}
    BY DEF Slots
  <2> QED
    BY <2>3, <2>4
<1>3. IsFiniteSet(Characters \X Slots)
  BY <1>2, FS_Product, ConstantsAssumption
<1>4. \A f : \A S : f \in Files(S) => DOMAIN f \in SUBSET S
  BY FilesType
<1>5. ASSUME NEW S, IsFiniteSet(S), NEW f \in Files(S)
      PROVE  IsFiniteSet(DOMAIN f) /\ Cardinality(DOMAIN f) \in Nat
  BY <1>4, <1>5, FS_Subset, FS_CardinalityType
<1> QED
  BY <1>1, <1>3, <1>5

----------------------------------------------------------------------------
(* The rows *)

\* A statement that changes the rows of a number leaves them in their places.
LEMMA PlacedRows ==
  ASSUME NEW rows \in Seq(Row), NEW m, NEW c \in Characters \cup {0}
  PROVE  /\ Placed(rows, m, c) \in Seq(Row)
         /\ DOMAIN Placed(rows, m, c) = DOMAIN rows
         /\ Len(Placed(rows, m, c)) = Len(rows)
         /\ \A i \in DOMAIN rows :
              Placed(rows, m, c)[i] = IF rows[i].number = m THEN [rows[i] EXCEPT !.place = c]
                                      ELSE rows[i]
<1> DEFINE r == Placed(rows, m, c)
           g(i) == IF rows[i].number = m THEN [rows[i] EXCEPT !.place = c] ELSE rows[i]
<1>1. DOMAIN rows = 1 .. Len(rows) /\ Len(rows) \in Nat /\ \A i \in DOMAIN rows : rows[i] \in Row
  OBVIOUS
<1>2. r = [i \in 1 .. Len(rows) |-> g(i)]
  BY <1>1 DEF Placed, Where
<1>3. \A i \in 1 .. Len(rows) : g(i) \in Row
  BY <1>1 DEF Row
<1> HIDE DEF r, g
<1>4. r \in [1 .. Len(rows) -> Row] /\ \A i \in 1 .. Len(rows) : r[i] = g(i)
  BY <1>2, <1>3
<1>5. r \in Seq(Row)
  BY <1>1, <1>4
<1> QED
  BY <1>1, <1>2, <1>4, <1>5 DEF r, g

LEMMA RenewedRows ==
  ASSUME NEW rows \in Seq(Row), NEW m
  PROVE  /\ Renewed(rows, m) \in Seq(Row)
         /\ DOMAIN Renewed(rows, m) = DOMAIN rows
         /\ Len(Renewed(rows, m)) = Len(rows)
         /\ \A i \in DOMAIN rows :
              Renewed(rows, m)[i] = IF rows[i].number = m THEN [rows[i] EXCEPT !.fresh = TRUE]
                                    ELSE rows[i]
<1> DEFINE r == Renewed(rows, m)
           g(i) == IF rows[i].number = m THEN [rows[i] EXCEPT !.fresh = TRUE] ELSE rows[i]
<1>1. DOMAIN rows = 1 .. Len(rows) /\ Len(rows) \in Nat /\ \A i \in DOMAIN rows : rows[i] \in Row
  OBVIOUS
<1>2. r = [i \in 1 .. Len(rows) |-> g(i)]
  BY <1>1 DEF Renewed, Where
<1>3. \A i \in 1 .. Len(rows) : g(i) \in Row
  BY <1>1 DEF Row
<1> HIDE DEF r, g
<1>4. r \in [1 .. Len(rows) -> Row] /\ \A i \in 1 .. Len(rows) : r[i] = g(i)
  BY <1>2, <1>3
<1>5. r \in Seq(Row)
  BY <1>1, <1>4
<1> QED
  BY <1>1, <1>2, <1>4, <1>5 DEF r, g

LEMMA EnergisedRows ==
  ASSUME NEW rows \in Seq(Row), NEW q \in EnergyUpdate \cup {None}
  PROVE  /\ Energised(rows, q) \in Seq(Row)
         /\ DOMAIN Energised(rows, q) = DOMAIN rows
         /\ Len(Energised(rows, q)) = Len(rows)
         /\ \A i \in DOMAIN rows :
              Energised(rows, q)[i] =
                IF q # None /\ rows[i].number = q.number THEN [rows[i] EXCEPT !.energy = q.energy]
                ELSE rows[i]
<1> DEFINE r == Energised(rows, q)
           g(i) == IF rows[i].number = q.number THEN [rows[i] EXCEPT !.energy = q.energy]
                   ELSE rows[i]
<1>1. DOMAIN rows = 1 .. Len(rows) /\ Len(rows) \in Nat /\ \A i \in DOMAIN rows : rows[i] \in Row
  OBVIOUS
<1>2. CASE q = None
  BY <1>1, <1>2 DEF Energised
<1>3. CASE q # None
  <2>1. r = [i \in 1 .. Len(rows) |-> g(i)]
    BY <1>1, <1>3 DEF Energised, Where
  <2>2. q.energy \in Nat
    BY <1>3 DEF EnergyUpdate
  <2>3. \A i \in 1 .. Len(rows) : g(i) \in Row
    BY <1>1, <2>2 DEF Row
  <2> HIDE DEF r, g
  <2>4. r \in [1 .. Len(rows) -> Row] /\ \A i \in 1 .. Len(rows) : r[i] = g(i)
    BY <2>1, <2>3
  <2>5. r \in Seq(Row)
    BY <1>1, <2>4
  <2> QED
    BY <1>1, <1>3, <2>1, <2>4, <2>5 DEF r, g
<1> QED
  BY <1>2, <1>3

\* What is left by a removal: the rows of the other numbers, each once.
LEMMA RemovedRows ==
  ASSUME NEW rows \in Seq(Row), NEW m
  PROVE  /\ Removed(rows, m) \in Seq(Row)
         /\ Len(Removed(rows, m)) <= Len(rows)
         /\ \E from \in [DOMAIN Removed(rows, m) -> {i \in DOMAIN rows : rows[i].number # m}] :
              /\ \A i \in DOMAIN Removed(rows, m) : Removed(rows, m)[i] = rows[from[i]]
              /\ \A i, j \in DOMAIN Removed(rows, m) : from[i] = from[j] => i = j
              /\ \A k \in DOMAIN rows : rows[k].number # m =>
                   \E i \in DOMAIN Removed(rows, m) : from[i] = k
<1> DEFINE I == {i \in DOMAIN rows : rows[i].number # m}
           c == Cardinality(I)
           r == Removed(rows, m)
           from == [n \in 1 .. c |-> Position(I, n)]
<1>1. DOMAIN rows = 1 .. Len(rows) /\ Len(rows) \in Nat
  OBVIOUS
<1>2. I \in SUBSET (1 .. Len(rows))
  BY <1>1
<1>3. /\ c \in Nat
      /\ \A n \in 1 .. c : Position(I, n) \in I
      /\ \A n, k \in 1 .. c : Position(I, n) = Position(I, k) => n = k
      /\ \A i \in I : \E n \in 1 .. c : Position(I, n) = i
  <2> HIDE DEF I
  <2> QED
    BY ZenonT(30), <1>1, <1>2, PositionsCounted
<1>4. r = [n \in 1 .. c |-> rows[Position(I, n)]]
  BY DEF Removed, AtPositions
<1>5. r \in Seq(Row)
  <2>1. AtPositions(rows, I) \in Seq(Row)
    <3>1. I \in SUBSET DOMAIN rows
      OBVIOUS
    <3> HIDE DEF I
    <3> QED
      BY <3>1, SeatsAtPositions
  <2> QED
    BY <2>1 DEF Removed
<1>6. Len(r) = c /\ DOMAIN r = 1 .. c
  BY <1>3, <1>4, <1>5
<1>7. c <= Len(rows)
  <2>1. IsFiniteSet(1 .. Len(rows)) /\ Cardinality(1 .. Len(rows)) = Len(rows)
    BY <1>1, FS_Interval, SMTT(30)
  <2> HIDE DEF I
  <2> QED
    BY <1>2, <2>1, FS_Subset
<1>8. from \in [DOMAIN r -> I]
  BY <1>3, <1>6
<1>9. /\ \A i \in DOMAIN r : r[i] = rows[from[i]]
      /\ \A i, j \in DOMAIN r : from[i] = from[j] => i = j
      /\ \A k \in DOMAIN rows : rows[k].number # m => \E i \in DOMAIN r : from[i] = k
  BY <1>3, <1>4, <1>6
<1> HIDE DEF r, from
<1>10. \E f \in [DOMAIN r -> I] :
         /\ \A i \in DOMAIN r : r[i] = rows[f[i]]
         /\ \A i, j \in DOMAIN r : f[i] = f[j] => i = j
         /\ \A k \in DOMAIN rows : rows[k].number # m => \E i \in DOMAIN r : f[i] = k
  BY <1>8, <1>9
<1> QED
  BY <1>5, <1>6, <1>7, <1>10 DEF r

LEMMA InsertedRows ==
  ASSUME NEW rows \in Seq(Row), NEW item \in Item, item.id \in Ids
  PROVE  /\ Inserted(rows, item) \in Seq(Row)
         /\ Len(Inserted(rows, item)) = Len(rows) + 1
         /\ DOMAIN Inserted(rows, item) = 1 .. Len(rows) + 1
         /\ DOMAIN rows = 1 .. Len(rows) /\ Len(rows) \in Nat
         /\ \A i \in DOMAIN rows : Inserted(rows, item)[i] = rows[i]
         /\ Inserted(rows, item)[Len(rows) + 1] = AsRow(item)
<1>1. AsRow(item) \in Row
  BY DEF AsRow, Item, Row
<1> QED
  BY <1>1, AppendProperties DEF Inserted

----------------------------------------------------------------------------
(* What the operations change in a player *)

\* u is v after the item has been taken off w.
TakenOff(v, w, item, u) ==
  /\ w \in DOMAIN v.p.worn /\ item \in Item /\ item = v.p.worn[w]
  /\ u.p.unworn = Put(v.p.unworn, item.serial, item)
  /\ u.p.worn = Restrict(v.p.worn, DOMAIN v.p.worn \ {w})
  /\ u.p.total = v.p.total - 1
  /\ u.p.latest = v.p.latest /\ u.p.character = v.p.character /\ u.p.mp = v.p.mp
  /\ v.p.total # 0 => u.p \in Player
  /\ u.rows = Placed(v.rows, item.serial, 0) /\ u.rows \in Seq(Row)

\* u is v after the item filed under n has taken the place w of another, off.
Exchanged(v, n, item, w, off, left, u) ==
  /\ w = Here(v, Slot(item.id)) /\ w \in DOMAIN v.p.worn
  /\ off \in Item /\ off = v.p.worn[w]
  /\ left \in Files(Numbers) /\ left = Restrict(v.p.unworn, DOMAIN v.p.unworn \ {n})
  /\ u.p.unworn = Put(left, off.serial, off)
  /\ u.p.worn = [v.p.worn EXCEPT ![w] = item]
  /\ u.p.total = v.p.total
  /\ u.p.latest = v.p.latest /\ u.p.character = v.p.character /\ u.p.mp = v.p.mp
  /\ u.p \in Player
  /\ u.rows = Swapped(v.rows, off.serial, item.serial, v.p.character)
  /\ u.rows \in Seq(Row)

\* u is v after the item filed under n has taken the empty slot w.
Filled(v, n, item, w, left, u) ==
  /\ w = Here(v, Slot(item.id)) /\ w \in Characters \X Slots /\ w \notin DOMAIN v.p.worn
  /\ left \in Files(Numbers) /\ left = Restrict(v.p.unworn, DOMAIN v.p.unworn \ {n})
  /\ u.p.unworn = left
  /\ u.p.worn = Put(v.p.worn, w, item)
  /\ u.p.total = v.p.total + 1
  /\ u.p.latest = v.p.latest /\ u.p.character = v.p.character /\ u.p.mp = v.p.mp
  /\ u.p \in Player
  /\ u.rows = Placed(v.rows, item.serial, v.p.character)
  /\ u.rows \in Seq(Row)

\* Player::unequipItemImpl and unequipItem, field by field
LEMMA UnequipFields ==
  ASSUME NEW v, v.p \in Player, v.rows \in Seq(Row), NEW slot \in Slots, IsWorn(v, slot)
  PROVE  \E w, item : w = Here(v, slot) /\ TakenOff(v, w, item, Unequip(v, slot))
<1> DEFINE w == Here(v, slot)
           item == v.p.worn[w]
           u == Unequip(v, slot)
           U == Put(v.p.unworn, item.serial, item)
           W == Restrict(v.p.worn, DOMAIN v.p.worn \ {w})
           T == v.p.total - 1
           q == [v.p EXCEPT !.unworn = U, !.worn = W, !.total = T]
<1>1. w \in DOMAIN v.p.worn
  BY DEF IsWorn
<1>2. /\ v.p.unworn \in Files(Numbers) /\ v.p.worn \in Files(Characters \X Slots)
      /\ v.p.total \in Nat
  BY DEF Player
<1>3. item \in Item
  BY <1>1, <1>2, FileItems
<1>4. u.p = q /\ u.rows = Placed(v.rows, item.serial, 0)
  BY DEF Unequip
<1> HIDE DEF u, item, w, q
<1>5. item.serial \in Numbers
  BY <1>3 DEF Item
<1>6. U \in Files(Numbers) /\ W \in Files(Characters \X Slots)
  BY <1>2, <1>3, <1>5, PutFile, RestrictFile
<1> HIDE DEF U, W
<1>7. /\ u.p.unworn = U /\ u.p.worn = W /\ u.p.total = T
      /\ u.p.latest = v.p.latest /\ u.p.character = v.p.character /\ u.p.mp = v.p.mp
      /\ T \in Nat => u.p \in Player
  <2> HIDE DEF T
  <2> QED
    BY <1>4, <1>6 DEF q, Player
<1>8. v.p.total # 0 => T \in Nat
  BY <1>2
<1>9. u.rows \in Seq(Row)
  BY <1>4, PlacedRows
<1>10. w = Here(v, slot) /\ item = v.p.worn[w]
  BY DEF w, item
<1>11. TakenOff(v, w, item, u)
  BY <1>1, <1>3, <1>4, <1>7, <1>8, <1>9, <1>10 DEF U, W, TakenOff
<1> QED
  BY <1>10, <1>11 DEF u

\* What Player::equipItem does at last when the slot is taken, field by field
LEMMA ExchangeFields ==
  ASSUME NEW v, v.p \in Player, v.rows \in Seq(Row), NEW n, NEW item \in Item,
         Here(v, Slot(item.id)) \in DOMAIN v.p.worn
  PROVE  \E w, off, left : Exchanged(v, n, item, w, off, left, PutOn(v, n, item))
<1> DEFINE w == Here(v, Slot(item.id))
           off == v.p.worn[w]
           left == Restrict(v.p.unworn, DOMAIN v.p.unworn \ {n})
           u == PutOn(v, n, item)
           U == Put(left, off.serial, off)
           W == [v.p.worn EXCEPT ![w] = item]
           q == [v.p EXCEPT !.unworn = U, !.worn = W, !.total = v.p.total]
<1>1. /\ v.p.unworn \in Files(Numbers) /\ v.p.worn \in Files(Characters \X Slots)
      /\ v.p.total \in Nat /\ v.p.character \in Characters
  BY DEF Player
<1>2. off \in Item
  BY <1>1, FileItems
<1>3. u.p = q /\ u.rows = Swapped(v.rows, off.serial, item.serial, v.p.character)
  BY DEF PutOn, Player
<1>4. left \in Files(Numbers)
  BY <1>1, RestrictFile
<1>5. w \in DOMAIN v.p.worn
  OBVIOUS
<1> HIDE DEF u, left, w, q
<1>6. W \in Files(Characters \X Slots)
  BY <1>1, <1>5, ExchangeFile
<1> HIDE DEF off
<1>7. U \in Files(Numbers)
  <2>1. off.serial \in Numbers
    BY <1>2 DEF Item
  <2> QED
    BY <1>2, <1>4, <2>1, PutFile
<1> HIDE DEF U, W
<1>8. /\ u.p.unworn = U /\ u.p.worn = W /\ u.p.total = v.p.total
      /\ u.p.latest = v.p.latest /\ u.p.character = v.p.character /\ u.p.mp = v.p.mp
      /\ u.p \in Player
  BY <1>1, <1>3, <1>6, <1>7 DEF q, Player
<1>9. u.rows \in Seq(Row)
  BY <1>1, <1>3, PlacedRows DEF Swapped
<1>10. /\ w = Here(v, Slot(item.id)) /\ off = v.p.worn[w]
       /\ left = Restrict(v.p.unworn, DOMAIN v.p.unworn \ {n})
  BY DEF w, off, left
<1>11. Exchanged(v, n, item, w, off, left, u)
  BY <1>2, <1>3, <1>4, <1>5, <1>8, <1>9, <1>10 DEF U, W, Exchanged
<1> QED
  BY <1>11 DEF u

\* and when it is empty
LEMMA FillFields ==
  ASSUME NEW v, v.p \in Player, v.rows \in Seq(Row), NEW n, NEW item \in Item,
         Here(v, Slot(item.id)) \notin DOMAIN v.p.worn
  PROVE  \E w, left : Filled(v, n, item, w, left, PutOn(v, n, item))
<1> DEFINE w == Here(v, Slot(item.id))
           left == Restrict(v.p.unworn, DOMAIN v.p.unworn \ {n})
           u == PutOn(v, n, item)
           W == Put(v.p.worn, w, item)
           T == v.p.total + 1
           q == [v.p EXCEPT !.unworn = left, !.worn = W, !.total = T]
<1>1. /\ v.p.unworn \in Files(Numbers) /\ v.p.worn \in Files(Characters \X Slots)
      /\ v.p.total \in Nat /\ v.p.character \in Characters
  BY DEF Player
<1>2. u.p = q /\ u.rows = Placed(v.rows, item.serial, v.p.character)
  BY DEF PutOn, Player
<1>3. left \in Files(Numbers)
  BY <1>1, RestrictFile
<1>4. w \in Characters \X Slots /\ w \notin DOMAIN v.p.worn
  <2>1. Slot(item.id) \in Slots
    BY DEF Slot, Slots
  <2> QED
    BY <1>1, <2>1 DEF Here
<1> HIDE DEF u, left, w, q
<1>5. W \in Files(Characters \X Slots)
  BY <1>1, <1>4, PutFile
<1>6. T \in Nat
  BY <1>1
<1> HIDE DEF W
<1>7. /\ u.p.unworn = left /\ u.p.worn = W /\ u.p.total = T
      /\ u.p.latest = v.p.latest /\ u.p.character = v.p.character /\ u.p.mp = v.p.mp
      /\ u.p \in Player
  <2> HIDE DEF T
  <2> QED
    BY <1>2, <1>3, <1>5, <1>6 DEF q, Player
<1>8. u.rows \in Seq(Row)
  BY <1>1, <1>2, PlacedRows
<1>9. w = Here(v, Slot(item.id)) /\ left = Restrict(v.p.unworn, DOMAIN v.p.unworn \ {n})
  BY DEF w, left
<1>10. Filled(v, n, item, w, left, u)
  BY <1>2, <1>3, <1>4, <1>7, <1>8, <1>9 DEF W, Filled
<1> QED
  BY <1>10 DEF u

----------------------------------------------------------------------------
(* The space of the inventory *)

\* m_totalEquippedItems counts what is worn, and h items that are out of sight.
Counted(p, h) == p.total = Cardinality(DOMAIN p.worn) + h

\* What hasEnoughInventorySpace takes for the space in use
Room(p) == p.total + Cardinality(DOMAIN p.unworn)

LEMMA UnequipCounted ==
  ASSUME NEW v, v.p \in Player, v.rows \in Seq(Row), NEW slot \in Slots, IsWorn(v, slot),
         NEW h \in Nat, Counted(v.p, h)
  PROVE  LET u == Unequip(v, slot) IN
         /\ v.p.total # 0 /\ u.p \in Player
         /\ Counted(u.p, h) /\ Room(u.p) <= Room(v.p)
<1> DEFINE u == Unequip(v, slot)
<1>1. /\ v.p.unworn \in Files(Numbers) /\ v.p.worn \in Files(Characters \X Slots)
      /\ v.p.total \in Nat
  BY DEF Player
<1>2. PICK w, item : TakenOff(v, w, item, u)
  BY UnequipFields
<1> HIDE DEF u
<1>3. /\ IsFiniteSet(DOMAIN v.p.worn) /\ Cardinality(DOMAIN v.p.worn) \in Nat
      /\ IsFiniteSet(DOMAIN v.p.unworn) /\ Cardinality(DOMAIN v.p.unworn) \in Nat
  BY <1>1, KeysFinite
<1>4. /\ Cardinality(DOMAIN v.p.worn \ {w}) = Cardinality(DOMAIN v.p.worn) - 1
      /\ Cardinality(DOMAIN v.p.worn) # 0
  <2>1. Cardinality(DOMAIN v.p.worn \ {w}) = Cardinality(DOMAIN v.p.worn) - 1
    BY <1>2, <1>3, FS_RemoveElement DEF TakenOff
  <2>2. Cardinality(DOMAIN v.p.worn) # 0
    BY <1>2, <1>3, FS_EmptySet DEF TakenOff
  <2> QED
    BY <2>1, <2>2
<1>5. v.p.total # 0
  BY <1>3, <1>4 DEF Counted
<1>6. /\ DOMAIN u.p.worn = DOMAIN v.p.worn \ {w}
      /\ DOMAIN u.p.unworn = DOMAIN v.p.unworn \cup {item.serial}
  BY <1>2 DEF TakenOff, Restrict, Put
<1>7. /\ Cardinality(DOMAIN u.p.unworn) \in Nat
      /\ Cardinality(DOMAIN u.p.unworn) <= Cardinality(DOMAIN v.p.unworn) + 1
  <2>1. Cardinality(DOMAIN v.p.unworn \cup {item.serial})
          = IF item.serial \in DOMAIN v.p.unworn THEN Cardinality(DOMAIN v.p.unworn)
            ELSE Cardinality(DOMAIN v.p.unworn) + 1
    BY <1>3, FS_AddElement
  <2> QED
    BY <1>3, <1>6, <2>1
<1>8. Counted(u.p, h)
  <2>1. Cardinality(DOMAIN u.p.worn) = Cardinality(DOMAIN v.p.worn) - 1
    BY <1>4, <1>6
  <2> QED
    BY <1>1, <1>2, <1>3, <2>1 DEF TakenOff, Counted
<1>9. Room(u.p) <= Room(v.p)
  BY <1>1, <1>2, <1>3, <1>7 DEF TakenOff, Room
<1> QED
  BY <1>2, <1>5, <1>8, <1>9 DEF TakenOff, u

LEMMA PutOnCounted ==
  ASSUME NEW v, v.p \in Player, v.rows \in Seq(Row), NEW n, NEW item \in Item,
         NEW h \in Nat, Counted(v.p, h)
  PROVE  LET u == PutOn(v, n, item) IN
         /\ u.p \in Player /\ Counted(u.p, h)
         /\ n \in DOMAIN v.p.unworn => Room(u.p) <= Room(v.p)
<1> DEFINE u == PutOn(v, n, item)
           keys == DOMAIN v.p.unworn \ {n}
<1>1. /\ v.p.unworn \in Files(Numbers) /\ v.p.worn \in Files(Characters \X Slots)
      /\ v.p.total \in Nat
  BY DEF Player
<1>2. /\ IsFiniteSet(DOMAIN v.p.worn) /\ Cardinality(DOMAIN v.p.worn) \in Nat
      /\ IsFiniteSet(DOMAIN v.p.unworn) /\ Cardinality(DOMAIN v.p.unworn) \in Nat
  BY <1>1, KeysFinite
<1>3. /\ IsFiniteSet(keys) /\ Cardinality(keys) \in Nat
      /\ n \in DOMAIN v.p.unworn => Cardinality(keys) = Cardinality(DOMAIN v.p.unworn) - 1
  BY <1>2, FS_RemoveElement, FS_CardinalityType
<1>4. CASE Here(v, Slot(item.id)) \in DOMAIN v.p.worn
  <2>1. PICK w, off, left : Exchanged(v, n, item, w, off, left, u)
    BY <1>4, ExchangeFields
  <2> HIDE DEF u
  <2>2. /\ DOMAIN u.p.worn = DOMAIN v.p.worn
        /\ DOMAIN u.p.unworn = keys \cup {off.serial}
    BY <1>1, <2>1, FilesType DEF Exchanged, Put, Restrict
  <2> HIDE DEF keys
  <2>3. u.p.total = v.p.total /\ u.p \in Player
    BY <2>1 DEF Exchanged
  <2>4. /\ Cardinality(DOMAIN u.p.unworn) \in Nat
        /\ Cardinality(DOMAIN u.p.unworn) <= Cardinality(keys) + 1
    <3>1. Cardinality(keys \cup {off.serial})
            = IF off.serial \in keys THEN Cardinality(keys) ELSE Cardinality(keys) + 1
      BY <1>3, FS_AddElement
    <3> QED
      BY <1>3, <2>2, <3>1
  <2>5. n \in DOMAIN v.p.unworn => Room(u.p) <= Room(v.p)
    BY <1>1, <1>2, <1>3, <2>3, <2>4 DEF Room
  <2>6. Counted(u.p, h)
    BY <2>2, <2>3 DEF Counted
  <2> QED
    BY <2>3, <2>5, <2>6 DEF u
<1>5. CASE Here(v, Slot(item.id)) \notin DOMAIN v.p.worn
  <2>1. PICK w, left : Filled(v, n, item, w, left, u)
    BY <1>5, FillFields
  <2> HIDE DEF u
  <2>2. DOMAIN u.p.worn = DOMAIN v.p.worn \cup {w} /\ DOMAIN u.p.unworn = keys
    BY <2>1 DEF Filled, Put, Restrict
  <2> HIDE DEF keys
  <2>3. w \notin DOMAIN v.p.worn /\ u.p.total = v.p.total + 1 /\ u.p \in Player
    BY <2>1 DEF Filled
  <2>4. Cardinality(DOMAIN u.p.worn) = Cardinality(DOMAIN v.p.worn) + 1
    BY <1>2, <2>2, <2>3, FS_AddElement, ZenonT(30)
  <2>5. Counted(u.p, h)
    BY <1>1, <1>2, <2>3, <2>4 DEF Counted
  <2>6. n \in DOMAIN v.p.unworn => Room(u.p) <= Room(v.p)
    BY <1>1, <1>2, <1>3, <2>2, <2>3 DEF Room
  <2> QED
    BY <2>3, <2>5, <2>6 DEF u
<1> QED
  BY <1>4, <1>5

----------------------------------------------------------------------------
(* What a number names, in the player and in the rows *)

\* Where items are filed: under their numbers, but for the renewed ones, whose serial is 0; and
\* worn where they belong.  X are the numbers that are excused.
Filed(p, X) ==
  /\ \A n \in DOMAIN p.unworn :
       /\ n <= p.latest
       /\ p.unworn[n].serial \in {0, n}
       /\ n \notin X => p.unworn[n].serial = n
       /\ p.unworn[n].serial # 0 => p.unworn[n].id \in Ids
  /\ \A w \in DOMAIN p.worn :
       /\ p.worn[w].serial <= p.latest
       /\ Slot(p.worn[w].id) = w[2]
       /\ p.worn[w].serial # 0 => p.worn[w].id \in Ids

Unique(rows, n) ==
  \A i, j \in DOMAIN rows : rows[i].number = n /\ rows[j].number = n => i = j

\* The rows of number n after the next flush, when the update q is in the queue
Stored(rows, q, n) == RowsOf(Energised(rows, q), n)

\* The table, with the update q in the queue, and the player agree about number n.
Accord(p, rows, q, n) == Agree(p, Stored(rows, q, n), n) /\ Unique(rows, n)

LEMMA StoredRows ==
  ASSUME NEW rows \in Seq(Row), NEW q \in EnergyUpdate \cup {None}, NEW n
  PROVE  /\ Stored(rows, q, n) \in SUBSET Row
         /\ \A row \in Stored(rows, q, n) : row.number = n
<1>1. Energised(rows, q) \in Seq(Row)
  BY EnergisedRows
<1> QED
  BY <1>1 DEF Stored, RowsOf

\* Two columns of a row are set in either order.
LEMMA ColumnsCommute ==
  ASSUME NEW row \in Row, NEW c, NEW x
  PROVE  [[row EXCEPT !.place = c] EXCEPT !.energy = x] =
          [[row EXCEPT !.energy = x] EXCEPT !.place = c]
<1>1. PICK a, b, l, e, f, d : row = [number |-> a, id |-> b, level |-> l, energy |-> e,
                                     fresh |-> f, place |-> d]
  BY DEF Row
<1> QED
  BY <1>1

\* These rows, all of them with place c
MovedTo(R, c) == {[row EXCEPT !.place = c] : row \in R}

\* A statement about the place of one number leaves the rows of the others.
LEMMA StoredPlaced ==
  ASSUME NEW rows \in Seq(Row), NEW q \in EnergyUpdate \cup {None}, NEW m,
         NEW c \in Characters \cup {0}, NEW n
  PROVE  /\ n = m => Stored(Placed(rows, m, c), q, n) = MovedTo(Stored(rows, q, n), c)
         /\ n # m => Stored(Placed(rows, m, c), q, n) = Stored(rows, q, n)
         /\ Unique(rows, n) => Unique(Placed(rows, m, c), n)
<1> DEFINE r == Placed(rows, m, c)
           e == Energised(rows, q)
           f == Energised(r, q)
<1>1. /\ r \in Seq(Row) /\ DOMAIN r = DOMAIN rows
      /\ \A i \in DOMAIN rows :
           r[i] = IF rows[i].number = m THEN [rows[i] EXCEPT !.place = c] ELSE rows[i]
  BY PlacedRows
<1> HIDE DEF r
<1>2. /\ DOMAIN e = DOMAIN rows /\ DOMAIN f = DOMAIN rows
      /\ \A i \in DOMAIN rows :
           /\ e[i] = IF q # None /\ rows[i].number = q.number
                     THEN [rows[i] EXCEPT !.energy = q.energy] ELSE rows[i]
           /\ f[i] = IF q # None /\ r[i].number = q.number
                     THEN [r[i] EXCEPT !.energy = q.energy] ELSE r[i]
  BY <1>1, EnergisedRows
<1> HIDE DEF e, f
<1>3. ASSUME NEW i \in DOMAIN rows
      PROVE  /\ r[i].number = rows[i].number
             /\ e[i].number = rows[i].number /\ f[i].number = rows[i].number
             /\ rows[i].number = m => f[i] = [e[i] EXCEPT !.place = c]
             /\ rows[i].number # m => f[i] = e[i]
  <2>1. rows[i] \in Row
    OBVIOUS
  <2>2. r[i].number = rows[i].number
    BY <1>1, <2>1 DEF Row
  <2>3. e[i].number = rows[i].number
    BY <1>2, <2>1 DEF Row
  <2>4. CASE rows[i].number = m
    <3>1. r[i] = [rows[i] EXCEPT !.place = c]
      BY <1>1, <2>4
    <3>2. CASE q # None /\ rows[i].number = q.number
      <4>1. e[i] = [rows[i] EXCEPT !.energy = q.energy] /\ f[i] = [r[i] EXCEPT !.energy = q.energy]
        BY <1>2, <2>2, <3>2
      <4>2. f[i] = [e[i] EXCEPT !.place = c]
        BY <2>1, <3>1, <4>1, ColumnsCommute
      <4> QED
        BY <2>1, <2>2, <2>3, <2>4, <4>1, <4>2 DEF Row
    <3>3. CASE ~(q # None /\ rows[i].number = q.number)
      <4>1. e[i] = rows[i] /\ f[i] = r[i]
        BY <1>2, <2>2, <3>3
      <4> QED
        BY <2>2, <2>4, <3>1, <4>1
    <3> QED
      BY <3>2, <3>3
  <2>5. CASE rows[i].number # m
    <3>1. r[i] = rows[i]
      BY <1>1, <2>5
    <3>2. f[i] = e[i]
      BY <1>2, <3>1
    <3> QED
      BY <2>2, <2>3, <2>5, <3>2
  <2> QED
    BY <2>4, <2>5
<1>4. /\ Stored(rows, q, n) = {e[i] : i \in {j \in DOMAIN rows : rows[j].number = n}}
      /\ Stored(r, q, n) = {f[i] : i \in {j \in DOMAIN rows : rows[j].number = n}}
  BY <1>2, <1>3 DEF Stored, RowsOf, e, f
<1>5. ASSUME n = m
      PROVE  Stored(r, q, n) = MovedTo(Stored(rows, q, n), c)
  <2> DEFINE g(row) == [row EXCEPT !.place = c]
  <2>1. \A i \in DOMAIN rows : rows[i].number = n => f[i] = g(e[i])
    BY <1>3, <1>5
  <2> HIDE DEF g
  <2>2. Stored(r, q, n) = {g(row) : row \in Stored(rows, q, n)}
    BY <1>4, <2>1
  <2> QED
    BY <2>2 DEF g, MovedTo
<1>6. ASSUME n # m
      PROVE  Stored(r, q, n) = Stored(rows, q, n)
  <2>1. \A i \in DOMAIN rows : rows[i].number = n => f[i] = e[i]
    BY <1>3, <1>6
  <2> QED
    BY <1>4, <2>1
<1>7. Unique(rows, n) => Unique(r, n)
  BY <1>1, <1>3 DEF Unique
<1> QED
  BY <1>5, <1>6, <1>7 DEF r

\* What both say about a number depends on nothing else.
LEMMA AgreementCarried ==
  ASSUME NEW p, NEW o, NEW R, NEW n,
         Agree(p, R, n),
         n \in DOMAIN o.unworn <=> n \in DOMAIN p.unworn,
         n \in DOMAIN p.unworn => o.unworn[n] = p.unworn[n],
         WornAs(o, n) = WornAs(p, n),
         \A w \in WornAs(p, n) : o.worn[w] = p.worn[w]
  PROVE  Agree(o, R, n)
BY DEF Agree, Wearers

\* The rows S are those of the item, which is in place c, the player's inventory or a wearer.
Shown(S, c, item) ==
  (\A row \in S : row.place = c) /\ \E row \in S : row \in Row /\ Same(row, item)

\* The number n is that of what is worn as w, and of nothing else.
WornAlone(p, S, n, w) ==
  n \notin DOMAIN p.unworn /\ WornAs(p, n) = {w} /\ Shown(S, w[1], p.worn[w])

\* An item that is worn has one wearer, and one place.
LEMMA WornOnce ==
  ASSUME NEW p \in Player, NEW rows \in Seq(Row), NEW q \in EnergyUpdate \cup {None},
         NEW X, Filed(p, X), NEW n, Accord(p, rows, q, n), NEW w \in WornAs(p, n)
  PROVE  WornAlone(p, Stored(rows, q, n), n, w)
<1> DEFINE R == Stored(rows, q, n)
<1>1. R \in SUBSET Row
  BY StoredRows
<1>2. \A x, y \in R : x = y
  <2>1. DOMAIN Energised(rows, q) = DOMAIN rows
    BY EnergisedRows
  <2>2. \A i \in DOMAIN rows : Energised(rows, q)[i].number = rows[i].number
    <3> SUFFICES ASSUME NEW i \in DOMAIN rows
                 PROVE  Energised(rows, q)[i].number = rows[i].number
      OBVIOUS
    <3>1. rows[i] \in Row
      OBVIOUS
    <3>2. Energised(rows, q)[i] = IF q # None /\ rows[i].number = q.number
                                  THEN [rows[i] EXCEPT !.energy = q.energy] ELSE rows[i]
      BY EnergisedRows
    <3> QED
      BY <3>1, <3>2 DEF Row
  <2> QED
    BY <2>1, <2>2 DEF Accord, Unique, Stored, RowsOf
<1> HIDE DEF R
<1>3. Agree(p, R, n)
  BY DEF Accord, R
<1>4. PICK row \in R : Same(row, p.worn[w])
  BY <1>3 DEF Agree
<1>5. R = {row}
  BY <1>2
<1>6. p.worn \in Files(Characters \X Slots)
  BY DEF Player
<1>7. \A x \in WornAs(p, n) : x \in DOMAIN p.worn /\ x \in Characters \X Slots
  BY <1>6, FileItems DEF WornAs
<1>8. \A x \in WornAs(p, n) : x[1] = row.place /\ row.place # 0
  <2>1. Wearers(p, n) = {row.place} \ {0}
    BY <1>3, <1>5 DEF Agree
  <2>2. \A x \in WornAs(p, n) : x[1] \in Wearers(p, n)
    BY DEF Wearers
  <2> QED
    BY <2>1, <2>2
<1>9. \A x \in WornAs(p, n) : p.worn[x].id = row.id
  BY <1>3, <1>5 DEF Agree, Same
<1>10. \A x \in WornAs(p, n) : x[2] = Slot(row.id)
  BY <1>7, <1>9 DEF Filed
<1>11. \A x \in WornAs(p, n) : x = w
  BY <1>7, <1>8, <1>10
<1>12. n \notin DOMAIN p.unworn
  BY <1>3, <1>5, <1>8 DEF Agree
<1>13. WornAs(p, n) = {w} /\ \A x \in R : x.place = w[1]
  BY <1>5, <1>8, <1>11
<1> QED
  BY <1>1, <1>4, <1>12, <1>13 DEF R, WornAlone, Shown

\* The number of an item in the inventory is not that of one that is worn.
LEMMA UnwornOnce ==
  ASSUME NEW p \in Player, NEW rows \in Seq(Row), NEW q \in EnergyUpdate \cup {None},
         NEW X, Filed(p, X), NEW n, Accord(p, rows, q, n), n \in DOMAIN p.unworn
  PROVE  WornAs(p, n) = {} /\ Shown(Stored(rows, q, n), 0, p.unworn[n])
<1>1. WornAs(p, n) = {}
  <2> SUFFICES ASSUME NEW w \in WornAs(p, n)
               PROVE  FALSE
    OBVIOUS
  <2>1. WornAlone(p, Stored(rows, q, n), n, w)
    BY WornOnce
  <2> QED
    BY <2>1 DEF WornAlone
<1>2. Agree(p, Stored(rows, q, n), n) /\ Stored(rows, q, n) \in SUBSET Row
  BY StoredRows DEF Accord
<1> QED
  BY <1>1, <1>2 DEF Agree, Wearers, Shown

----------------------------------------------------------------------------
(* The agreement through the equipment of items *)

\* The row of an item that is worn nowhere else, after the place of its number has changed
LEMMA PlacedSame ==
  ASSUME NEW R \in SUBSET Row, NEW item, NEW b, Shown(R, b, item), NEW c \in Characters \cup {0}
  PROVE  Shown(MovedTo(R, c), c, item)
<1>1. \A r \in R : /\ [r EXCEPT !.place = c] \in Row
                   /\ [r EXCEPT !.place = c].place = c
                   /\ [r EXCEPT !.place = c].id = r.id
                   /\ [r EXCEPT !.place = c].level = r.level
                   /\ [r EXCEPT !.place = c].energy = r.energy
                   /\ [r EXCEPT !.place = c].fresh = r.fresh
  BY DEF Row
<1>2. PICK r \in R : Same(r, item)
  BY DEF Shown
<1>3. Same([r EXCEPT !.place = c], item)
  BY <1>1, <1>2 DEF Same
<1> QED
  BY <1>1, <1>3 DEF MovedTo, Shown

\* An item that is in the inventory, alone under its number, and whose rows have place 0
LEMMA AgreeUnworn ==
  ASSUME NEW p, NEW R, NEW n, n \in DOMAIN p.unworn, WornAs(p, n) = {},
         Shown(R, 0, p.unworn[n])
  PROVE  Agree(p, R, n)
BY DEF Agree, Wearers, Shown

\* One that is worn, alone under its number, and whose rows have its place
LEMMA AgreeWorn ==
  ASSUME NEW p, NEW R, NEW n, n \notin DOMAIN p.unworn, NEW w, WornAs(p, n) = {w}, w[1] # 0,
         Shown(R, w[1], p.worn[w])
  PROVE  Agree(p, R, n)
<1>1. Wearers(p, n) = {w[1]}
  BY DEF Wearers
<1> QED
  BY <1>1 DEF Agree, Shown

\* What is worn with another number than that of w does not depend on what is worn at w.
Aside(p, o, w, n) ==
  /\ \A x : x # w => (x \in DOMAIN o.worn <=> x \in DOMAIN p.worn)
  /\ \A x \in DOMAIN p.worn : x # w => o.worn[x] = p.worn[x]
  /\ w \in DOMAIN p.worn => p.worn[w].serial # n
  /\ w \in DOMAIN o.worn => o.worn[w].serial # n

LEMMA WornElsewhere ==
  ASSUME NEW p, NEW o, NEW w, NEW n, Aside(p, o, w, n)
  PROVE  WornAs(o, n) = WornAs(p, n) /\ \A x \in WornAs(p, n) : o.worn[x] = p.worn[x]
<1> USE DEF Aside
<1>1. ASSUME NEW x
      PROVE  x \in WornAs(o, n) <=> x \in WornAs(p, n)
  <2>1. CASE x = w
    BY <2>1 DEF WornAs
  <2>2. CASE x # w
    BY <2>2 DEF WornAs
  <2> QED
    BY <2>1, <2>2
<1>2. ASSUME NEW x \in WornAs(p, n)
      PROVE  o.worn[x] = p.worn[x]
  BY <1>2 DEF WornAs
<1> QED
  BY <1>1, <1>2

\* After an item has been taken off, its row says so; nothing else changes.
LEMMA TakenOffAccord ==
  ASSUME NEW v, v.p \in Player, v.rows \in Seq(Row), NEW q \in EnergyUpdate \cup {None},
         NEW X, Filed(v.p, X), NEW n, Accord(v.p, v.rows, q, n),
         NEW w, NEW item, NEW u, TakenOff(v, w, item, u)
  PROVE  Accord(u.p, u.rows, q, n)
<1> DEFINE R == Stored(v.rows, q, n)
<1>1. u.rows = Placed(v.rows, item.serial, 0)
  BY DEF TakenOff
<1>2. /\ n = item.serial => Stored(u.rows, q, n) = MovedTo(R, 0)
      /\ n # item.serial => Stored(u.rows, q, n) = R
      /\ Unique(u.rows, n)
  <2>1. 0 \in Characters \cup {0}
    OBVIOUS
  <2>2. ASSUME NEW c \in Characters \cup {0}
        PROVE  /\ n = item.serial => Stored(Placed(v.rows, item.serial, c), q, n) = MovedTo(R, c)
               /\ n # item.serial => Stored(Placed(v.rows, item.serial, c), q, n) = R
               /\ Unique(v.rows, n) => Unique(Placed(v.rows, item.serial, c), n)
    BY SMTT(60), StoredPlaced
  <2> QED
    BY <1>1, <2>1, <2>2 DEF Accord
<1>3. /\ w \in DOMAIN v.p.worn /\ item = v.p.worn[w]
      /\ DOMAIN u.p.unworn = DOMAIN v.p.unworn \cup {item.serial}
      /\ u.p.unworn[item.serial] = item
      /\ \A k \in DOMAIN v.p.unworn \ {item.serial} : u.p.unworn[k] = v.p.unworn[k]
  BY DEF TakenOff, Put
<1>4. /\ DOMAIN u.p.worn = DOMAIN v.p.worn \ {w}
      /\ \A x \in DOMAIN v.p.worn \ {w} : u.p.worn[x] = v.p.worn[x]
  BY DEF TakenOff, Restrict
<1>5. CASE n = item.serial
  <2>1. w \in WornAs(v.p, n)
    BY <1>3, <1>5 DEF WornAs
  <2>2. WornAlone(v.p, R, n, w)
    BY <2>1, WornOnce
  <2>3. WornAs(u.p, n) = {}
    BY <1>4, <2>2 DEF WornAs, WornAlone
  <2>4. R \in SUBSET Row /\ Shown(R, w[1], item)
    BY <1>3, <2>2, StoredRows DEF WornAlone
  <2> HIDE DEF R
  <2>5. Shown(MovedTo(R, 0), 0, item)
    BY <2>4, PlacedSame
  <2>6. n \in DOMAIN u.p.unworn /\ u.p.unworn[n] = item
    BY <1>3, <1>5
  <2>7. Agree(u.p, Stored(u.rows, q, n), n)
    BY <1>2, <1>5, <2>3, <2>5, <2>6, AgreeUnworn
  <2> QED
    BY <1>2, <2>7 DEF Accord
<1>6. CASE n # item.serial
  <2>1. WornAs(u.p, n) = WornAs(v.p, n) /\ \A x \in WornAs(v.p, n) : u.p.worn[x] = v.p.worn[x]
    <3>1. Aside(v.p, u.p, w, n)
      BY <1>3, <1>4, <1>6 DEF Aside
    <3> QED
      BY <3>1, WornElsewhere
  <2>2. /\ n \in DOMAIN u.p.unworn <=> n \in DOMAIN v.p.unworn
        /\ n \in DOMAIN v.p.unworn => u.p.unworn[n] = v.p.unworn[n]
    BY <1>3, <1>6
  <2>3. Agree(v.p, R, n)
    BY DEF Accord
  <2> HIDE DEF R
  <2>4. Agree(u.p, R, n)
    BY <2>1, <2>2, <2>3, AgreementCarried
  <2> QED
    BY <1>2, <1>6, <2>4 DEF Accord
<1> QED
  BY <1>5, <1>6

\* What may be equipped under n: the item that is filed there, or nothing that has a number, if n
\* is excused.
Wearable(p, X, n, item) ==
  /\ item \in Item /\ n # 0
  /\ item.serial \in {0, n}
  /\ item.serial <= p.latest /\ (item.serial # 0 => item.id \in Ids)
  /\ n \notin X => n \in DOMAIN p.unworn /\ item = p.unworn[n]

\* After an item has been put on in place of another
LEMMA ExchangedAccord ==
  ASSUME NEW v, v.p \in Player, v.rows \in Seq(Row), NEW q \in EnergyUpdate \cup {None},
         NEW X, Filed(v.p, X), NEW n, n \notin X, n # 0, Accord(v.p, v.rows, q, n),
         NEW m, NEW item, Wearable(v.p, X, m, item),
         NEW w, NEW off, NEW left, NEW u, Exchanged(v, m, item, w, off, left, u)
  PROVE  Accord(u.p, u.rows, q, n)
<1> DEFINE R == Stored(v.rows, q, n)
           c == v.p.character
           half == Placed(v.rows, item.serial, c)
<1>1. /\ c \in Characters /\ c # 0
      /\ v.p.worn \in Files(Characters \X Slots) /\ v.p.unworn \in Files(Numbers)
  BY ConstantsAssumption DEF Player
<1>2. /\ half \in Seq(Row) /\ u.rows = Placed(half, off.serial, 0)
  <2>1. u.rows = Placed(half, off.serial, 0)
    BY DEF Exchanged, Swapped
  <2> QED
    BY <1>1, <2>1, PlacedRows
<1>3. /\ n = item.serial => Stored(half, q, n) = MovedTo(R, c)
      /\ n # item.serial => Stored(half, q, n) = R
      /\ Unique(half, n)
  BY <1>1, StoredPlaced, SMTT(30) DEF Accord
<1> HIDE DEF half
<1>4. /\ n = off.serial => Stored(u.rows, q, n) = MovedTo(Stored(half, q, n), 0)
      /\ n # off.serial => Stored(u.rows, q, n) = Stored(half, q, n)
      /\ Unique(u.rows, n)
  <2>1. 0 \in Characters \cup {0}
    OBVIOUS
  <2>2. ASSUME NEW z \in Characters \cup {0}
        PROVE  /\ n = off.serial => Stored(Placed(half, off.serial, z), q, n)
                                    = MovedTo(Stored(half, q, n), z)
               /\ n # off.serial => Stored(Placed(half, off.serial, z), q, n) = Stored(half, q, n)
               /\ Unique(half, n) => Unique(Placed(half, off.serial, z), n)
    BY <1>2, StoredPlaced
  <2> QED
    BY <1>2, <1>3, <2>1, <2>2
<1>5. /\ w \in DOMAIN v.p.worn /\ off = v.p.worn[w] /\ w[1] = c
      /\ DOMAIN u.p.worn = DOMAIN v.p.worn /\ u.p.worn[w] = item
      /\ \A x \in DOMAIN v.p.worn \ {w} : u.p.worn[x] = v.p.worn[x]
  BY <1>1, FilesType DEF Exchanged, Here
<1>6. /\ DOMAIN u.p.unworn = (DOMAIN v.p.unworn \ {m}) \cup {off.serial}
      /\ u.p.unworn[off.serial] = off
      /\ \A k \in DOMAIN v.p.unworn : k # m /\ k # off.serial => u.p.unworn[k] = v.p.unworn[k]
  BY DEF Exchanged, Put, Restrict
<1>7. n = off.serial => w \in WornAs(v.p, n)
  BY <1>5 DEF WornAs
<1>8. Agree(v.p, R, n)
  BY DEF Accord
<1>9. CASE n = m
  <2>1. n \in DOMAIN v.p.unworn /\ item = v.p.unworn[n] /\ item.serial = n
    BY <1>9 DEF Wearable, Filed
  <2>2. WornAs(v.p, n) = {} /\ Shown(R, 0, item)
    BY <2>1, UnwornOnce
  <2>3. n # off.serial
    BY <1>7, <2>2
  <2>4. WornAs(u.p, n) = {w} /\ u.p.worn[w] = item
    BY <1>5, <2>1, <2>2 DEF WornAs
  <2>5. n \notin DOMAIN u.p.unworn
    BY <1>6, <1>9, <2>3
  <2>6. R \in SUBSET Row
    BY StoredRows
  <2>7. Stored(u.rows, q, n) = MovedTo(R, c)
    BY <1>3, <1>4, <2>1, <2>3
  <2> HIDE DEF R, c
  <2>8. Shown(Stored(u.rows, q, n), c, item)
    BY <1>1, <2>2, <2>6, <2>7, PlacedSame
  <2>9. Agree(u.p, Stored(u.rows, q, n), n)
    BY <1>1, <1>5, <2>4, <2>5, <2>8, AgreeWorn
  <2> QED
    BY <1>4, <2>9 DEF Accord
<1>10. CASE n # m /\ n = off.serial
  <2>1. n # item.serial
    BY <1>10 DEF Wearable
  <2>2. WornAlone(v.p, R, n, w)
    BY <1>7, <1>10, WornOnce
  <2>3. WornAs(u.p, n) = {}
    BY <1>5, <2>1, <2>2 DEF WornAs, WornAlone
  <2>4. R \in SUBSET Row /\ Shown(R, w[1], off)
    BY <1>5, <2>2, StoredRows DEF WornAlone
  <2>5. n \in DOMAIN u.p.unworn /\ u.p.unworn[n] = off
    BY <1>6, <1>10
  <2>6. Stored(u.rows, q, n) = MovedTo(R, 0)
    BY <1>3, <1>4, <1>10, <2>1
  <2> HIDE DEF R
  <2>7. Shown(MovedTo(R, 0), 0, off)
    BY <2>4, PlacedSame
  <2>8. Agree(u.p, Stored(u.rows, q, n), n)
    BY <2>3, <2>5, <2>6, <2>7, AgreeUnworn
  <2> QED
    BY <1>4, <2>8 DEF Accord
<1>11. CASE n # m /\ n # off.serial
  <2>1. n # item.serial
    BY <1>11 DEF Wearable
  <2>2. WornAs(u.p, n) = WornAs(v.p, n) /\ \A x \in WornAs(v.p, n) : u.p.worn[x] = v.p.worn[x]
    <3>1. Aside(v.p, u.p, w, n)
      BY <1>5, <1>11, <2>1 DEF Aside
    <3> QED
      BY <3>1, WornElsewhere
  <2>3. /\ n \in DOMAIN u.p.unworn <=> n \in DOMAIN v.p.unworn
        /\ n \in DOMAIN v.p.unworn => u.p.unworn[n] = v.p.unworn[n]
    BY <1>6, <1>11
  <2>4. Stored(u.rows, q, n) = R
    BY <1>3, <1>4, <1>11, <2>1
  <2> HIDE DEF R
  <2>5. Agree(u.p, R, n)
    BY <1>8, <2>2, <2>3, AgreementCarried
  <2> QED
    BY <1>4, <2>4, <2>5 DEF Accord
<1> QED
  BY <1>9, <1>10, <1>11

\* After an item has been put on where nothing was worn
LEMMA FilledAccord ==
  ASSUME NEW v, v.p \in Player, v.rows \in Seq(Row), NEW q \in EnergyUpdate \cup {None},
         NEW X, Filed(v.p, X), NEW n, n \notin X, n # 0, Accord(v.p, v.rows, q, n),
         NEW m, NEW item, Wearable(v.p, X, m, item),
         NEW w, NEW left, NEW u, Filled(v, m, item, w, left, u)
  PROVE  Accord(u.p, u.rows, q, n)
<1> DEFINE R == Stored(v.rows, q, n)
           c == v.p.character
<1>1. /\ c \in Characters /\ c # 0
      /\ v.p.worn \in Files(Characters \X Slots) /\ v.p.unworn \in Files(Numbers)
  BY ConstantsAssumption DEF Player
<1>2. u.rows = Placed(v.rows, item.serial, c)
  BY DEF Filled
<1>3. /\ n = item.serial => Stored(u.rows, q, n) = MovedTo(R, c)
      /\ n # item.serial => Stored(u.rows, q, n) = R
      /\ Unique(u.rows, n)
  BY <1>1, <1>2, StoredPlaced DEF Accord
<1>4. /\ w \notin DOMAIN v.p.worn /\ w[1] = c
      /\ DOMAIN u.p.worn = DOMAIN v.p.worn \cup {w} /\ u.p.worn[w] = item
      /\ \A x \in DOMAIN v.p.worn : u.p.worn[x] = v.p.worn[x]
  BY DEF Filled, Here, Put
<1>5. /\ DOMAIN u.p.unworn = DOMAIN v.p.unworn \ {m}
      /\ \A k \in DOMAIN v.p.unworn : k # m => u.p.unworn[k] = v.p.unworn[k]
  BY DEF Filled, Restrict
<1>6. Agree(v.p, R, n)
  BY DEF Accord
<1>7. CASE n = m
  <2>1. n \in DOMAIN v.p.unworn /\ item = v.p.unworn[n] /\ item.serial = n
    BY <1>7 DEF Wearable, Filed
  <2>2. WornAs(v.p, n) = {} /\ Shown(R, 0, item)
    BY <2>1, UnwornOnce
  <2>3. WornAs(u.p, n) = {w} /\ u.p.worn[w] = item
    BY <1>4, <2>1, <2>2 DEF WornAs
  <2>4. n \notin DOMAIN u.p.unworn
    BY <1>5, <1>7
  <2>5. R \in SUBSET Row
    BY StoredRows
  <2>6. Stored(u.rows, q, n) = MovedTo(R, c)
    BY <1>3, <2>1
  <2> HIDE DEF R, c
  <2>7. Shown(Stored(u.rows, q, n), c, item)
    BY <1>1, <2>2, <2>5, <2>6, PlacedSame
  <2>8. Agree(u.p, Stored(u.rows, q, n), n)
    BY <1>1, <1>4, <2>3, <2>4, <2>7, AgreeWorn
  <2> QED
    BY <1>3, <2>8 DEF Accord
<1>8. CASE n # m
  <2>1. n # item.serial
    BY <1>8 DEF Wearable
  <2>2. WornAs(u.p, n) = WornAs(v.p, n) /\ \A x \in WornAs(v.p, n) : u.p.worn[x] = v.p.worn[x]
    <3>1. Aside(v.p, u.p, w, n)
      BY <1>4, <2>1 DEF Aside
    <3> QED
      BY <3>1, WornElsewhere
  <2>3. /\ n \in DOMAIN u.p.unworn <=> n \in DOMAIN v.p.unworn
        /\ n \in DOMAIN v.p.unworn => u.p.unworn[n] = v.p.unworn[n]
    BY <1>5, <1>8
  <2>4. Stored(u.rows, q, n) = R
    BY <1>3, <2>1
  <2> HIDE DEF R
  <2>5. Agree(u.p, R, n)
    BY <1>6, <2>2, <2>3, AgreementCarried
  <2> QED
    BY <1>3, <2>4, <2>5 DEF Accord
<1> QED
  BY <1>7, <1>8

\* What holds of a player and the rows at every point of a request, when the update q is in the
\* queue, the numbers X are excused and h rows are out of sight
Sound(v, q, X, h) ==
  /\ v.p \in Player /\ v.rows \in Seq(Row)
  /\ Filed(v.p, X) /\ Counted(v.p, h)
  /\ \A n \in (1 .. MaxNumber) \ X : Accord(v.p, v.rows, q, n)
  /\ \A i \in DOMAIN v.rows : v.rows[i].number \in 1 .. v.p.latest

\* What equipping leaves as it is
Steady(v, u) ==
  u.p.latest = v.p.latest /\ u.p.character = v.p.character /\ u.p.mp = v.p.mp

\* The numbers of the rows are as they were.
LEMMA PlacedNumbers ==
  ASSUME NEW rows \in Seq(Row), NEW m, NEW c \in Characters \cup {0}
  PROVE  \A i \in DOMAIN rows : Placed(rows, m, c)[i].number = rows[i].number
<1> SUFFICES ASSUME NEW i \in DOMAIN rows
             PROVE  Placed(rows, m, c)[i].number = rows[i].number
  OBVIOUS
<1>1. rows[i] \in Row
  OBVIOUS
<1>2. Placed(rows, m, c)[i] = IF rows[i].number = m THEN [rows[i] EXCEPT !.place = c] ELSE rows[i]
  BY PlacedRows
<1> QED
  BY <1>1, <1>2 DEF Row

LEMMA UnequipSound ==
  ASSUME NEW v, NEW q \in EnergyUpdate \cup {None}, NEW X, NEW h \in Nat, Sound(v, q, X, h),
         NEW slot \in Slots
  PROVE  LET u == Unequip(v, slot) IN
         /\ Sound(u, q, X, h) /\ Steady(v, u) /\ Room(u.p) <= Room(v.p)
         /\ \A n \in (1 .. MaxNumber) \ X : n \in DOMAIN v.p.unworn =>
              n \in DOMAIN u.p.unworn /\ u.p.unworn[n] = v.p.unworn[n]
<1>1. v.p \in Player /\ v.rows \in Seq(Row) /\ Filed(v.p, X) /\ Counted(v.p, h)
  BY DEF Sound
<1>2. CASE ~IsWorn(v, slot)
  <2>1. Room(v.p) <= Room(v.p)
    <3>1. v.p.total \in Nat /\ v.p.unworn \in Files(Numbers)
      BY <1>1 DEF Player
    <3> QED
      BY <3>1, KeysFinite DEF Room
  <2> QED
    BY <1>2, <2>1 DEF Unequip, Steady
<1>3. CASE IsWorn(v, slot)
  <2> DEFINE u == Unequip(v, slot)
  <2>1. PICK w, item : TakenOff(v, w, item, u)
    BY <1>1, <1>3, UnequipFields
  <2>2. u.p \in Player /\ Counted(u.p, h) /\ Room(u.p) <= Room(v.p)
    BY <1>1, <1>3, UnequipCounted
  <2> HIDE DEF u
  <2>3. u.rows \in Seq(Row) /\ Steady(v, u)
    BY <2>1 DEF TakenOff, Steady
  <2>4. \A n \in (1 .. MaxNumber) \ X : Accord(u.p, u.rows, q, n)
    BY <1>1, <2>1, TakenOffAccord DEF Sound
  <2>5. /\ w \in DOMAIN v.p.worn /\ item = v.p.worn[w]
        /\ DOMAIN u.p.unworn = DOMAIN v.p.unworn \cup {item.serial}
        /\ u.p.unworn[item.serial] = item
        /\ \A k \in DOMAIN v.p.unworn \ {item.serial} : u.p.unworn[k] = v.p.unworn[k]
        /\ DOMAIN u.p.worn = DOMAIN v.p.worn \ {w}
        /\ \A x \in DOMAIN v.p.worn \ {w} : u.p.worn[x] = v.p.worn[x]
    BY <2>1 DEF TakenOff, Put, Restrict
  <2>6. Filed(u.p, X)
    <3>1. ASSUME NEW n \in DOMAIN u.p.unworn
          PROVE  /\ n <= u.p.latest
                 /\ u.p.unworn[n].serial \in {0, n}
                 /\ n \notin X => u.p.unworn[n].serial = n
                 /\ u.p.unworn[n].serial # 0 => u.p.unworn[n].id \in Ids
      <4>1. CASE n = item.serial
        BY <1>1, <2>3, <2>5, <4>1 DEF Filed, Steady
      <4>2. CASE n # item.serial
        <5>1. n \in DOMAIN v.p.unworn /\ u.p.unworn[n] = v.p.unworn[n]
          BY <2>5, <4>2
        <5> QED
          BY <1>1, <2>3, <5>1 DEF Filed, Steady
      <4> QED
        BY <4>1, <4>2
    <3>2. \A x \in DOMAIN u.p.worn :
            /\ u.p.worn[x].serial <= u.p.latest
            /\ Slot(u.p.worn[x].id) = x[2]
            /\ u.p.worn[x].serial # 0 => u.p.worn[x].id \in Ids
      BY <1>1, <2>3, <2>5 DEF Filed, Steady
    <3> QED
      BY <3>1, <3>2 DEF Filed
  <2>7. \A i \in DOMAIN u.rows : u.rows[i].number \in 1 .. u.p.latest
    <3>1. u.rows = Placed(v.rows, item.serial, 0) /\ 0 \in Characters \cup {0}
      BY <2>1 DEF TakenOff
    <3>2. DOMAIN u.rows = DOMAIN v.rows
          /\ \A i \in DOMAIN v.rows : u.rows[i].number = v.rows[i].number
      BY <1>1, <3>1, PlacedRows, PlacedNumbers
    <3> QED
      BY <2>3, <3>2 DEF Sound, Steady
  <2>8. ASSUME NEW n \in (1 .. MaxNumber) \ X, n \in DOMAIN v.p.unworn
        PROVE  n \in DOMAIN u.p.unworn /\ u.p.unworn[n] = v.p.unworn[n]
    <3>1. WornAs(v.p, n) = {}
      BY <1>1, <2>8, UnwornOnce DEF Sound
    <3>2. item.serial # n
      BY <2>5, <3>1 DEF WornAs
    <3> QED
      BY <2>5, <2>8, <3>2
  <2>9. Sound(u, q, X, h)
    BY <2>2, <2>3, <2>4, <2>6, <2>7 DEF Sound
  <2> QED
    BY <2>2, <2>3, <2>8, <2>9 DEF u
<1> QED
  BY <1>2, <1>3

LEMMA PutOnSound ==
  ASSUME NEW v, NEW q \in EnergyUpdate \cup {None}, NEW X, NEW h \in Nat, Sound(v, q, X, h),
         NEW m, NEW item, Wearable(v.p, X, m, item)
  PROVE  LET u == PutOn(v, m, item) IN
         /\ Sound(u, q, X, h) /\ Steady(v, u)
         /\ m \in DOMAIN v.p.unworn => Room(u.p) <= Room(v.p)
<1> DEFINE u == PutOn(v, m, item)
           c == v.p.character
<1>1. v.p \in Player /\ v.rows \in Seq(Row) /\ Filed(v.p, X) /\ Counted(v.p, h) /\ item \in Item
  BY DEF Sound, Wearable
<1>2. u.p \in Player /\ Counted(u.p, h) /\ (m \in DOMAIN v.p.unworn => Room(u.p) <= Room(v.p))
  BY <1>1, PutOnCounted
<1>3. c \in Characters \cup {0} /\ 0 \in Characters \cup {0}
  BY <1>1 DEF Player
<1>4. v.p.worn \in Files(Characters \X Slots)
  BY <1>1 DEF Player
<1>5. \A n \in (1 .. MaxNumber) \ X : n \notin X /\ n # 0 /\ Accord(v.p, v.rows, q, n)
  BY DEF Sound
<1>6. /\ item.serial <= v.p.latest /\ (item.serial # 0 => item.id \in Ids)
      /\ m # 0 /\ item.serial \in {0, m}
  BY DEF Wearable
<1>7. CASE Here(v, Slot(item.id)) \in DOMAIN v.p.worn
  <2>1. PICK w, off, left : Exchanged(v, m, item, w, off, left, u)
    BY <1>1, <1>7, ExchangeFields
  <2> HIDE DEF u
  <2>2. u.rows \in Seq(Row) /\ Steady(v, u)
    BY <2>1 DEF Exchanged, Steady
  <2>3. \A n \in (1 .. MaxNumber) \ X : Accord(u.p, u.rows, q, n)
    BY <1>1, <1>5, <2>1, ExchangedAccord
  <2>4. /\ w \in DOMAIN v.p.worn /\ off = v.p.worn[w] /\ w[2] = Slot(item.id)
        /\ DOMAIN u.p.worn = DOMAIN v.p.worn /\ u.p.worn[w] = item
        /\ \A x \in DOMAIN v.p.worn \ {w} : u.p.worn[x] = v.p.worn[x]
    BY <1>4, <2>1, FilesType DEF Exchanged, Here
  <2>5. /\ DOMAIN u.p.unworn = (DOMAIN v.p.unworn \ {m}) \cup {off.serial}
        /\ u.p.unworn[off.serial] = off
        /\ \A k \in DOMAIN v.p.unworn : k # m /\ k # off.serial => u.p.unworn[k] = v.p.unworn[k]
    BY <2>1 DEF Exchanged, Put, Restrict
  <2>6. Filed(u.p, X)
    <3>1. ASSUME NEW n \in DOMAIN u.p.unworn
          PROVE  /\ n <= u.p.latest
                 /\ u.p.unworn[n].serial \in {0, n}
                 /\ n \notin X => u.p.unworn[n].serial = n
                 /\ u.p.unworn[n].serial # 0 => u.p.unworn[n].id \in Ids
      <4>1. CASE n = off.serial
        BY <1>1, <2>2, <2>4, <2>5, <4>1, ZenonT(30) DEF Filed, Steady
      <4>2. CASE n # off.serial
        <5>1. n \in DOMAIN v.p.unworn /\ u.p.unworn[n] = v.p.unworn[n]
          BY <2>5, <4>2
        <5> QED
          BY <1>1, <2>2, <5>1 DEF Filed, Steady
      <4> QED
        BY <4>1, <4>2
    <3>2. \A x \in DOMAIN u.p.worn :
            /\ u.p.worn[x].serial <= u.p.latest
            /\ Slot(u.p.worn[x].id) = x[2]
            /\ u.p.worn[x].serial # 0 => u.p.worn[x].id \in Ids
      BY <1>1, <1>6, <2>2, <2>4 DEF Filed, Steady
    <3> QED
      BY <3>1, <3>2 DEF Filed
  <2>7. \A i \in DOMAIN u.rows : u.rows[i].number \in 1 .. u.p.latest
    <3> DEFINE half == Placed(v.rows, item.serial, c)
    <3>1. u.rows = Placed(half, off.serial, 0)
      BY <2>1 DEF Exchanged, Swapped
    <3>2. /\ half \in Seq(Row) /\ DOMAIN half = DOMAIN v.rows
          /\ \A i \in DOMAIN v.rows : half[i].number = v.rows[i].number
      BY <1>1, <1>3, PlacedRows, PlacedNumbers
    <3> HIDE DEF half
    <3>3. /\ DOMAIN u.rows = DOMAIN half
          /\ \A i \in DOMAIN half : u.rows[i].number = half[i].number
      BY <1>3, <3>1, <3>2, PlacedRows, PlacedNumbers
    <3> QED
      BY <2>2, <3>2, <3>3 DEF Sound, Steady
  <2>8. Sound(u, q, X, h)
    BY <1>2, <2>2, <2>3, <2>6, <2>7 DEF Sound
  <2> QED
    BY <1>2, <2>2, <2>8 DEF u
<1>8. CASE Here(v, Slot(item.id)) \notin DOMAIN v.p.worn
  <2>1. PICK w, left : Filled(v, m, item, w, left, u)
    BY <1>1, <1>8, FillFields
  <2> HIDE DEF u
  <2>2. u.rows \in Seq(Row) /\ Steady(v, u)
    BY <2>1 DEF Filled, Steady
  <2>3. \A n \in (1 .. MaxNumber) \ X : Accord(u.p, u.rows, q, n)
    BY <1>1, <1>5, <2>1, FilledAccord
  <2>4. /\ w[2] = Slot(item.id)
        /\ DOMAIN u.p.worn = DOMAIN v.p.worn \cup {w} /\ u.p.worn[w] = item
        /\ \A x \in DOMAIN v.p.worn : x # w => u.p.worn[x] = v.p.worn[x]
    BY <2>1 DEF Filled, Here, Put
  <2>5. /\ DOMAIN u.p.unworn = DOMAIN v.p.unworn \ {m}
        /\ \A k \in DOMAIN v.p.unworn : k # m => u.p.unworn[k] = v.p.unworn[k]
    BY <2>1 DEF Filled, Restrict
  <2>6. Filed(u.p, X)
    <3>1. \A n \in DOMAIN u.p.unworn :
            /\ n <= u.p.latest
            /\ u.p.unworn[n].serial \in {0, n}
            /\ n \notin X => u.p.unworn[n].serial = n
            /\ u.p.unworn[n].serial # 0 => u.p.unworn[n].id \in Ids
      BY <1>1, <2>2, <2>5 DEF Filed, Steady
    <3>2. \A x \in DOMAIN u.p.worn :
            /\ u.p.worn[x].serial <= u.p.latest
            /\ Slot(u.p.worn[x].id) = x[2]
            /\ u.p.worn[x].serial # 0 => u.p.worn[x].id \in Ids
      BY <1>1, <1>6, <2>2, <2>4 DEF Filed, Steady
    <3> QED
      BY <3>1, <3>2 DEF Filed
  <2>7. \A i \in DOMAIN u.rows : u.rows[i].number \in 1 .. u.p.latest
    <3>1. u.rows = Placed(v.rows, item.serial, c)
      BY <2>1 DEF Filled
    <3>2. /\ DOMAIN u.rows = DOMAIN v.rows
          /\ \A i \in DOMAIN v.rows : u.rows[i].number = v.rows[i].number
      BY <1>1, <1>3, <3>1, PlacedRows, PlacedNumbers
    <3> QED
      BY <2>2, <3>2 DEF Sound, Steady
  <2>8. Sound(u, q, X, h)
    BY <1>2, <2>2, <2>3, <2>6, <2>7 DEF Sound
  <2> QED
    BY <1>2, <2>2, <2>8 DEF u
<1> QED
  BY <1>7, <1>8

\* Player::equipItem as a whole, of an item that is filed under the number, or of none
LEMMA EquipSound ==
  ASSUME NEW v, NEW q \in EnergyUpdate \cup {None}, NEW X, NEW h \in Nat, Sound(v, q, X, h),
         NEW n \in 1 .. MaxNumber, n \in DOMAIN v.p.unworn \/ n \in X
  PROVE  LET u == Equip(v, n) IN
         /\ Sound(u, q, X, h) /\ Steady(v, u)
         /\ n \in DOMAIN v.p.unworn => Room(u.p) <= Room(v.p)
<1> DEFINE item == IF n \in DOMAIN v.p.unworn THEN v.p.unworn[n] ELSE NoItem
           slot == Slot(item.id)
           bare == CASE slot = "set" -> Unequip(v, "head")
                     [] slot \in Parts -> Unequip(v, "set")
                     [] OTHER -> v
           u == Equip(v, n)
<1>1. u = PutOn(bare, n, item)
  BY DEF Equip
<1>2. v.p \in Player /\ Filed(v.p, X) /\ v.p.unworn \in Files(Numbers)
  BY DEF Sound, Player
<1>3. v.p.latest \in Nat /\ n \in Nat /\ n # 0
  BY <1>2 DEF Player, Numbers
<1>4. /\ item \in Item /\ item.serial \in {0, n}
      /\ item.serial <= v.p.latest /\ (item.serial # 0 => item.id \in Ids)
      /\ n \notin X => n \in DOMAIN v.p.unworn /\ item = v.p.unworn[n]
  <2>1. CASE n \in DOMAIN v.p.unworn
    <3>1. item = v.p.unworn[n]
      BY <2>1
    <3> HIDE DEF item
    <3> QED
      BY <1>2, <1>3, <2>1, <3>1, FileItems DEF Filed
  <2>2. CASE n \notin DOMAIN v.p.unworn
    <3>1. item = NoItem /\ n \in X
      BY <2>2
    <3> HIDE DEF item
    <3>2. NoItem \in Item /\ NoItem.serial = 0
      <4>1. 0 \in Numbers /\ 0 \in 0 .. MaxLevel
        BY ConstantsAssumption DEF Numbers, MaxLevel
      <4> QED
        BY <4>1 DEF NoItem, Item
    <3> QED
      BY <1>3, <3>1, <3>2
  <2> QED
    BY <2>1, <2>2
<1> HIDE DEF item
<1>5. Room(v.p) <= Room(v.p)
  <2>1. v.p.total \in Nat
    BY <1>2 DEF Player
  <2> QED
    BY <1>2, <2>1, KeysFinite DEF Room
<1>6. \E x \in {v, Unequip(v, "head"), Unequip(v, "set")} : bare = x
  <2>1. CASE slot = "set"
    BY <2>1
  <2>2. CASE slot # "set" /\ slot \in Parts
    BY <2>2
  <2>3. CASE slot # "set" /\ slot \notin Parts
    BY <2>3
  <2> QED
    BY <2>1, <2>2, <2>3
<1> HIDE DEF bare
<1>7. /\ Sound(bare, q, X, h) /\ Steady(v, bare) /\ Room(bare.p) <= Room(v.p)
      /\ \A k \in (1 .. MaxNumber) \ X : k \in DOMAIN v.p.unworn =>
           k \in DOMAIN bare.p.unworn /\ bare.p.unworn[k] = v.p.unworn[k]
  <2>1. "head" \in Slots /\ "set" \in Slots
    BY DEF Slots
  <2>2. CASE bare = v
    <3>1. Sound(bare, q, X, h) /\ Steady(v, v)
      BY <2>2 DEF Steady
    <3>2. Steady(v, bare) /\ Room(bare.p) <= Room(v.p) /\ bare.p.unworn = v.p.unworn
      BY <1>5, <2>2, <3>1
    <3> QED
      BY <3>1, <3>2
  <2>3. ASSUME NEW s \in Slots, bare = Unequip(v, s)
        PROVE  /\ Sound(bare, q, X, h) /\ Steady(v, bare) /\ Room(bare.p) <= Room(v.p)
               /\ \A k \in (1 .. MaxNumber) \ X : k \in DOMAIN v.p.unworn =>
                    k \in DOMAIN bare.p.unworn /\ bare.p.unworn[k] = v.p.unworn[k]
    BY <2>3, UnequipSound
  <2>4. CASE bare = Unequip(v, "head") \/ bare = Unequip(v, "set")
    BY <2>1, <2>3, <2>4
  <2> QED
    BY <1>6, <2>2, <2>4
<1>8. Wearable(bare.p, X, n, item)
  BY <1>3, <1>4, <1>7 DEF Wearable, Steady
<1>9. n \in DOMAIN v.p.unworn => n \in DOMAIN bare.p.unworn
  <2>1. \E x \in {v, Unequip(v, "head"), Unequip(v, "set")} : bare = x
    BY <1>6
  <2>2. \A s : DOMAIN v.p.unworn \in SUBSET DOMAIN Unequip(v, s).p.unworn
    <3> TAKE s
    <3>1. CASE ~IsWorn(v, s)
      BY <3>1 DEF Unequip
    <3>2. CASE IsWorn(v, s)
      <4>1. Unequip(v, s).p.unworn
            = Put(v.p.unworn, v.p.worn[Here(v, s)].serial, v.p.worn[Here(v, s)])
        BY <1>2, <3>2 DEF Unequip, Player
      <4> QED
        BY <4>1 DEF Put
    <3> QED
      BY <3>1, <3>2
  <2> QED
    BY <2>1, <2>2
<1>10. /\ Sound(u, q, X, h) /\ Steady(bare, u)
       /\ n \in DOMAIN bare.p.unworn => Room(u.p) <= Room(bare.p)
  <2> HIDE DEF u
  <2> QED
    BY <1>1, <1>7, <1>8, PutOnSound
<1>11. n \in DOMAIN v.p.unworn => Room(u.p) <= Room(v.p)
  <2>1. \A p \in Player : Room(p) \in Nat
    <3> SUFFICES ASSUME NEW p \in Player
                 PROVE  Room(p) \in Nat
      OBVIOUS
    <3>1. p.total \in Nat /\ p.unworn \in Files(Numbers)
      BY DEF Player
    <3> QED
      BY <3>1, KeysFinite DEF Room
  <2>2. Room(u.p) \in Nat /\ Room(bare.p) \in Nat /\ Room(v.p) \in Nat
    <3> HIDE DEF u
    <3> QED
      BY <1>2, <1>7, <1>10, <2>1 DEF Sound
  <2> HIDE DEF u
  <2> QED
    BY <1>7, <1>9, <1>10, <2>2
<1>12. Steady(v, u)
  BY <1>7, <1>10 DEF Steady
<1> QED
  BY <1>10, <1>11, <1>12

----------------------------------------------------------------------------
(* Items that leave and enter the inventory *)

\* The rows R of number n after the update q has been written
Charged(R, q, n) ==
  IF q # None /\ q.number = n THEN {[row EXCEPT !.energy = q.energy] : row \in R} ELSE R

LEMMA StoredCharged ==
  ASSUME NEW rows \in Seq(Row), NEW q \in EnergyUpdate \cup {None}, NEW n
  PROVE  Stored(rows, q, n) = Charged(RowsOf(rows, n), q, n)
<1> DEFINE e == Energised(rows, q)
<1>1. DOMAIN e = DOMAIN rows
  BY EnergisedRows
<1>2. \A i \in DOMAIN rows :
        e[i] = IF q # None /\ rows[i].number = q.number THEN [rows[i] EXCEPT !.energy = q.energy]
               ELSE rows[i]
  BY EnergisedRows
<1> HIDE DEF e
<1>3. \A i \in DOMAIN rows : e[i].number = rows[i].number
  <2> SUFFICES ASSUME NEW i \in DOMAIN rows
               PROVE  e[i].number = rows[i].number
    OBVIOUS
  <2>1. rows[i] \in Row
    OBVIOUS
  <2> QED
    BY <1>2, <2>1 DEF Row
<1>4. Stored(rows, q, n) = {e[i] : i \in {j \in DOMAIN rows : rows[j].number = n}}
  BY <1>1, <1>3 DEF Stored, RowsOf, e
<1>5. CASE q # None /\ q.number = n
  <2> DEFINE g(row) == [row EXCEPT !.energy = q.energy]
  <2>1. \A i \in DOMAIN rows : rows[i].number = n => e[i] = g(rows[i])
    BY <1>2, <1>5
  <2>2. Charged(RowsOf(rows, n), q, n) = {g(row) : row \in RowsOf(rows, n)}
    BY <1>5 DEF Charged
  <2> HIDE DEF g
  <2> QED
    BY <1>4, <2>1, <2>2 DEF RowsOf
<1>6. CASE ~(q # None /\ q.number = n)
  <2>1. \A i \in DOMAIN rows : rows[i].number = n => e[i] = rows[i]
    BY <1>2, <1>6
  <2> QED
    BY <1>4, <1>6, <2>1 DEF Charged, RowsOf
<1> QED
  BY <1>5, <1>6

\* The agreement about a number that nothing has happened to
LEMMA AccordCarried ==
  ASSUME NEW p, NEW o, NEW n, NEW rows \in Seq(Row), NEW r \in Seq(Row),
         NEW q \in EnergyUpdate \cup {None}, NEW t \in EnergyUpdate \cup {None},
         Accord(p, rows, q, n),
         RowsOf(r, n) = RowsOf(rows, n), Unique(r, n),
         Charged(RowsOf(rows, n), t, n) = Charged(RowsOf(rows, n), q, n),
         n \in DOMAIN o.unworn <=> n \in DOMAIN p.unworn,
         n \in DOMAIN p.unworn => o.unworn[n] = p.unworn[n],
         WornAs(o, n) = WornAs(p, n),
         \A w \in WornAs(p, n) : o.worn[w] = p.worn[w]
  PROVE  Accord(o, r, t, n)
<1>1. Stored(r, t, n) = Stored(rows, q, n)
  BY StoredCharged
<1>2. Agree(p, Stored(rows, q, n), n)
  BY DEF Accord
<1>3. Agree(o, Stored(rows, q, n), n)
  BY <1>2, AgreementCarried
<1> QED
  BY <1>1, <1>3 DEF Accord

\* Nothing has the number n.
Unused(v, n) ==
  n \notin DOMAIN v.p.unworn /\ WornAs(v.p, n) = {} /\ RowsOf(v.rows, n) = {}

LEMMA UnusedAccord ==
  ASSUME NEW v, v.rows \in Seq(Row), NEW q \in EnergyUpdate \cup {None}, NEW n, Unused(v, n)
  PROVE  Accord(v.p, v.rows, q, n)
<1>1. Stored(v.rows, q, n) = {}
  BY StoredCharged DEF Unused, Charged
<1>2. Unique(v.rows, n)
  BY DEF Unused, RowsOf, Unique
<1> QED
  BY <1>1, <1>2 DEF Accord, Agree, Unused

\* The rows of a number after another or the same has been removed
LEMMA RemovedNumbers ==
  ASSUME NEW rows \in Seq(Row), NEW m, NEW n
  PROVE  /\ n = m => RowsOf(Removed(rows, m), n) = {}
         /\ n # m => RowsOf(Removed(rows, m), n) = RowsOf(rows, n)
         /\ Unique(rows, n) => Unique(Removed(rows, m), n)
         /\ \A i \in DOMAIN Removed(rows, m) : \E k \in DOMAIN rows : Removed(rows, m)[i] = rows[k]
<1> DEFINE r == Removed(rows, m)
           I == {i \in DOMAIN rows : rows[i].number # m}
<1>1. PICK from \in [DOMAIN r -> I] :
        /\ \A i \in DOMAIN r : r[i] = rows[from[i]]
        /\ \A i, j \in DOMAIN r : from[i] = from[j] => i = j
        /\ \A k \in DOMAIN rows : rows[k].number # m => \E i \in DOMAIN r : from[i] = k
  BY RemovedRows
<1> HIDE DEF r
<1>2. n = m => RowsOf(r, n) = {}
  BY <1>1 DEF RowsOf
<1>3. n # m => RowsOf(r, n) = RowsOf(rows, n)
  BY <1>1 DEF RowsOf
<1>4. Unique(rows, n) => Unique(r, n)
  BY <1>1 DEF Unique
<1>5. \A i \in DOMAIN r : \E k \in DOMAIN rows : r[i] = rows[k]
  BY <1>1
<1> QED
  BY <1>2, <1>3, <1>4, <1>5 DEF r

\* u is v after the item filed under n has been deleted.
Deleted(v, n, u) ==
  /\ n \in DOMAIN v.p.unworn
  /\ u.p.unworn = Restrict(v.p.unworn, DOMAIN v.p.unworn \ {n})
  /\ u.p.worn = v.p.worn /\ u.p.total = v.p.total
  /\ Steady(v, u) /\ u.p \in Player
  /\ u.rows = Removed(v.rows, n) /\ u.rows \in Seq(Row)

LEMMA DeleteFields ==
  ASSUME NEW v, v.p \in Player, v.rows \in Seq(Row), NEW n, Deletable(v, n)
  PROVE  Deleted(v, n, Delete(v, n))
<1> DEFINE u == Delete(v, n)
           U == Restrict(v.p.unworn, DOMAIN v.p.unworn \ {n})
<1>1. u.p = [v.p EXCEPT !.unworn = U] /\ u.rows = Removed(v.rows, n)
  BY DEF Delete
<1> HIDE DEF u
<1>2. U \in Files(Numbers)
  <2>1. v.p.unworn \in Files(Numbers)
    BY DEF Player
  <2> QED
    BY <2>1, RestrictFile
<1> HIDE DEF U
<1>3. /\ u.p \in Player /\ u.p.unworn = U /\ u.p.worn = v.p.worn /\ u.p.total = v.p.total
      /\ u.p.latest = v.p.latest /\ u.p.character = v.p.character /\ u.p.mp = v.p.mp
  BY <1>1, <1>2 DEF Player
<1>4. u.rows \in Seq(Row)
  BY <1>1, RemovedRows
<1>5. n \in DOMAIN v.p.unworn
  BY DEF Deletable
<1> QED
  BY <1>1, <1>3, <1>4, <1>5 DEF U, u, Deleted, Steady

LEMMA DeleteSound ==
  ASSUME NEW v, NEW q \in EnergyUpdate \cup {None}, NEW X, NEW h \in Nat, Sound(v, q, X, h),
         NEW m \in 1 .. MaxNumber
  PROVE  LET u == Delete(v, m) IN
         /\ Sound(u, q, X, h) /\ Steady(v, u)
         /\ Deletable(v, m) => Room(u.p) = Room(v.p) - 1
         /\ Deletable(v, m) /\ m \notin X => Unused(u, m)
<1>1. v.p \in Player /\ v.rows \in Seq(Row) /\ Filed(v.p, X) /\ Counted(v.p, h)
  BY DEF Sound
<1>2. CASE ~Deletable(v, m)
  BY <1>2 DEF Delete, Steady
<1>3. CASE Deletable(v, m)
  <2> DEFINE u == Delete(v, m)
  <2>1. Deleted(v, m, u)
    BY <1>1, <1>3, DeleteFields
  <2> HIDE DEF u
  <2>2. /\ DOMAIN u.p.unworn = DOMAIN v.p.unworn \ {m} /\ m \in DOMAIN v.p.unworn
        /\ \A k \in DOMAIN v.p.unworn \ {m} : u.p.unworn[k] = v.p.unworn[k]
        /\ u.p.worn = v.p.worn /\ u.p.total = v.p.total /\ u.p.latest = v.p.latest
        /\ u.rows = Removed(v.rows, m) /\ u.rows \in Seq(Row) /\ u.p \in Player
        /\ Steady(v, u)
    BY <2>1 DEF Deleted, Restrict, Steady
  <2>3. \A n : WornAs(u.p, n) = WornAs(v.p, n)
    BY <2>2 DEF WornAs
  <2>4. m \notin X => Unused(u, m)
    <3> SUFFICES ASSUME m \notin X
                 PROVE  Unused(u, m)
      OBVIOUS
    <3>1. WornAs(v.p, m) = {}
      BY <1>1, <2>2, UnwornOnce DEF Sound
    <3>2. RowsOf(u.rows, m) = {}
      BY <1>1, <2>2, RemovedNumbers
    <3> QED
      BY <2>2, <2>3, <3>1, <3>2 DEF Unused
  <2>5. ASSUME NEW n \in (1 .. MaxNumber) \ X
        PROVE  Accord(u.p, u.rows, q, n)
    <3>1. CASE n = m
      BY <2>2, <2>4, <3>1, UnusedAccord
    <3>2. CASE n # m
      <4>1. Accord(v.p, v.rows, q, n)
        BY DEF Sound
      <4>2. RowsOf(u.rows, n) = RowsOf(v.rows, n) /\ Unique(u.rows, n)
        BY <1>1, <2>2, <3>2, <4>1, RemovedNumbers DEF Accord
      <4>3. /\ n \in DOMAIN u.p.unworn <=> n \in DOMAIN v.p.unworn
            /\ n \in DOMAIN v.p.unworn => u.p.unworn[n] = v.p.unworn[n]
        BY <2>2, <3>2
      <4> QED
        BY <1>1, <2>2, <2>3, <4>1, <4>2, <4>3, AccordCarried
    <3> QED
      BY <3>1, <3>2
  <2>6. Filed(u.p, X)
    BY <1>1, <2>2 DEF Filed
  <2>7. \A i \in DOMAIN u.rows : u.rows[i].number \in 1 .. u.p.latest
    <3>1. \A i \in DOMAIN u.rows : \E k \in DOMAIN v.rows : u.rows[i] = v.rows[k]
      BY <1>1, <2>2, RemovedNumbers
    <3> QED
      BY <2>2, <3>1 DEF Sound
  <2>8. Counted(u.p, h)
    BY <1>1, <2>2 DEF Counted
  <2>9. Sound(u, q, X, h)
    BY <2>2, <2>5, <2>6, <2>7, <2>8 DEF Sound
  <2>10. Room(u.p) = Room(v.p) - 1
    <3>1. /\ v.p.total \in Nat
          /\ IsFiniteSet(DOMAIN v.p.unworn) /\ Cardinality(DOMAIN v.p.unworn) \in Nat
      BY <1>1, KeysFinite DEF Player
    <3>2. Cardinality(DOMAIN v.p.unworn \ {m}) = Cardinality(DOMAIN v.p.unworn) - 1
      BY <2>2, <3>1, FS_RemoveElement
    <3>3. Cardinality(DOMAIN u.p.unworn) = Cardinality(DOMAIN v.p.unworn) - 1
      BY <2>2, <3>2
    <3> QED
      BY <2>2, <3>1, <3>3 DEF Room
  <2> QED
    BY <1>3, <2>2, <2>4, <2>9, <2>10 DEF u
<1> QED
  BY <1>2, <1>3

\* Items that enter together: their numbers differ, and they can be stored.
Listed(items) ==
  /\ items \in Seq(Item)
  /\ \A i \in DOMAIN items : items[i].id \in Ids
  /\ \A i, j \in DOMAIN items : items[i].serial = items[j].serial => i = j

Serials(items) == {items[i].serial : i \in DOMAIN items}

\* The table after their rows have been added
Extended(rows, items) == rows \o [i \in DOMAIN items |-> AsRow(items[i])]

\* U is the inventory and R the table after the items have entered.
Joined(v, items, U, R) ==
  /\ DOMAIN U = DOMAIN v.p.unworn \cup Serials(items)
  /\ \A i \in DOMAIN items : U[items[i].serial] = items[i]
  /\ \A n \in DOMAIN v.p.unworn \ Serials(items) : U[n] = v.p.unworn[n]
  /\ R = Extended(v.rows, items)

LEMMA ItemRows ==
  ASSUME NEW items, Listed(items)
  PROVE  /\ [i \in DOMAIN items |-> AsRow(items[i])] \in Seq(Row)
         /\ Len([i \in DOMAIN items |-> AsRow(items[i])]) = Len(items)
<1> DEFINE r == [i \in DOMAIN items |-> AsRow(items[i])]
<1>1. /\ items \in Seq(Item) /\ Len(items) \in Nat /\ DOMAIN items = 1 .. Len(items)
      /\ \A i \in DOMAIN items : items[i] \in Item /\ items[i].id \in Ids
  BY DEF Listed
<1>2. \A item \in Item : item.id \in Ids => AsRow(item) \in Row
  BY DEF AsRow, Item, Row
<1>3. r \in [1 .. Len(items) -> Row]
  BY <1>1, <1>2
<1> QED
  BY <1>1, <1>3

LEMMA AddItemsFields ==
  ASSUME NEW v, v.p \in Player, v.rows \in Seq(Row), NEW items, Listed(items)
  PROVE  \E U \in Files(Numbers), R \in Seq(Row) :
           /\ AddItems(v, items) = [p |-> [v.p EXCEPT !.unworn = U], rows |-> R]
           /\ Joined(v, items, U, R)
<1> DEFINE named(n) == {i \in DOMAIN items : items[i].serial = n}
           f == v.p.unworn
           U == [n \in DOMAIN f \cup Serials(items) |->
                   IF named(n) # {} THEN items[CHOOSE i \in named(n) : TRUE] ELSE f[n]]
           R == Extended(v.rows, items)
<1>1. f \in Files(Numbers)
  BY DEF Player
<1>2. /\ \A i \in DOMAIN items : items[i] \in Item /\ items[i].serial \in Numbers
      /\ \A i, j \in DOMAIN items : items[i].serial = items[j].serial => i = j
  <2>1. \A i \in DOMAIN items : items[i] \in Item
    BY DEF Listed
  <2>2. \A item \in Item : item.serial \in Numbers
    BY DEF Item
  <2> QED
    BY <2>1, <2>2 DEF Listed
<1>3. AddItems(v, items) = [p |-> [v.p EXCEPT !.unworn = U], rows |-> R]
  BY DEF AddItems, Serials, Player, Extended
<1>4. R \in Seq(Row)
  BY ItemRows DEF Extended
<1> HIDE DEF f, R
<1>5. DOMAIN U = DOMAIN f \cup Serials(items)
  OBVIOUS
<1>6. ASSUME NEW i \in DOMAIN items
      PROVE  items[i].serial \in Serials(items) /\ U[items[i].serial] = items[i]
  <2>1. items[i].serial \in Serials(items)
    BY DEF Serials
  <2>2. i \in named(items[i].serial) /\ \A j \in named(items[i].serial) : j = i
    BY <1>2
  <2>3. (CHOOSE j \in named(items[i].serial) : TRUE) = i
    BY <2>2
  <2> HIDE DEF named
  <2> QED
    BY <2>1, <2>2, <2>3
<1>7. \A n \in DOMAIN f \ Serials(items) : U[n] = f[n]
  BY DEF Serials
<1> HIDE DEF U
<1>8. U \in Files(Numbers)
  <2>1. DOMAIN f \in SUBSET Numbers /\ f \in [DOMAIN f -> Item]
    BY <1>1, FilesType
  <2>2. Serials(items) \in SUBSET Numbers
    BY <1>2 DEF Serials
  <2>3. DOMAIN U \in SUBSET Numbers
    BY <1>5, <2>1, <2>2
  <2>4. \A n \in DOMAIN U : U[n] \in Item
    <3> SUFFICES ASSUME NEW n \in DOMAIN U
                 PROVE  U[n] \in Item
      OBVIOUS
    <3>1. CASE n \in Serials(items)
      <4>1. PICK i \in DOMAIN items : n = items[i].serial
        BY <3>1 DEF Serials
      <4> QED
        BY <1>2, <1>6, <4>1
    <3>2. CASE n \notin Serials(items)
      BY <1>5, <1>7, <2>1, <3>2
    <3> QED
      BY <3>1, <3>2
  <2>5. U = [n \in DOMAIN U |-> U[n]]
    BY DEF U
  <2>6. U \in [DOMAIN U -> Item]
    BY <2>4, <2>5
  <2> QED
    BY <2>3, <2>6, FilesType
<1>9. Joined(v, items, U, R)
  BY <1>5, <1>6, <1>7 DEF Joined, R, f
<1> QED
  BY <1>3, <1>4, <1>8, <1>9

\* Session::addItem is the same with one item.
LEMMA AddFields ==
  ASSUME NEW v, v.p \in Player, v.rows \in Seq(Row), NEW item \in Item, item.id \in Ids
  PROVE  /\ Listed(<<item>>) /\ Serials(<<item>>) = {item.serial}
         /\ \E U \in Files(Numbers), R \in Seq(Row) :
              /\ Add(v, item) = [p |-> [v.p EXCEPT !.unworn = U], rows |-> R]
              /\ Joined(v, <<item>>, U, R)
<1> DEFINE U == Put(v.p.unworn, item.serial, item)
           R == Inserted(v.rows, item)
<1>1. Listed(<<item>>) /\ Serials(<<item>>) = {item.serial}
  BY DEF Listed, Serials
<1>2. Add(v, item) = [p |-> [v.p EXCEPT !.unworn = U], rows |-> R]
  BY DEF Add, Hold
<1>3. v.p.unworn \in Files(Numbers) /\ item.serial \in Numbers
  BY DEF Player, Item
<1>4. /\ U \in Files(Numbers)
      /\ DOMAIN U = DOMAIN v.p.unworn \cup {item.serial}
      /\ U[item.serial] = item
      /\ \A j \in DOMAIN v.p.unworn \ {item.serial} : U[j] = v.p.unworn[j]
  <2>1. U \in Files(Numbers)
    BY <1>3, PutFile
  <2> QED
    BY <2>1 DEF Put
<1>5. R \in Seq(Row) /\ R = v.rows \o <<AsRow(item)>>
  <2>1. R \in Seq(Row)
    BY InsertedRows
  <2>2. AsRow(item) \in Row
    BY DEF AsRow, Item, Row
  <2> QED
    BY <2>1, <2>2, AppendIsConcat DEF Inserted
<1> HIDE DEF U, R
<1>6. [i \in DOMAIN <<item>> |-> AsRow(<<item>>[i])] = <<AsRow(item)>>
  OBVIOUS
<1>7. Joined(v, <<item>>, U, R)
  BY <1>1, <1>4, <1>5, <1>6 DEF Joined, Extended
<1> QED
  BY <1>1, <1>2, <1>4, <1>5, <1>7

\* In r the rows of the items come after the others.
Behind(r, rows, items) ==
  /\ \A k \in DOMAIN rows : k \in DOMAIN r /\ r[k] = rows[k]
  /\ \A i \in DOMAIN items : Len(rows) + i \in DOMAIN r /\ r[Len(rows) + i] = AsRow(items[i])
  /\ \A j \in DOMAIN r : j \in DOMAIN rows \/ \E i \in DOMAIN items : j = Len(rows) + i

LEMMA ExtendedRows ==
  ASSUME NEW rows \in Seq(Row), NEW items, Listed(items)
  PROVE  /\ Extended(rows, items) \in Seq(Row)
         /\ Len(Extended(rows, items)) = Len(rows) + Len(items)
         /\ Behind(Extended(rows, items), rows, items)
<1> DEFINE a == [i \in DOMAIN items |-> AsRow(items[i])]
           r == rows \o a
<1>1. /\ a \in Seq(Row) /\ Len(a) = Len(items) /\ Len(items) \in Nat /\ Len(rows) \in Nat
      /\ DOMAIN items = 1 .. Len(items) /\ DOMAIN rows = 1 .. Len(rows)
  BY ItemRows DEF Listed
<1>2. \A i \in DOMAIN items : a[i] = AsRow(items[i])
  OBVIOUS
<1> HIDE DEF a
<1>3. /\ r \in Seq(Row) /\ Len(r) = Len(rows) + Len(items)
      /\ DOMAIN r = 1 .. Len(rows) + Len(items)
      /\ \A i \in 1 .. Len(rows) : r[i] = rows[i]
      /\ \A i \in 1 .. Len(items) : r[Len(rows) + i] = a[i]
  BY <1>1
<1>4. Extended(rows, items) = r
  BY DEF Extended, a
<1> HIDE DEF r
<1>5. ASSUME NEW j \in DOMAIN r, j \notin DOMAIN rows
      PROVE  \E i \in DOMAIN items : j = Len(rows) + i
  <2>1. j - Len(rows) \in DOMAIN items /\ j = Len(rows) + (j - Len(rows))
    BY <1>1, <1>3, <1>5
  <2> QED
    BY <2>1
<1>6. \A i \in DOMAIN items : Len(rows) + i \in DOMAIN r /\ r[Len(rows) + i] = AsRow(items[i])
  BY <1>1, <1>2, <1>3
<1>7. \A k \in DOMAIN rows : k \in DOMAIN r /\ r[k] = rows[k]
  BY <1>1, <1>3
<1>8. Behind(r, rows, items)
  BY <1>5, <1>6, <1>7 DEF Behind
<1> QED
  BY <1>3, <1>4, <1>8

\* The rows of a number that none of them has
LEMMA ExtendedOther ==
  ASSUME NEW rows \in Seq(Row), NEW items, Listed(items), NEW n, n \notin Serials(items)
  PROVE  /\ RowsOf(Extended(rows, items), n) = RowsOf(rows, n)
         /\ Unique(rows, n) => Unique(Extended(rows, items), n)
<1> DEFINE r == Extended(rows, items)
<1>1. /\ \A k \in DOMAIN rows : k \in DOMAIN r /\ r[k] = rows[k]
      /\ \A i \in DOMAIN items : r[Len(rows) + i] = AsRow(items[i])
      /\ \A j \in DOMAIN r : j \in DOMAIN rows \/ \E i \in DOMAIN items : j = Len(rows) + i
  BY ExtendedRows DEF Behind
<1> HIDE DEF r
<1>2. \A i \in DOMAIN items : AsRow(items[i]).number # n
  BY DEF Serials, AsRow
<1>3. \A j \in DOMAIN r : r[j].number = n => j \in DOMAIN rows /\ r[j] = rows[j]
  BY <1>1, <1>2
<1>4. RowsOf(r, n) = RowsOf(rows, n)
  BY <1>1, <1>3 DEF RowsOf
<1>5. Unique(rows, n) => Unique(r, n)
  BY <1>3 DEF Unique
<1> QED
  BY <1>4, <1>5 DEF r

\* and those of a number that one of them has, and no row before
LEMMA ExtendedNew ==
  ASSUME NEW rows \in Seq(Row), NEW items, Listed(items), NEW i \in DOMAIN items,
         RowsOf(rows, items[i].serial) = {}
  PROVE  /\ RowsOf(Extended(rows, items), items[i].serial) = {AsRow(items[i])}
         /\ Unique(Extended(rows, items), items[i].serial)
<1> DEFINE r == Extended(rows, items)
           n == items[i].serial
<1>1. /\ \A k \in DOMAIN rows : k \in DOMAIN r /\ r[k] = rows[k]
      /\ \A k \in DOMAIN items :
           Len(rows) + k \in DOMAIN r /\ r[Len(rows) + k] = AsRow(items[k])
      /\ \A j \in DOMAIN r : j \in DOMAIN rows \/ \E k \in DOMAIN items : j = Len(rows) + k
  BY ExtendedRows DEF Behind
<1>2. \A k \in DOMAIN items : AsRow(items[k]).number = items[k].serial
  BY DEF AsRow
<1>3. \A k \in DOMAIN items : items[k].serial = n => k = i
  BY DEF Listed
<1>4. \A j \in DOMAIN rows : rows[j].number # n
  BY DEF RowsOf
<1> HIDE DEF r, n
<1>5. \A j \in DOMAIN r : r[j].number = n => j = Len(rows) + i /\ r[j] = AsRow(items[i])
  BY <1>1, <1>2, <1>3, <1>4
<1>6. r[Len(rows) + i].number = n /\ Len(rows) + i \in DOMAIN r
      /\ r[Len(rows) + i] = AsRow(items[i])
  BY <1>1, <1>2 DEF n
<1>7. RowsOf(r, n) = {AsRow(items[i])} /\ Unique(r, n)
  BY <1>5, <1>6 DEF RowsOf, Unique
<1> QED
  BY <1>7 DEF r, n

\* New numbers, or numbers that have become unused and have no update in the queue, are sound;
\* of the others nothing is asked.
LEMMA JoinedSound ==
  ASSUME NEW v, NEW q \in EnergyUpdate \cup {None}, NEW X, NEW h \in Nat, Sound(v, q, X, h),
         NEW items, Listed(items),
         NEW u, u.p \in Player, u.rows \in Seq(Row), Joined(v, items, u.p.unworn, u.rows),
         u.p.worn = v.p.worn, u.p.total = v.p.total, v.p.latest <= u.p.latest,
         \A n \in Serials(items) :
           /\ n \in 1 .. u.p.latest
           /\ n \notin X => Unused(v, n) /\ ~(q # None /\ q.number = n)
  PROVE  Sound(u, q, X, h)
<1>1. v.p \in Player /\ v.rows \in Seq(Row) /\ Filed(v.p, X) /\ Counted(v.p, h)
  BY DEF Sound
<1>2. /\ DOMAIN u.p.unworn = DOMAIN v.p.unworn \cup Serials(items)
      /\ \A i \in DOMAIN items : u.p.unworn[items[i].serial] = items[i]
      /\ \A n \in DOMAIN v.p.unworn \ Serials(items) : u.p.unworn[n] = v.p.unworn[n]
      /\ u.rows = Extended(v.rows, items)
  BY DEF Joined
<1>3. \A n : WornAs(u.p, n) = WornAs(v.p, n)
  BY DEF WornAs
<1>4. /\ v.p.latest \in Nat /\ u.p.latest \in Nat
      /\ \A i \in DOMAIN items : items[i].serial \in Serials(items) /\ items[i].id \in Ids
      /\ \A n \in Serials(items) : \E i \in DOMAIN items : n = items[i].serial
  BY <1>1 DEF Player, Numbers, Serials, Listed
<1>5. ASSUME NEW n \in (1 .. MaxNumber) \ X
      PROVE  Accord(u.p, u.rows, q, n)
  <2>1. CASE n \in Serials(items)
    <3>1. PICK i \in DOMAIN items : n = items[i].serial
      BY <1>4, <2>1
    <3>2. Unused(v, n) /\ ~(q # None /\ q.number = n)
      BY <2>1
    <3>3. RowsOf(u.rows, n) = {AsRow(items[i])} /\ Unique(u.rows, n)
      <4>1. RowsOf(v.rows, items[i].serial) = {}
        BY <3>1, <3>2 DEF Unused
      <4>2. /\ RowsOf(Extended(v.rows, items), items[i].serial) = {AsRow(items[i])}
            /\ Unique(Extended(v.rows, items), items[i].serial)
        BY <1>1, <4>1, ExtendedNew
      <4> QED
        BY <1>2, <3>1, <4>2
    <3>4. Stored(u.rows, q, n) = {AsRow(items[i])}
      BY <3>2, <3>3, StoredCharged DEF Charged
    <3>5. Shown({AsRow(items[i])}, 0, items[i])
      <4>1. items[i] \in Item /\ items[i].id \in Ids
        BY DEF Listed
      <4>2. AsRow(items[i]) \in Row /\ AsRow(items[i]).place = 0
        BY <4>1 DEF AsRow, Item, Row
      <4>3. Same(AsRow(items[i]), items[i])
        BY DEF AsRow, Same
      <4> QED
        BY <4>2, <4>3 DEF Shown
    <3>6. n \in DOMAIN u.p.unworn /\ u.p.unworn[n] = items[i] /\ WornAs(u.p, n) = {}
      BY <1>2, <1>3, <2>1, <3>1, <3>2 DEF Unused
    <3>7. Agree(u.p, Stored(u.rows, q, n), n)
      BY <3>4, <3>5, <3>6, AgreeUnworn
    <3> QED
      BY <3>3, <3>7 DEF Accord
  <2>2. CASE n \notin Serials(items)
    <3>1. Accord(v.p, v.rows, q, n)
      BY DEF Sound
    <3>2. RowsOf(u.rows, n) = RowsOf(v.rows, n) /\ Unique(u.rows, n)
      BY <1>1, <1>2, <2>2, <3>1, ExtendedOther DEF Accord
    <3>3. /\ n \in DOMAIN u.p.unworn <=> n \in DOMAIN v.p.unworn
          /\ n \in DOMAIN v.p.unworn => u.p.unworn[n] = v.p.unworn[n]
      BY <1>2, <2>2
    <3> QED
      BY <1>1, <1>3, <3>1, <3>2, <3>3, AccordCarried
  <2> QED
    BY <2>1, <2>2
<1>6. Filed(u.p, X)
  <2>1. ASSUME NEW n \in DOMAIN u.p.unworn
        PROVE  /\ n <= u.p.latest
               /\ u.p.unworn[n].serial \in {0, n}
               /\ n \notin X => u.p.unworn[n].serial = n
               /\ u.p.unworn[n].serial # 0 => u.p.unworn[n].id \in Ids
    <3>1. CASE n \in Serials(items)
      <4>1. PICK i \in DOMAIN items : n = items[i].serial
        BY <1>4, <3>1
      <4>2. u.p.unworn[n] = items[i] /\ n \in 1 .. u.p.latest
        BY <1>2, <3>1, <4>1
      <4> QED
        BY <1>4, <4>1, <4>2
    <3>2. CASE n \notin Serials(items)
      <4>1. n \in DOMAIN v.p.unworn /\ u.p.unworn[n] = v.p.unworn[n]
        BY <1>2, <3>2
      <4>2. n \in Nat
        <5>1. v.p.unworn \in Files(Numbers)
          BY <1>1 DEF Player
        <5> QED
          BY <4>1, <5>1, FileItems DEF Numbers
      <4> QED
        BY <1>1, <1>4, <4>1, <4>2 DEF Filed
    <3> QED
      BY <3>1, <3>2
  <2>2. ASSUME NEW w \in DOMAIN u.p.worn
        PROVE  /\ u.p.worn[w].serial <= u.p.latest
               /\ Slot(u.p.worn[w].id) = w[2]
               /\ u.p.worn[w].serial # 0 => u.p.worn[w].id \in Ids
    <3>1. v.p.worn[w].serial \in Nat
      <4>1. v.p.worn \in Files(Characters \X Slots)
        BY <1>1 DEF Player
      <4> QED
        BY <4>1, FileItems DEF Item, Numbers
    <3> QED
      BY <1>1, <1>4, <3>1 DEF Filed
  <2> QED
    BY <2>1, <2>2 DEF Filed
<1>7. \A i \in DOMAIN u.rows : u.rows[i].number \in 1 .. u.p.latest
  <2> SUFFICES ASSUME NEW i \in DOMAIN u.rows
               PROVE  u.rows[i].number \in 1 .. u.p.latest
    OBVIOUS
  <2>1. \/ \E k \in DOMAIN v.rows : u.rows[i] = v.rows[k]
        \/ \E k \in DOMAIN items : u.rows[i] = AsRow(items[k])
    <3>1. Behind(u.rows, v.rows, items)
      BY <1>1, <1>2, ExtendedRows
    <3> QED
      BY <3>1 DEF Behind
  <2>2. CASE \E k \in DOMAIN v.rows : u.rows[i] = v.rows[k]
    BY <1>4, <2>2 DEF Sound
  <2>3. CASE \E k \in DOMAIN items : u.rows[i] = AsRow(items[k])
    BY <1>4, <2>3 DEF AsRow
  <2> QED
    BY <2>1, <2>2, <2>3
<1>8. Counted(u.p, h)
  BY <1>1 DEF Counted
<1> QED
  BY <1>5, <1>6, <1>7, <1>8 DEF Sound

LEMMA JoinedRoom ==
  ASSUME NEW v, v.p \in Player, NEW items, Listed(items),
         NEW p \in Player, NEW R, Joined(v, items, p.unworn, R), p.total = v.p.total
  PROVE  Room(p) <= Room(v.p) + Len(items)
<1> DEFINE D == DOMAIN v.p.unworn
           N == Serials(items)
<1>1. DOMAIN p.unworn = D \cup N
  BY DEF Joined
<1>2. v.p.total \in Nat /\ IsFiniteSet(D) /\ Cardinality(D) \in Nat
  BY KeysFinite DEF Player
<1>3. DOMAIN items = 1 .. Len(items) /\ Len(items) \in Nat
  BY DEF Listed
<1>4. IsFiniteSet(DOMAIN items) /\ Cardinality(DOMAIN items) = Len(items)
  <2>1. \A m \in Nat : IsFiniteSet(1 .. m) /\ Cardinality(1 .. m) = m
    BY FS_Interval
  <2> QED
    BY <1>3, <2>1
<1>5. IsFiniteSet(N) /\ Cardinality(N) <= Len(items) /\ Cardinality(N) \in Nat
  <2> DEFINE g == [i \in DOMAIN items |-> items[i].serial]
  <2>1. g \in Surjection(DOMAIN items, N)
    BY DEF Surjection, Serials
  <2> HIDE DEF g, N
  <2> QED
    BY <1>4, <2>1, FS_Surjection, FS_CardinalityType
<1> HIDE DEF D, N
<1>6. Cardinality(D \cup N) <= Cardinality(D) + Cardinality(N) /\ Cardinality(D \cup N) \in Nat
  <2>1. IsFiniteSet(D \cup N) /\ IsFiniteSet(D \cap N)
    BY <1>2, <1>5, FS_Union, FS_Intersection
  <2>2. Cardinality(D \cup N) = Cardinality(D) + Cardinality(N) - Cardinality(D \cap N)
    BY <1>2, <1>5, FS_Union
  <2> QED
    BY <1>2, <1>5, <2>1, <2>2, FS_CardinalityType
<1>7. Cardinality(DOMAIN p.unworn) <= Cardinality(D) + Len(items)
  BY <1>1, <1>2, <1>3, <1>5, <1>6
<1>8. Room(v.p) = v.p.total + Cardinality(D) /\ Room(p) = v.p.total + Cardinality(DOMAIN p.unworn)
  BY DEF Room, D
<1>9. Cardinality(DOMAIN p.unworn) \in Nat
  BY <1>1, <1>6
<1> QED
  BY <1>2, <1>3, <1>7, <1>8, <1>9

\* What is sound does not depend on the balance, the battery, the luck or the character.
LEMMA SoundElsewhere ==
  ASSUME NEW v, NEW q, NEW X, NEW h, Sound(v, q, X, h),
         NEW u, u.p \in Player, u.rows = v.rows,
         u.p.unworn = v.p.unworn, u.p.worn = v.p.worn, u.p.total = v.p.total,
         u.p.latest = v.p.latest
  PROVE  Sound(u, q, X, h) /\ Room(u.p) = Room(v.p)
<1>1. Filed(u.p, X) /\ Counted(u.p, h) /\ Room(u.p) = Room(v.p)
  BY DEF Sound, Filed, Counted, Room
<1>2. \A n : WornAs(u.p, n) = WornAs(v.p, n)
  BY DEF WornAs
<1>3. ASSUME NEW n \in (1 .. MaxNumber) \ X
      PROVE  Accord(u.p, u.rows, q, n)
  BY <1>2, AgreementCarried DEF Sound, Accord
<1> QED
  BY <1>1, <1>3 DEF Sound

\* More numbers may be excused.
LEMMA SoundExcused ==
  ASSUME NEW v, NEW q, NEW X, NEW h, Sound(v, q, X, h), NEW Y, X \subseteq Y
  PROVE  Sound(v, q, Y, h)
BY DEF Sound, Filed

----------------------------------------------------------------------------
(* Items that are renewed or filled with energy *)

\* In o the item filed under k is x instead, and in the second, the item worn as w.
UnwornChanged(p, o, k, x) ==
  /\ k \in DOMAIN p.unworn /\ x \in Item /\ o \in Player
  /\ o.unworn = [p.unworn EXCEPT ![k] = x] /\ o.worn = p.worn
  /\ o.total = p.total /\ o.latest = p.latest /\ o.character = p.character /\ o.mp = p.mp
WornChanged(p, o, w, x) ==
  /\ w \in DOMAIN p.worn /\ x \in Item /\ o \in Player
  /\ o.worn = [p.worn EXCEPT ![w] = x] /\ o.unworn = p.unworn
  /\ o.total = p.total /\ o.latest = p.latest /\ o.character = p.character /\ o.mp = p.mp

LEMMA UnwornChange ==
  ASSUME NEW p \in Player, NEW k \in DOMAIN p.unworn, NEW x \in Item, NEW b \in Nat
  PROVE  UnwornChanged(p, [p EXCEPT !.unworn = [@ EXCEPT ![k] = x], !.battery = b], k, x)
<1> DEFINE U == [p.unworn EXCEPT ![k] = x]
           o == [p EXCEPT !.unworn = U, !.battery = b]
<1>1. p.unworn \in Files(Numbers)
  BY DEF Player
<1>2. U \in Files(Numbers)
  BY <1>1, ExchangeFile
<1> HIDE DEF U
<1>3. /\ o \in Player /\ o.unworn = U /\ o.worn = p.worn
      /\ o.total = p.total /\ o.latest = p.latest /\ o.character = p.character /\ o.mp = p.mp
  BY <1>2 DEF Player
<1>4. o = [p EXCEPT !.unworn = [@ EXCEPT ![k] = x], !.battery = b]
  BY DEF U, Player
<1> HIDE DEF o
<1>5. UnwornChanged(p, o, k, x)
  BY <1>3 DEF UnwornChanged, U
<1> QED
  BY <1>4, <1>5

LEMMA WornChange ==
  ASSUME NEW p \in Player, NEW w \in DOMAIN p.worn, NEW x \in Item, NEW b \in Nat
  PROVE  WornChanged(p, [p EXCEPT !.worn = [@ EXCEPT ![w] = x], !.battery = b], w, x)
<1> DEFINE W == [p.worn EXCEPT ![w] = x]
           o == [p EXCEPT !.worn = W, !.battery = b]
<1>1. p.worn \in Files(Characters \X Slots)
  BY DEF Player
<1>2. W \in Files(Characters \X Slots)
  BY <1>1, ExchangeFile
<1> HIDE DEF W
<1>3. /\ o \in Player /\ o.worn = W /\ o.unworn = p.unworn
      /\ o.total = p.total /\ o.latest = p.latest /\ o.character = p.character /\ o.mp = p.mp
  BY <1>2 DEF Player
<1>4. o = [p EXCEPT !.worn = [@ EXCEPT ![w] = x], !.battery = b]
  BY DEF W, Player
<1> HIDE DEF o
<1>5. WornChanged(p, o, w, x)
  BY <1>3 DEF WornChanged, W
<1> QED
  BY <1>4, <1>5

\* What a renewal leaves of an item's fields, and what filling it with energy leaves
Renewal(item, x) == x.id = item.id /\ x.serial = 0
Filling(item, x) ==
  /\ x.id = item.id /\ x.level = item.level /\ x.serial = item.serial /\ x.fresh = item.fresh
  /\ x.energy = item.energy + 1

LEMMA ReplacedFields ==
  ASSUME player \in Player, NEW n, Held(n)
  PROVE  \/ \E x : UnwornChanged(player, Replaced(n), n, x) /\ Renewal(player.unworn[n], x)
         \/ \E w \in WornHere(n) : \E x :
              /\ n \notin DOMAIN player.unworn
              /\ WornChanged(player, Replaced(n), w, x) /\ Renewal(player.worn[w], x)
<1>1. /\ player.unworn \in Files(Numbers) /\ player.worn \in Files(Characters \X Slots)
      /\ player.battery \in Nat
  BY DEF Player
<1>2. ASSUME NEW item \in Item
      PROVE  [item EXCEPT !.serial = 0] \in Item /\ Renewal(item, [item EXCEPT !.serial = 0])
  <2>1. 0 \in Numbers
    BY ConstantsAssumption DEF Numbers
  <2> QED
    BY <2>1 DEF Item, Renewal
<1>3. CASE n \in DOMAIN player.unworn
  <2> DEFINE x == [player.unworn[n] EXCEPT !.serial = 0]
             o == [player EXCEPT !.unworn = [@ EXCEPT ![n] = x], !.battery = player.battery]
  <2>1. x \in Item /\ Renewal(player.unworn[n], x)
    BY <1>1, <1>2, <1>3, FileItems
  <2>2. Replaced(n) = o
    BY <1>3 DEF Replaced, Player
  <2> HIDE DEF x
  <2>3. UnwornChanged(player, o, n, x)
    BY <1>1, <1>3, <2>1, UnwornChange
  <2> HIDE DEF o
  <2> QED
    BY <2>1, <2>2, <2>3
<1>4. CASE n \notin DOMAIN player.unworn
  <2> DEFINE w == CHOOSE z \in WornHere(n) : TRUE
             x == [player.worn[w] EXCEPT !.serial = 0]
             o == [player EXCEPT !.worn = [@ EXCEPT ![w] = x], !.battery = player.battery]
  <2>1. Replaced(n) = [player EXCEPT !.worn[w].serial = 0]
    BY <1>4 DEF Replaced
  <2>2. w \in WornHere(n)
    BY <1>4 DEF Held, Deletable, Now
  <2> HIDE DEF w
  <2>6. Replaced(n) = o
    BY <2>1 DEF Player
  <2>3. w \in DOMAIN player.worn
    BY <2>2 DEF WornHere
  <2>4. x \in Item /\ Renewal(player.worn[w], x)
    BY <1>1, <1>2, <2>3, FileItems
  <2> HIDE DEF x
  <2>5. WornChanged(player, o, w, x)
    BY <1>1, <2>3, <2>4, WornChange
  <2> HIDE DEF o
  <2> QED
    BY <1>4, <2>2, <2>4, <2>5, <2>6
<1> QED
  BY <1>3, <1>4

LEMMA EnergyFields ==
  ASSUME player \in Player, player.battery >= 1, NEW n, Held(n)
  PROVE  \/ \E x : /\ UnwornChanged(player, EnergyAdded(n), n, x) /\ Filling(player.unworn[n], x)
                   /\ Find(n) = player.unworn[n]
         \/ \E w \in WornHere(n) : \E x :
              /\ WornChanged(player, EnergyAdded(n), w, x) /\ Filling(player.worn[w], x)
              /\ Find(n) = player.worn[w]
<1> DEFINE b == player.battery - 1
<1>1. /\ player.unworn \in Files(Numbers) /\ player.worn \in Files(Characters \X Slots)
      /\ b \in Nat
  BY DEF Player
<1>2. ASSUME NEW item \in Item
      PROVE  /\ [item EXCEPT !.energy = @ + 1] \in Item
             /\ Filling(item, [item EXCEPT !.energy = @ + 1])
  BY DEF Item, Filling
<1>3. CASE Deletable(Now, n)
  <2> DEFINE x == [player.unworn[n] EXCEPT !.energy = @ + 1]
             o == [player EXCEPT !.unworn = [@ EXCEPT ![n] = x], !.battery = b]
  <2>1. n \in DOMAIN player.unworn
    BY <1>3 DEF Deletable, Now
  <2>2. x \in Item /\ Filling(player.unworn[n], x)
    BY <1>1, <1>2, <2>1, FileItems
  <2>3. EnergyAdded(n) = o
    BY <1>3 DEF EnergyAdded, Player
  <2> HIDE DEF x, b
  <2>4. UnwornChanged(player, o, n, x)
    BY <1>1, <2>1, <2>2, UnwornChange
  <2> HIDE DEF o
  <2>5. Find(n) = player.unworn[n]
    BY <1>3 DEF Find
  <2> QED
    BY <2>2, <2>3, <2>4, <2>5
<1>4. CASE ~Deletable(Now, n)
  <2> DEFINE w == CHOOSE z \in WornHere(n) : TRUE
             x == [player.worn[w] EXCEPT !.energy = @ + 1]
             o == [player EXCEPT !.worn = [@ EXCEPT ![w] = x], !.battery = b]
  <2>1. /\ EnergyAdded(n) = [[player EXCEPT !.battery = @ - 1] EXCEPT !.worn[w].energy = @ + 1]
        /\ Find(n) = player.worn[w]
    BY <1>4 DEF EnergyAdded, Find
  <2>2. w \in WornHere(n)
    BY <1>4 DEF Held
  <2> HIDE DEF w
  <2>6. EnergyAdded(n) = o
    BY <2>1 DEF Player
  <2>3. w \in DOMAIN player.worn
    BY <2>2 DEF WornHere
  <2>4. x \in Item /\ Filling(player.worn[w], x)
    BY <1>1, <1>2, <2>3, FileItems
  <2> HIDE DEF x, b
  <2>5. WornChanged(player, o, w, x)
    BY <1>1, <2>3, <2>4, WornChange
  <2> HIDE DEF o
  <2> QED
    BY <2>1, <2>2, <2>4, <2>5, <2>6
<1> QED
  BY <1>3, <1>4

\* The rows of the numbers that are not renewed
LEMMA RenewedNumbers ==
  ASSUME NEW rows \in Seq(Row), NEW m, NEW n, n # m
  PROVE  /\ RowsOf(Renewed(rows, m), n) = RowsOf(rows, n)
         /\ Unique(rows, n) => Unique(Renewed(rows, m), n)
<1> DEFINE r == Renewed(rows, m)
<1>1. /\ DOMAIN r = DOMAIN rows
      /\ \A i \in DOMAIN rows :
           r[i] = IF rows[i].number = m THEN [rows[i] EXCEPT !.fresh = TRUE] ELSE rows[i]
  BY RenewedRows
<1> HIDE DEF r
<1>2. ASSUME NEW i \in DOMAIN rows
      PROVE  /\ r[i].number = rows[i].number
             /\ rows[i].number # m => r[i] = rows[i]
  <2>1. rows[i] \in Row
    OBVIOUS
  <2> QED
    BY <1>1, <2>1 DEF Row
<1>3. RowsOf(r, n) = RowsOf(rows, n)
  BY <1>1, <1>2 DEF RowsOf
<1>4. Unique(rows, n) => Unique(r, n)
  BY <1>1, <1>2 DEF Unique
<1> QED
  BY <1>3, <1>4 DEF r

\* Session::replaceItem: the number is excused from now on, as the item has lost it.
LEMMA ReplaceSound ==
  ASSUME NEW q \in EnergyUpdate \cup {None}, NEW X, NEW h \in Nat, Sound(Now, q, X, h),
         NEW m \in 1 .. MaxNumber, Held(m)
  PROVE  LET u == ReplaceItem(m) IN
         /\ Sound(u, q, X \cup {m}, h) /\ Steady(Now, u) /\ Room(u.p) = Room(player)
<1> DEFINE u == ReplaceItem(m)
           Y == X \cup {m}
<1>1. player \in Player /\ table \in Seq(Row) /\ Filed(player, X) /\ Counted(player, h)
  BY DEF Sound, Now
<1>2. u.p = Replaced(m) /\ u.rows = Renewed(table, m)
  BY DEF ReplaceItem
<1>3. /\ player.unworn \in Files(Numbers) /\ player.worn \in Files(Characters \X Slots)
      /\ player.latest \in Nat /\ m # 0
  BY <1>1 DEF Player, Numbers
<1> HIDE DEF u
<1>4. /\ u.rows \in Seq(Row) /\ DOMAIN u.rows = DOMAIN table
      /\ \A i \in DOMAIN table : u.rows[i].number = table[i].number
  <2>1. /\ u.rows \in Seq(Row) /\ DOMAIN u.rows = DOMAIN table
        /\ \A i \in DOMAIN table :
             u.rows[i] = IF table[i].number = m THEN [table[i] EXCEPT !.fresh = TRUE] ELSE table[i]
    BY <1>1, <1>2, RenewedRows
  <2>2. \A i \in DOMAIN table : table[i] \in Row
    BY <1>1
  <2> QED
    BY <2>1, <2>2 DEF Row
<1>5. \A i \in DOMAIN u.rows : u.rows[i].number \in 1 .. player.latest
  BY <1>4 DEF Sound, Now
<1>6. ASSUME NEW n \in (1 .. MaxNumber) \ Y
      PROVE  /\ n \notin X /\ n # m /\ n # 0
             /\ Accord(player, table, q, n)
             /\ RowsOf(u.rows, n) = RowsOf(table, n) /\ Unique(u.rows, n)
  <2>1. Accord(player, table, q, n) /\ n # m
    BY DEF Sound, Now
  <2> QED
    BY <1>1, <1>2, <2>1, RenewedNumbers DEF Accord
<1>7. CASE \E x : UnwornChanged(player, Replaced(m), m, x) /\ Renewal(player.unworn[m], x)
  <2>1. PICK x : UnwornChanged(player, u.p, m, x) /\ Renewal(player.unworn[m], x)
    BY <1>2, <1>7
  <2>2. /\ m \in DOMAIN player.unworn
        /\ DOMAIN u.p.unworn = DOMAIN player.unworn /\ u.p.unworn[m] = x
        /\ \A k \in DOMAIN player.unworn \ {m} : u.p.unworn[k] = player.unworn[k]
        /\ u.p.worn = player.worn
    BY <1>3, <2>1, FilesType DEF UnwornChanged
  <2>3. u.p \in Player /\ u.p.total = player.total /\ u.p.latest = player.latest /\ Steady(Now, u)
    BY <2>1 DEF UnwornChanged, Steady, Now
  <2>4. \A n : WornAs(u.p, n) = WornAs(player, n)
    BY <2>2 DEF WornAs
  <2>5. \A n \in (1 .. MaxNumber) \ Y : Accord(u.p, u.rows, q, n)
    BY <1>1, <1>4, <1>6, <2>2, <2>4, AccordCarried
  <2>6. x.serial = 0
    BY <2>1 DEF Renewal
  <2>7. Filed(u.p, Y)
    BY <1>1, <2>2, <2>3, <2>6 DEF Filed
  <2>8. Counted(u.p, h) /\ Room(u.p) = Room(player)
    BY <1>1, <2>2, <2>3 DEF Counted, Room
  <2>9. Sound(u, q, Y, h)
    BY <1>4, <1>5, <2>3, <2>5, <2>7, <2>8 DEF Sound
  <2> QED
    BY <2>3, <2>8, <2>9 DEF u
<1>8. CASE \E w \in WornHere(m) : \E x :
             WornChanged(player, Replaced(m), w, x) /\ Renewal(player.worn[w], x)
  <2>1. PICK w, x : /\ w \in WornHere(m)
                    /\ WornChanged(player, u.p, w, x) /\ Renewal(player.worn[w], x)
    BY <1>2, <1>8
  <2>2. /\ w \in DOMAIN player.worn /\ player.worn[w].serial = m
        /\ DOMAIN u.p.worn = DOMAIN player.worn /\ u.p.worn[w] = x
        /\ \A z \in DOMAIN player.worn \ {w} : u.p.worn[z] = player.worn[z]
        /\ u.p.unworn = player.unworn
    BY <1>3, <2>1, FilesType DEF WornChanged, WornHere
  <2>3. u.p \in Player /\ u.p.total = player.total /\ u.p.latest = player.latest /\ Steady(Now, u)
    BY <2>1 DEF WornChanged, Steady, Now
  <2>4. x.serial = 0 /\ x.id = player.worn[w].id
    BY <2>1 DEF Renewal
  <2>5. ASSUME NEW n \in (1 .. MaxNumber) \ Y
        PROVE  /\ WornAs(u.p, n) = WornAs(player, n)
               /\ \A z \in WornAs(player, n) : u.p.worn[z] = player.worn[z]
    BY <1>6, <2>2, <2>4 DEF WornAs
  <2>6. \A n \in (1 .. MaxNumber) \ Y : Accord(u.p, u.rows, q, n)
    BY <1>1, <1>4, <1>6, <2>2, <2>5, AccordCarried
  <2>7. Filed(u.p, Y)
    BY <1>1, <1>3, <2>2, <2>3, <2>4 DEF Filed
  <2>8. Counted(u.p, h) /\ Room(u.p) = Room(player)
    BY <1>1, <2>2, <2>3 DEF Counted, Room
  <2>9. Sound(u, q, Y, h)
    BY <1>4, <1>5, <2>3, <2>6, <2>7, <2>8 DEF Sound
  <2> QED
    BY <2>3, <2>8, <2>9 DEF u
<1> QED
  BY <1>1, <1>7, <1>8, ReplacedFields

\* The rows R of a number, the update of whose energy has been queued
LEMMA ChargedSame ==
  ASSUME NEW R \in SUBSET Row, NEW S, NEW q, NEW n, S = Charged(R, q, n),
         NEW item, NEW c, Shown(S, c, item), NEW x, Filling(item, x),
         NEW t \in EnergyUpdate, t # None, t.number = n, t.energy = x.energy
  PROVE  Shown(Charged(R, t, n), c, x)
<1> DEFINE g(r, e) == [r EXCEPT !.energy = e]
<1>1. \A r \in R : \A e :
        /\ e \in Nat => g(r, e) \in Row
        /\ g(r, e).place = r.place /\ g(r, e).id = r.id
        /\ g(r, e).level = r.level /\ g(r, e).fresh = r.fresh
        /\ g(r, e).energy = e
  BY DEF Row
<1>2. S = R \/ S = {g(r, q.energy) : r \in R}
  BY DEF Charged
<1>3. Charged(R, t, n) = {g(r, t.energy) : r \in R}
  BY DEF Charged
<1> HIDE DEF g
<1>4. \A s \in S : \E r \in R : s.place = r.place /\ s.id = r.id /\ s.level = r.level
                                /\ s.fresh = r.fresh
  BY <1>1, <1>2
<1>5. \A r \in R : \E s \in S : s.place = r.place
  <2> SUFFICES ASSUME NEW r \in R
               PROVE  \E s \in S : s.place = r.place
    OBVIOUS
  <2>1. r \in S \/ g(r, q.energy) \in S
    BY <1>2
  <2> QED
    BY <1>1, <2>1
<1>6. PICK r \in R : r.id = item.id /\ r.level = item.level /\ r.fresh = item.fresh
  BY <1>4 DEF Same, Shown
<1>7. Same(g(r, t.energy), x)
  BY <1>1, <1>6 DEF Same, Filling
<1>8. \A row \in Charged(R, t, n) : row.place = c
  BY <1>1, <1>3, <1>5 DEF Shown
<1>9. g(r, t.energy) \in Row
  BY <1>1 DEF EnergyUpdate
<1> QED
  BY <1>3, <1>7, <1>8, <1>9 DEF Shown

\* Player::addEnergyToItem with the update that is queued, which takes the place of q
EnergyQueued(q, X, m, Y, t) ==
  /\ X \subseteq Y /\ (q = None \/ q.number = m \/ q.number \in Y)
  /\ t \in EnergyUpdate /\ t.number = m /\ t.energy = Find(m).energy + 1

LEMMA EnergySound ==
  ASSUME NEW q \in EnergyUpdate \cup {None}, NEW X, NEW h \in Nat, Sound(Now, q, X, h),
         NEW m \in 1 .. MaxNumber, Held(m), player.battery >= 1,
         NEW Y, NEW t, EnergyQueued(q, X, m, Y, t),
         NEW u, u.p = EnergyAdded(m), u.rows = table
  PROVE  /\ m \in 1 .. player.latest
         /\ Sound(u, t, Y, h) /\ Steady(Now, u) /\ Room(u.p) = Room(player)
<1> USE DEF EnergyQueued
<1> DEFINE R == RowsOf(table, m)
           S == Stored(table, q, m)
<1>1. player \in Player /\ table \in Seq(Row) /\ Filed(player, X) /\ Counted(player, h)
  BY DEF Sound, Now
<1>2. u.p = EnergyAdded(m) /\ u.rows = table
  OBVIOUS
<1>3. /\ player.unworn \in Files(Numbers) /\ player.worn \in Files(Characters \X Slots)
      /\ player.latest \in Nat /\ m # 0 /\ m \in Nat
  BY <1>1 DEF Player, Numbers
<1>4. R \in SUBSET Row /\ S = Charged(R, q, m)
  <2>1. \A i \in DOMAIN table : table[i] \in Row
    BY <1>1
  <2>2. R \in SUBSET Row
    BY <2>1 DEF RowsOf
  <2>3. Stored(table, q, m) = Charged(RowsOf(table, m), q, m)
    BY <1>1, StoredCharged
  <2> QED
    BY <2>2, <2>3
<1>5. \A i \in DOMAIN u.rows : u.rows[i].number \in 1 .. player.latest
  BY <1>2 DEF Sound, Now
<1>6. ASSUME NEW n \in (1 .. MaxNumber) \ Y, n # m
      PROVE  Charged(RowsOf(table, n), t, n) = Charged(RowsOf(table, n), q, n)
  <2>1. t.number # n /\ ~(q # None /\ q.number = n)
    BY <1>6
  <2> QED
    BY <2>1 DEF Charged
<1>7. \A n \in (1 .. MaxNumber) \ Y : n \notin X /\ Accord(player, table, q, n)
                                      /\ Unique(table, n)
  BY DEF Sound, Now, Accord
<1>8. t # None
  BY ConstantsAssumption
<1>9. ASSUME NEW x, NEW item, Filling(item, x), Find(m) = item
      PROVE  t.energy = x.energy
  BY <1>9 DEF Filling
<1> HIDE DEF R, S
<1>10. ASSUME Accord(player, table, q, m), NEW w \in WornAs(player, m)
       PROVE  WornAlone(player, S, m, w)
  BY <1>1, <1>10, WornOnce DEF S
<1>11. CASE \E x : /\ UnwornChanged(player, EnergyAdded(m), m, x)
                   /\ Filling(player.unworn[m], x) /\ Find(m) = player.unworn[m]
  <2>1. PICK x : /\ UnwornChanged(player, u.p, m, x) /\ Filling(player.unworn[m], x)
                 /\ Find(m) = player.unworn[m]
    BY <1>2, <1>11
  <2>2. /\ m \in DOMAIN player.unworn /\ x \in Item
        /\ DOMAIN u.p.unworn = DOMAIN player.unworn /\ u.p.unworn[m] = x
        /\ \A k \in DOMAIN player.unworn \ {m} : u.p.unworn[k] = player.unworn[k]
        /\ u.p.worn = player.worn
    BY <1>3, <2>1, FilesType DEF UnwornChanged
  <2>3. u.p \in Player /\ u.p.total = player.total /\ u.p.latest = player.latest /\ Steady(Now, u)
    BY <2>1 DEF UnwornChanged, Steady, Now
  <2>4. \A n : WornAs(u.p, n) = WornAs(player, n)
    BY <2>2 DEF WornAs
  <2>5. t # None /\ t.energy = x.energy
    BY <1>8, <1>9, <2>1
  <2>6. m \in 1 .. player.latest
    BY <1>1, <1>3, <2>2 DEF Filed
  <2>7. ASSUME NEW n \in (1 .. MaxNumber) \ Y
        PROVE  Accord(u.p, u.rows, t, n)
    <3>1. CASE n # m
      <4>1. Charged(RowsOf(table, n), t, n) = Charged(RowsOf(table, n), q, n)
        BY <1>6, <2>5, <3>1
      <4>2. /\ n \in DOMAIN u.p.unworn <=> n \in DOMAIN player.unworn
            /\ n \in DOMAIN player.unworn => u.p.unworn[n] = player.unworn[n]
        BY <2>2, <3>1
      <4>3. /\ WornAs(u.p, n) = WornAs(player, n)
            /\ \A w \in WornAs(player, n) : u.p.worn[w] = player.worn[w]
        BY <2>2, <2>4
      <4>4. Accord(player, table, q, n) /\ Unique(table, n)
        BY <1>7
      <4> QED
        BY <1>1, <1>2, <4>1, <4>2, <4>3, <4>4, AccordCarried
    <3>2. CASE n = m
      <4>1. Accord(player, table, q, m)
        BY <1>7, <3>2
      <4>2. WornAs(player, m) = {} /\ Shown(S, 0, player.unworn[m])
        BY <1>1, <2>2, <4>1, UnwornOnce DEF S
      <4>3. Shown(Charged(R, t, m), 0, x)
        BY <1>4, <2>1, <2>5, <4>2, ChargedSame
      <4>4. Agree(u.p, Charged(R, t, m), m)
        BY <2>2, <2>4, <4>2, <4>3, AgreeUnworn
      <4>5. Stored(u.rows, t, m) = Charged(R, t, m)
        BY <1>1, <1>2, <2>5, StoredCharged DEF R
      <4> QED
        BY <1>2, <1>7, <3>2, <4>4, <4>5 DEF Accord
    <3> QED
      BY <3>1, <3>2
  <2>8. x.serial = player.unworn[m].serial /\ x.id = player.unworn[m].id
    BY <2>1 DEF Filling
  <2>9. Filed(u.p, X)
    BY <1>1, <2>2, <2>3, <2>8 DEF Filed
  <2>10. Filed(u.p, Y)
    BY <2>9 DEF Filed
  <2>11. Counted(u.p, h) /\ Room(u.p) = Room(player)
    BY <1>1, <2>2, <2>3 DEF Counted, Room
  <2>12. Sound(u, t, Y, h)
    BY <1>1, <1>2, <1>5, <2>3, <2>7, <2>10, <2>11 DEF Sound
  <2> QED
    BY <2>3, <2>6, <2>11, <2>12
<1>12. CASE \E w \in WornHere(m) : \E x : /\ WornChanged(player, EnergyAdded(m), w, x)
                                      /\ Filling(player.worn[w], x) /\ Find(m) = player.worn[w]
  <2>1. PICK w, x : /\ w \in WornHere(m) /\ WornChanged(player, u.p, w, x)
                    /\ Filling(player.worn[w], x) /\ Find(m) = player.worn[w]
    BY <1>2, <1>12
  <2>2. /\ w \in DOMAIN player.worn /\ player.worn[w].serial = m /\ x \in Item
        /\ DOMAIN u.p.worn = DOMAIN player.worn /\ u.p.worn[w] = x
        /\ \A z \in DOMAIN player.worn \ {w} : u.p.worn[z] = player.worn[z]
        /\ u.p.unworn = player.unworn
    BY <1>3, <2>1, FilesType DEF WornChanged, WornHere
  <2>3. u.p \in Player /\ u.p.total = player.total /\ u.p.latest = player.latest /\ Steady(Now, u)
    BY <2>1 DEF WornChanged, Steady, Now
  <2>4. x.serial = player.worn[w].serial /\ x.id = player.worn[w].id
    BY <2>1 DEF Filling
  <2>5. \A n : WornAs(u.p, n) = WornAs(player, n)
    BY <2>2, <2>4 DEF WornAs
  <2>6. t # None /\ t.energy = x.energy
    BY <1>8, <1>9, <2>1
  <2>7. m \in 1 .. player.latest
    BY <1>1, <1>3, <2>2 DEF Filed
  <2>8. ASSUME NEW n \in (1 .. MaxNumber) \ Y
        PROVE  Accord(u.p, u.rows, t, n)
    <3>1. CASE n # m
      <4>1. \A z \in WornAs(player, n) : u.p.worn[z] = player.worn[z]
        BY <2>2, <3>1 DEF WornAs
      <4> QED
        <5>1. Charged(RowsOf(table, n), t, n) = Charged(RowsOf(table, n), q, n)
          BY <1>6, <2>6, <3>1
        <5> QED
          BY <1>1, <1>2, <1>7, <2>2, <2>5, <2>6, <4>1, <5>1, AccordCarried
    <3>2. CASE n = m
      <4>1. w \in WornAs(player, m)
        BY <2>2 DEF WornAs
      <4>2. Accord(player, table, q, m)
        BY <1>7, <3>2
      <4>3. WornAlone(player, S, m, w)
        BY <1>10, <4>1, <4>2
      <4>4. Shown(Charged(R, t, m), w[1], x)
        BY <1>4, <2>1, <2>6, <4>3, ChargedSame DEF WornAlone
      <4>5. w[1] # 0
        <5>1. w \in Characters \X Slots
          BY <1>3, <2>2, FileItems
        <5> QED
          BY <5>1, ConstantsAssumption
      <4>6. m \notin DOMAIN u.p.unworn /\ WornAs(u.p, m) = {w} /\ u.p.worn[w] = x
        BY <2>2, <2>5, <4>3 DEF WornAlone
      <4>7. Agree(u.p, Charged(R, t, m), m)
        BY <4>4, <4>5, <4>6, AgreeWorn
      <4>8. Stored(u.rows, t, m) = Charged(R, t, m)
        BY <1>1, <1>2, <2>6, StoredCharged DEF R
      <4> QED
        BY <1>2, <1>7, <3>2, <4>7, <4>8 DEF Accord
    <3> QED
      BY <3>1, <3>2
  <2>9. Filed(u.p, X)
    BY <1>1, <2>2, <2>3, <2>4 DEF Filed
  <2>10. Filed(u.p, Y)
    BY <2>9 DEF Filed
  <2>11. Counted(u.p, h) /\ Room(u.p) = Room(player)
    BY <1>1, <2>2, <2>3 DEF Counted, Room
  <2>12. Sound(u, t, Y, h)
    BY <1>1, <1>2, <1>5, <2>3, <2>8, <2>10, <2>11 DEF Sound
  <2> QED
    BY <2>3, <2>7, <2>11, <2>12
<1> QED
  BY <1>1, <1>11, <1>12, EnergyFields

----------------------------------------------------------------------------
(* Login *)

\* The rows are numbered in order.
InOrder(rows) == \A i \in DOMAIN rows : rows[i].number = i

\* Rows that are worn where a later row is worn too
Covered(rows) ==
  {i \in DOMAIN rows :
     rows[i].place # 0 /\ i < Max(WornRows(rows, rows[i].place, Slot(rows[i].id)))}

\* The places that something is worn in, and the row that stays in each of them
Taken(rows) == {w \in Characters \X Slots : WornRows(rows, w[1], w[2]) # {}}
Top(rows, w) == Max(WornRows(rows, w[1], w[2]))
Off(rows) == {i \in DOMAIN rows : rows[i].place = 0}
Shining(rows) == (DOMAIN rows \ Off(rows)) \ Covered(rows)

\* The row that stays in a place is one that is worn there, and no other row of the place stays.
LEMMA TopRow ==
  ASSUME NEW rows \in Seq(Row), NEW w \in Taken(rows)
  PROVE  /\ Top(rows, w) \in DOMAIN rows
         /\ rows[Top(rows, w)].place = w[1] /\ Slot(rows[Top(rows, w)].id) = w[2]
         /\ \A i \in WornRows(rows, w[1], w[2]) : i <= Top(rows, w)
<1> DEFINE W == WornRows(rows, w[1], w[2])
<1>1. Len(rows) \in Nat /\ DOMAIN rows = 1 .. Len(rows)
  OBVIOUS
<1>2. W \in SUBSET Nat /\ W # {} /\ \A i \in W : i <= Len(rows)
  BY <1>1 DEF WornRows, Taken
<1>3. PICK k \in W : \A i \in W : i <= k
  <2> HIDE DEF W
  <2> QED
    BY <1>1, <1>2, GreatestNumber
<1>4. Max(W) \in W /\ \A i \in W : i <= Max(W)
  <2> HIDE DEF W
  <2>1. \E x \in W : \A y \in W : x >= y
    BY <1>2, <1>3
  <2> QED
    BY <1>2, <2>1 DEF Max
<1> QED
  BY <1>4 DEF WornRows, Top

\* Where a row that is worn belongs
Home(rows, i) == <<rows[i].place, Slot(rows[i].id)>>

LEMMA HomeTaken ==
  ASSUME NEW rows \in Seq(Row), NEW i \in DOMAIN rows \ Off(rows)
  PROVE  /\ Home(rows, i) \in Taken(rows)
         /\ i \in WornRows(rows, Home(rows, i)[1], Home(rows, i)[2])
         /\ i \in Covered(rows) <=> i < Top(rows, Home(rows, i))
<1>1. rows[i] \in Row /\ rows[i].place # 0
  BY DEF Off
<1>2. rows[i].place \in Characters /\ Slot(rows[i].id) \in Slots
  BY <1>1 DEF Row, Slot, Slots
<1>3. i \in WornRows(rows, rows[i].place, Slot(rows[i].id))
  BY DEF WornRows
<1>4. Home(rows, i)[1] = rows[i].place /\ Home(rows, i)[2] = Slot(rows[i].id)
      /\ Home(rows, i) \in Characters \X Slots
  BY <1>2 DEF Home
<1> QED
  BY <1>1, <1>2, <1>3, <1>4 DEF Taken, Covered, Top

\* The rows that stay are as many as the places that are taken.
LEMMA PlacesCounted ==
  ASSUME NEW rows \in Seq(Row)
  PROVE  /\ IsFiniteSet(Taken(rows)) /\ IsFiniteSet(Covered(rows))
         /\ Cardinality(DOMAIN rows \ Off(rows))
              = Cardinality(Taken(rows)) + Cardinality(Covered(rows))
         /\ Cardinality(Off(rows)) + Cardinality(DOMAIN rows \ Off(rows)) = Len(rows)
<1> DEFINE F == Shining(rows)
           K == Taken(rows)
           D == DOMAIN rows
           N == D \ Off(rows)
           C == Covered(rows)
           f == [i \in F |-> Home(rows, i)]
<1>1. Len(rows) \in Nat /\ D = 1 .. Len(rows)
  OBVIOUS
<1>2. IsFiniteSet(D) /\ Cardinality(D) = Len(rows)
  <2>1. IsFiniteSet(1 .. Len(rows)) /\ Cardinality(1 .. Len(rows)) = Len(rows)
    BY <1>1, FS_Interval, SMTT(30)
  <2> QED
    BY <1>1, <2>1
<1>3. C \in SUBSET N /\ F = N \ C
  BY DEF Covered, Off, Shining
<1>4. f \in Bijection(F, K)
  <2>1. \A i \in F : i \in N /\ f[i] = Home(rows, i) /\ f[i] \in K
    BY <1>3, HomeTaken
  <2>2. \A i \in F : i = Top(rows, f[i])
    <3>1. SUFFICES ASSUME NEW i \in F
                   PROVE  i = Top(rows, Home(rows, i))
      BY <2>1
    <3>2. i \in N /\ i \notin C
      BY <1>3
    <3>3. Home(rows, i) \in K /\ i \in WornRows(rows, Home(rows, i)[1], Home(rows, i)[2])
          /\ ~(i < Top(rows, Home(rows, i)))
      BY <3>2, HomeTaken
    <3>4. Top(rows, Home(rows, i)) \in D /\ i <= Top(rows, Home(rows, i))
      BY <3>3, TopRow
    <3> QED
      BY <1>1, <3>2, <3>3, <3>4
  <2>3. ASSUME NEW w \in K
        PROVE  \E i \in F : f[i] = w
    <3> DEFINE t == Top(rows, w)
    <3>1. t \in D /\ rows[t].place = w[1] /\ Slot(rows[t].id) = w[2]
      BY TopRow
    <3>2. w \in Characters \X Slots /\ w[1] # 0
      BY ConstantsAssumption DEF Taken
    <3>3. Home(rows, t) = w
      BY <3>1, <3>2 DEF Home
    <3>4. t \in N
      BY <3>1, <3>2 DEF Off
    <3>5. t \notin C
      <4>1. t \in C <=> t < Top(rows, Home(rows, t))
        BY <3>4, HomeTaken
      <4> QED
        BY <1>1, <3>1, <3>3, <4>1
    <3> QED
      BY <1>3, <2>1, <3>3, <3>4, <3>5
  <2>4. f \in [F -> K]
    <3> HIDE DEF F, K
    <3> QED
      BY <2>1
  <2> HIDE DEF F, K, f
  <2>5. \A i, j \in F : f[i] = f[j] => i = j
    BY <2>2
  <2> QED
    BY <2>3, <2>4, <2>5 DEF Bijection, Injection, Surjection, IsInjective
<1> HIDE DEF F, K, D, N, C, f
<1>5. IsFiniteSet(Off(rows)) /\ IsFiniteSet(N) /\ IsFiniteSet(C) /\ IsFiniteSet(F)
  <2>1. Off(rows) \in SUBSET D /\ N \in SUBSET D
    BY DEF Off, D, N
  <2>2. IsFiniteSet(Off(rows)) /\ IsFiniteSet(N)
    BY <1>2, <2>1, FS_Subset
  <2>3. F \in SUBSET N
    BY <1>3
  <2> QED
    BY <1>3, <2>2, <2>3, FS_Subset
<1>6. IsFiniteSet(K) /\ Cardinality(K) = Cardinality(F)
  <2>1. ExistsBijection(F, K)
    BY <1>4 DEF ExistsBijection
  <2> QED
    BY <1>5, <2>1, FS_Bijection
<1>7. Cardinality(F) = Cardinality(N) - Cardinality(C)
  <2>1. N \cap C = C /\ N \ C = F
    BY <1>3
  <2>2. Cardinality(N \ C) = Cardinality(N) - Cardinality(N \cap C)
    BY <1>5, FS_Difference
  <2> QED
    BY <2>1, <2>2, Zenon
<1>8. Cardinality(N) = Len(rows) - Cardinality(Off(rows))
  <2>1. D \cap Off(rows) = Off(rows) /\ N = D \ Off(rows)
    BY DEF Off, D, N
  <2>2. Cardinality(D \ Off(rows)) = Cardinality(D) - Cardinality(D \cap Off(rows))
    BY <1>2, FS_Difference
  <2> QED
    BY <1>2, <2>1, <2>2, Zenon
<1>9. Cardinality(N) \in Nat /\ Cardinality(C) \in Nat /\ Cardinality(K) \in Nat
      /\ Cardinality(Off(rows)) \in Nat
  BY <1>5, <1>6, FS_CardinalityType
<1>10. Cardinality(N) = Cardinality(K) + Cardinality(C)
       /\ Cardinality(Off(rows)) + Cardinality(N) = Len(rows)
  BY <1>1, <1>6, <1>7, <1>8, <1>9
<1> QED
  BY <1>5, <1>6, <1>10 DEF N, K, C, D

\* The player that handleAuthorization makes of rows in order, field by field
FromRows(p, rows) ==
  /\ p.unworn \in Files(Numbers) /\ p.worn \in Files(Characters \X Slots)
  /\ DOMAIN p.unworn = Off(rows) /\ DOMAIN p.worn = Taken(rows)
  /\ \A n \in Off(rows) : p.unworn[n] = AsItem(rows[n])
  /\ \A w \in Taken(rows) : p.worn[w] = AsItem(rows[Top(rows, w)])
  /\ p.total = Cardinality(DOMAIN rows \ Off(rows)) /\ p.latest = Len(rows)

LEMMA LoadedFields ==
  ASSUME NEW rows \in Seq(Row), Len(rows) <= MaxNumber,
         NEW info, info.character \in Characters, info.mp \in 0 .. Money - 1,
         info.battery \in Nat, info.lucky \in Nat
  PROVE  /\ FromRows(Loaded(rows, info), rows)
         /\ Loaded(rows, info) \in Player /\ Loaded(rows, info).mp = info.mp
<1> DEFINE p == Loaded(rows, info)
           U == [n \in Off(rows) |-> AsItem(rows[n])]
           W == [w \in Taken(rows) |-> AsItem(rows[Top(rows, w)])]
           t == Cardinality(DOMAIN rows \ Off(rows))
<1>1. p = [unworn |-> U, worn |-> W, total |-> t, latest |-> Len(rows),
           character |-> info.character, mp |-> info.mp, battery |-> info.battery,
           lucky |-> info.lucky]
  BY DEF Loaded, Off, Taken, Top
<1>2. \A row \in Row : AsItem(row) \in Item
  BY DEF AsItem, Row, Item
<1>3. Len(rows) \in Nat /\ DOMAIN rows = 1 .. Len(rows) /\ MaxNumber \in Nat
  BY ConstantsAssumption
<1>4. U \in Files(Numbers)
  <2>1. Off(rows) \in SUBSET Numbers /\ U \in [Off(rows) -> Item] /\ DOMAIN U = Off(rows)
    BY <1>2, <1>3 DEF Off, Numbers
  <2> HIDE DEF U
  <2> QED
    BY <2>1, FilesType
<1>5. W \in Files(Characters \X Slots)
  <2>1. \A w \in Taken(rows) : AsItem(rows[Top(rows, w)]) \in Item
    BY <1>2, TopRow
  <2>2. Taken(rows) \in SUBSET (Characters \X Slots)
    BY DEF Taken
  <2>3. W \in [Taken(rows) -> Item] /\ DOMAIN W = Taken(rows)
    BY <2>1
  <2> HIDE DEF W
  <2> QED
    BY <2>2, <2>3, FilesType
<1>6. t \in Nat
  <2>1. IsFiniteSet(1 .. Len(rows))
    BY <1>3, FS_Interval
  <2>2. IsFiniteSet(DOMAIN rows) /\ DOMAIN rows \ Off(rows) \in SUBSET DOMAIN rows
    BY <1>3, <2>1
  <2> QED
    BY <2>2, FS_Subset, FS_CardinalityType
<1>7. FromRows(p, rows)
  <2> HIDE DEF p, t
  <2>1. p.unworn = U /\ p.worn = W /\ p.total = t /\ p.latest = Len(rows)
    BY <1>1
  <2>2. /\ DOMAIN U = Off(rows) /\ DOMAIN W = Taken(rows)
        /\ \A n \in Off(rows) : U[n] = AsItem(rows[n])
        /\ \A w \in Taken(rows) : W[w] = AsItem(rows[Top(rows, w)])
    OBVIOUS
  <2> QED
    BY <1>4, <1>5, <2>1, <2>2 DEF FromRows, t
<1>8. Len(rows) \in Numbers
  BY <1>3 DEF Numbers
<1>9. p \in Player /\ p.mp = info.mp
  <2> HIDE DEF p, U, W, t
  <2> QED
    BY <1>1, <1>4, <1>5, <1>6, <1>8 DEF Player
<1> QED
  BY <1>7, <1>9

\* After the login nothing is in dispute but the rows that are covered, and the count is right.
LEMMA LoadedSound ==
  ASSUME NEW v, v.rows \in Seq(Row), InOrder(v.rows), v.p \in Player, FromRows(v.p, v.rows)
  PROVE  /\ Sound(v, None, Covered(v.rows), Cardinality(Covered(v.rows)))
         /\ Room(v.p) = Len(v.rows)
<1> DEFINE p == v.p
           rows == v.rows
<1>1. /\ rows \in Seq(Row) /\ p \in Player
      /\ Len(rows) \in Nat /\ DOMAIN rows = 1 .. Len(rows)
      /\ \A i \in DOMAIN rows : rows[i] \in Row /\ rows[i].number = i
  BY DEF InOrder
<1>2. /\ DOMAIN p.unworn = Off(rows) /\ DOMAIN p.worn = Taken(rows)
      /\ \A n \in Off(rows) : p.unworn[n] = AsItem(rows[n])
      /\ \A w \in Taken(rows) : p.worn[w] = AsItem(rows[Top(rows, w)])
      /\ p.total = Cardinality(DOMAIN rows \ Off(rows)) /\ p.latest = Len(rows)
  BY DEF FromRows
<1>3. \A n \in Off(rows) : /\ n \in DOMAIN rows /\ rows[n].place = 0
                           /\ p.unworn[n].serial = n /\ p.unworn[n].id \in Ids
  <2>1. SUFFICES ASSUME NEW n \in Off(rows)
                 PROVE  /\ n \in DOMAIN rows /\ rows[n].place = 0
                        /\ p.unworn[n].serial = n /\ p.unworn[n].id \in Ids
    OBVIOUS
  <2>2. n \in DOMAIN rows /\ rows[n].place = 0
    BY DEF Off
  <2>3. rows[n] \in Row /\ rows[n].number = n /\ p.unworn[n] = AsItem(rows[n])
    BY <1>1, <1>2, <2>2
  <2> QED
    BY <2>2, <2>3 DEF AsItem, Row
<1>4. \A w \in Taken(rows) :
        /\ Top(rows, w) \in DOMAIN rows
        /\ p.worn[w].serial = Top(rows, w) /\ p.worn[w].id = rows[Top(rows, w)].id
        /\ p.worn[w].id \in Ids
        /\ rows[Top(rows, w)].place = w[1] /\ w[1] # 0 /\ Slot(p.worn[w].id) = w[2]
  <2>1. SUFFICES ASSUME NEW w \in Taken(rows)
                 PROVE  /\ Top(rows, w) \in DOMAIN rows
                        /\ p.worn[w].serial = Top(rows, w) /\ p.worn[w].id = rows[Top(rows, w)].id
                        /\ p.worn[w].id \in Ids
                        /\ rows[Top(rows, w)].place = w[1] /\ w[1] # 0
                        /\ Slot(p.worn[w].id) = w[2]
    OBVIOUS
  <2>2. /\ Top(rows, w) \in DOMAIN rows /\ rows[Top(rows, w)].place = w[1]
        /\ Slot(rows[Top(rows, w)].id) = w[2]
    BY TopRow
  <2>3. w[1] # 0
    BY ConstantsAssumption DEF Taken
  <2>4. p.worn[w] = AsItem(rows[Top(rows, w)]) /\ rows[Top(rows, w)] \in Row
        /\ rows[Top(rows, w)].number = Top(rows, w)
    BY <1>1, <1>2, <2>2
  <2> QED
    BY <2>2, <2>3, <2>4 DEF AsItem, Row
<1>5. Filed(p, Covered(rows))
  BY <1>1, <1>2, <1>3, <1>4 DEF Filed
<1>6. Counted(p, Cardinality(Covered(rows))) /\ Room(p) = Len(rows)
  <2>1. /\ Cardinality(DOMAIN rows \ Off(rows))
             = Cardinality(Taken(rows)) + Cardinality(Covered(rows))
        /\ Cardinality(Off(rows)) + Cardinality(DOMAIN rows \ Off(rows)) = Len(rows)
    BY PlacesCounted
  <2>2. p.total \in Nat /\ Cardinality(Off(rows)) \in Nat
    BY <1>1, <1>2, KeysFinite DEF Player
  <2> QED
    BY <1>2, <2>1, <2>2 DEF Counted, Room
<1>7. ASSUME NEW n \in (1 .. MaxNumber) \ Covered(rows)
      PROVE  Accord(p, rows, None, n)
  <2>1. Stored(rows, None, n) = RowsOf(rows, n)
    BY <1>1, StoredCharged DEF Charged
  <2>2. Unique(rows, n)
    BY <1>1 DEF Unique
  <2>3. CASE n \in DOMAIN rows
    <3>1. RowsOf(rows, n) = {rows[n]}
      BY <1>1, <2>3 DEF RowsOf
    <3>2. Shown({rows[n]}, rows[n].place, AsItem(rows[n]))
      <4>1. rows[n] \in Row
        BY <1>1, <2>3
      <4>2. Same(rows[n], AsItem(rows[n]))
        BY DEF Same, AsItem
      <4> QED
        BY <4>1, <4>2 DEF Shown
    <3>3. CASE n \in Off(rows)
      <4>1. WornAs(p, n) = {}
        BY <1>2, <1>3, <1>4, <3>3 DEF WornAs
      <4>2. n \in DOMAIN p.unworn /\ p.unworn[n] = AsItem(rows[n]) /\ rows[n].place = 0
        BY <1>2, <1>3, <3>3
      <4>3. Shown({rows[n]}, 0, p.unworn[n])
        BY <3>2, <4>2
      <4> QED
        BY <2>1, <2>2, <3>1, <4>1, <4>2, <4>3, AgreeUnworn DEF Accord
    <3>4. CASE n \notin Off(rows)
      <4> DEFINE w == Home(rows, n)
      <4>1. w \in Taken(rows) /\ n \in WornRows(rows, w[1], w[2]) /\ ~(n < Top(rows, w))
        BY <2>3, <3>4, HomeTaken
      <4>2. n = Top(rows, w)
        <5>1. Top(rows, w) \in DOMAIN rows /\ n <= Top(rows, w)
          BY <4>1, TopRow
        <5> QED
          BY <1>1, <2>3, <4>1, <5>1
      <4>3. w[1] = rows[n].place /\ w[2] = Slot(rows[n].id) /\ w = <<w[1], w[2]>>
        BY DEF Home
      <4>4. WornAs(p, n) = {w}
        <5>1. w \in WornAs(p, n)
          BY <1>2, <1>4, <4>1, <4>2 DEF WornAs
        <5>2. ASSUME NEW z \in WornAs(p, n)
              PROVE  z = w
          <6>1. z \in Taken(rows) /\ Top(rows, z) = n
            BY <1>2, <1>4 DEF WornAs
          <6>2. z[1] = w[1] /\ z[2] = w[2]
            BY <4>3, <6>1, TopRow
          <6>3. z = <<z[1], z[2]>>
            BY <6>1 DEF Taken
          <6> QED
            BY <4>3, <6>2, <6>3
        <5> QED
          BY <5>1, <5>2
      <4>5. n \notin DOMAIN p.unworn /\ w[1] # 0
        BY <1>2, <1>4, <3>4, <4>1
      <4>6. p.worn[w] = AsItem(rows[n])
        BY <1>2, <4>1, <4>2
      <4>7. Shown({rows[n]}, w[1], p.worn[w])
        BY <3>2, <4>3, <4>6
      <4>8. Agree(p, {rows[n]}, n)
        <5> HIDE DEF w
        <5> QED
          BY <4>4, <4>5, <4>7, AgreeWorn
      <4> QED
        BY <2>1, <2>2, <3>1, <4>8 DEF Accord
    <3> QED
      BY <3>3, <3>4
  <2>4. CASE n \notin DOMAIN rows
    <3>1. Unused(v, n)
      BY <1>1, <1>2, <1>3, <1>4, <2>4 DEF Unused, WornAs, RowsOf
    <3> QED
      BY <1>1, <3>1, UnusedAccord
  <2> QED
    BY <2>3, <2>4
<1>8. \A i \in DOMAIN rows : rows[i].number \in 1 .. p.latest
  BY <1>1, <1>2
<1> QED
  BY <1>1, <1>5, <1>6, <1>7, <1>8 DEF Sound

----------------------------------------------------------------------------
(* The inductive invariant *)

PurseType == [mp : 0 .. Money - 1, character : Characters, battery : Nat]

TypeInv ==
  /\ online \in BOOLEAN /\ player \in Player
  /\ table \in Seq(Row) /\ Len(table) <= MaxItems
  /\ purse \in PurseType /\ energy \in EnergyUpdate \cup {None}
  /\ excused \in SUBSET Numbers /\ renewed \in SUBSET excused /\ hidden \in SUBSET Numbers
  /\ enriched \in BOOLEAN /\ overfilled \in BOOLEAN

\* While there is a session, what it holds is sound, the update that is queued is of a number that
\* has been given, the queue has the balance, and the inventory has not silently overflowed.
Serving ==
  /\ Sound(Now, energy, excused, Cardinality(hidden))
  /\ energy # None => energy.number \in 1 .. player.latest
  /\ purse.mp = player.mp
  /\ Room(player) <= Space \/ overfilled

\* Without a session nothing is queued, as its end has flushed the queue.
Resting == energy = None /\ player = NoPlayer /\ hidden = {}

SafeInv == TypeInv /\ (IF online THEN Serving ELSE Resting)

LEMMA SoundCongruence ==
  ASSUME NEW v, NEW q, NEW X, NEW h, Sound(v, q, X, h),
         NEW u, u.p = v.p, u.rows = v.rows
  PROVE  Sound(u, q, X, h)
<1>1. v.p \in Player
  BY DEF Sound
<1> QED
  BY <1>1, SoundElsewhere

LEMMA Amounts ==
  /\ Money \in Nat \ {0} /\ StartingMoney \in 0 .. Money - 1
  /\ \A a \in Int : a % Money \in 0 .. Money - 1
<1>1. Money \in Nat \ {0} /\ StartingMoney \in 0 .. Money - 1
  BY ConstantsAssumption
<1>2. \A a \in Int, b \in Nat \ {0} : a % b \in 0 .. b - 1
  OBVIOUS
<1> QED
  BY <1>1, <1>2

LEMMA HiddenFinite ==
  ASSUME NEW S \in SUBSET Numbers
  PROVE  IsFiniteSet(S) /\ Cardinality(S) \in Nat
<1>1. IsFiniteSet(0 .. MaxNumber)
  BY ConstantsAssumption, FS_Interval
<1> QED
  BY <1>1, FS_Subset, FS_CardinalityType DEF Numbers

LEMMA NoPlayerType ==
  /\ NoPlayer \in Player
  /\ NoPlayer.total = Cardinality(DOMAIN NoPlayer.worn) + 0
  /\ NoPlayer.mp = 0
<1> DEFINE e == << >>
<1>1. DOMAIN e = {} /\ e \in [{} -> Item]
  OBVIOUS
<1>2. e \in Files(Numbers) /\ e \in Files(Characters \X Slots)
  <2> HIDE DEF e
  <2> QED
    BY <1>1, FilesType
<1>3. Cardinality(DOMAIN e) = 0
  BY <1>1, FS_EmptySet
<1>4. \A n \in {0} : n \in 0 .. Money - 1 /\ n \in Nat /\ n \in Numbers
  BY Amounts, ConstantsAssumption DEF Numbers
<1>5. \E c \in Characters : TRUE
  BY ConstantsAssumption
<1>6. (CHOOSE c \in Characters : TRUE) \in Characters
  BY <1>5
<1>7. NoPlayer = [unworn |-> e, worn |-> e, total |-> 0, latest |-> 0,
                  character |-> CHOOSE c \in Characters : TRUE, mp |-> 0, battery |-> 0,
                  lucky |-> 0]
  BY DEF NoPlayer
<1> HIDE DEF e
<1> QED
  BY <1>2, <1>3, <1>4, <1>6, <1>7 DEF Player

LEMMA InitSafe ==
  ASSUME Init
  PROVE  SafeInv
<1> DEFINE hat == [number |-> 0, id |-> "hat", level |-> 0, energy |-> 0, fresh |-> FALSE,
                   place |-> 0]
           suit == [number |-> 0, id |-> "suit", level |-> 0, energy |-> 0, fresh |-> TRUE,
                    place |-> 0]
<1>1. table = <<hat, suit>>
  BY DEF Init
<1>2. MaxNumber \in Nat /\ MaxItems \in Nat /\ 2 <= MaxItems
  BY ConstantsAssumption
<1>3. hat \in Row /\ suit \in Row
  BY <1>2 DEF Row, Numbers, Ids, MaxLevel
<1>4. table \in Seq(Row) /\ Len(table) <= MaxItems
  <2> HIDE DEF hat, suit
  <2> QED
    BY <1>1, <1>2, <1>3
<1>5. purse \in PurseType
  <2>1. \E c \in Characters : TRUE
    BY ConstantsAssumption
  <2>2. (CHOOSE c \in Characters : TRUE) \in Characters
    BY <2>1
  <2>3. purse = [mp |-> StartingMoney, character |-> CHOOSE c \in Characters : TRUE,
                 battery |-> 2]
    BY DEF Init
  <2> QED
    BY <2>2, <2>3, Amounts DEF PurseType
<1>6. TypeInv
  BY <1>4, <1>5, NoPlayerType DEF Init, TypeInv
<1> QED
  BY <1>6 DEF Init, SafeInv, Resting

----------------------------------------------------------------------------
(* Paying *)

\* The handler is done with v: it has set the balance, or left it.
Settles(v) ==
  \/ \E amount \in 0 .. Money - 1 : SetMicroPoints(v, amount)
  \/ FreeOfCharge(v) /\ v.p.mp = player.mp

LEMMA Paid ==
  ASSUME NEW v, v.p \in Player, purse \in PurseType, purse.mp = player.mp, Settles(v)
  PROVE  /\ player' \in Player /\ table' = v.rows /\ Len(table') <= MaxItems
         /\ player'.unworn = v.p.unworn /\ player'.worn = v.p.worn
         /\ player'.total = v.p.total /\ player'.latest = v.p.latest
         /\ purse' \in PurseType /\ purse'.mp = player'.mp
<1>1. CASE \E amount \in 0 .. Money - 1 : SetMicroPoints(v, amount)
  <2>1. PICK amount \in 0 .. Money - 1 : SetMicroPoints(v, amount)
    BY <1>1
  <2>2. player' = [v.p EXCEPT !.mp = amount] /\ table' = v.rows /\ Len(v.rows) <= MaxItems
        /\ purse' = [purse EXCEPT !.mp = amount]
    BY <2>1 DEF SetMicroPoints, CurrencyUpdated, Bounded
  <2>3. player' \in Player /\ player'.mp = amount
        /\ player'.unworn = v.p.unworn /\ player'.worn = v.p.worn
        /\ player'.total = v.p.total /\ player'.latest = v.p.latest
    BY <2>2 DEF Player
  <2>4. purse' \in PurseType /\ purse'.mp = amount
    BY <2>2 DEF PurseType
  <2> QED
    BY <2>2, <2>3, <2>4
<1>2. CASE FreeOfCharge(v) /\ v.p.mp = player.mp
  BY <1>2 DEF FreeOfCharge, Bounded
<1> QED
  BY <1>1, <1>2 DEF Settles

\* A handler that leaves something sound, and has accounted for the space it took
LEMMA Settled ==
  ASSUME SafeInv, online, online' = TRUE,
         NEW v, NEW X \in SUBSET Numbers, Sound(v, energy, X, Cardinality(hidden)),
         player.latest <= v.p.latest, Settles(v),
         energy' = energy, hidden' = hidden, excused' = X, renewed' \in SUBSET X,
         enriched' \in BOOLEAN, overfilled' \in BOOLEAN,
         Room(v.p) <= Space \/ overfilled'
            \/ overfilled' =
                 (overfilled \/ player'.total + Cardinality(DOMAIN player'.unworn) > Space)
  PROVE  SafeInv'
<1>1. TypeInv /\ Serving
  BY DEF SafeInv
<1>2. v.p \in Player /\ v.rows \in Seq(Row)
  BY DEF Sound
<1>3. /\ player' \in Player /\ table' = v.rows /\ Len(table') <= MaxItems
      /\ player'.unworn = v.p.unworn /\ player'.worn = v.p.worn
      /\ player'.total = v.p.total /\ player'.latest = v.p.latest
      /\ purse' \in PurseType /\ purse'.mp = player'.mp
  BY <1>1, <1>2, Paid DEF TypeInv, Serving
<1>4. TypeInv'
  BY <1>1, <1>2, <1>3 DEF TypeInv
<1>5. Now'.p = player' /\ Now'.rows = v.rows
  BY <1>3 DEF Now
<1>6. Sound(Now', energy, X, Cardinality(hidden))
  BY <1>3, <1>5, SoundElsewhere
<1>7. Room(player') = Room(v.p) /\ Room(v.p) \in Nat
  BY <1>2, <1>3, KeysFinite DEF Room, Player
<1>8. Room(player') <= Space \/ overfilled'
  BY <1>7, ConstantsAssumption DEF Room
<1>9. energy # None => energy.number \in 1 .. player'.latest
  <2>1. player.latest \in Nat /\ v.p.latest \in Nat
    BY <1>1, <1>2 DEF TypeInv, Player, Numbers
  <2> QED
    BY <1>1, <1>3, <2>1 DEF Serving
<1>10. Serving'
  BY <1>3, <1>6, <1>8, <1>9 DEF Serving
<1> QED
  BY <1>4, <1>10 DEF SafeInv

----------------------------------------------------------------------------
(* Every action *)

\* What a flush leaves: the energy of the number is in its rows.
LEMMA FlushedTypes ==
  ASSUME TypeInv, Flushed
  PROVE  /\ table' \in Seq(Row) /\ Len(table') <= MaxItems /\ DOMAIN table' = DOMAIN table
         /\ \A i \in DOMAIN table : table'[i].number = table[i].number
         /\ purse' \in PurseType /\ purse'.mp = purse.mp /\ energy' = None
         /\ \A n : RowsOf(table', n) = Stored(table, energy, n)
<1>1. table \in Seq(Row) /\ Len(table) <= MaxItems /\ energy \in EnergyUpdate \cup {None}
      /\ purse \in PurseType /\ table' = Energised(table, energy) /\ energy' = None
      /\ purse' = [purse EXCEPT !.battery = IF energy = None THEN @ ELSE energy.battery]
  BY DEF TypeInv, Flushed, PendingRows
<1>2. /\ Energised(table, energy) \in Seq(Row)
      /\ DOMAIN Energised(table, energy) = DOMAIN table
      /\ Len(Energised(table, energy)) = Len(table)
      /\ \A i \in DOMAIN table :
           Energised(table, energy)[i] =
             IF energy # None /\ table[i].number = energy.number
             THEN [table[i] EXCEPT !.energy = energy.energy] ELSE table[i]
  BY <1>1, EnergisedRows
<1>3. ASSUME NEW i \in DOMAIN table
      PROVE  table'[i].number = table[i].number
  <2>1. table[i] \in Row
    BY <1>1
  <2> QED
    BY <1>1, <1>2, <2>1 DEF Row
<1>4. purse' \in PurseType /\ purse'.mp = purse.mp
  BY <1>1 DEF PurseType, EnergyUpdate
<1>5. \A n : RowsOf(table', n) = Stored(table, energy, n)
  BY <1>1 DEF Stored
<1> QED
  BY <1>1, <1>2, <1>3, <1>4, <1>5

LEMMA PersistSafe ==
  ASSUME SafeInv, Persist
  PROVE  SafeInv'
<1>1. TypeInv /\ Flushed /\ online
  BY DEF SafeInv, Persist, Resting
<1>2. UNCHANGED <<online, player, excused, renewed, hidden, enriched, overfilled>>
  BY DEF Persist, history
<1>3. /\ table' \in Seq(Row) /\ Len(table') <= MaxItems /\ DOMAIN table' = DOMAIN table
      /\ \A i \in DOMAIN table : table'[i].number = table[i].number
      /\ purse' \in PurseType /\ purse'.mp = purse.mp /\ energy' = None
      /\ \A n : RowsOf(table', n) = Stored(table, energy, n)
  BY <1>1, FlushedTypes
<1>4. TypeInv'
  BY <1>1, <1>2, <1>3 DEF TypeInv
<1>5. Serving
  BY <1>1 DEF SafeInv
<1>6. ASSUME NEW n \in (1 .. MaxNumber) \ excused
      PROVE  Accord(player, table', None, n)
  <2>1. Accord(player, table, energy, n)
    BY <1>5 DEF Serving, Sound, Now
  <2>2. Stored(table', None, n) = Stored(table, energy, n)
    <3>1. Stored(table', None, n) = Charged(RowsOf(table', n), None, n)
      BY <1>3, StoredCharged
    <3>2. Charged(RowsOf(table', n), None, n) = RowsOf(table', n)
      BY DEF Charged
    <3> QED
      BY <1>3, <3>1, <3>2
  <2>3. Unique(table', n)
    BY <1>3, <2>1 DEF Accord, Unique
  <2> QED
    BY <2>1, <2>2, <2>3 DEF Accord
<1>7. Sound(Now, energy, excused, Cardinality(hidden))'
  <2>1. /\ player \in Player /\ Filed(player, excused) /\ Counted(player, Cardinality(hidden))
        /\ \A i \in DOMAIN table : table[i].number \in 1 .. player.latest
    BY <1>5 DEF Serving, Sound, Now
  <2>2. Sound([p |-> player, rows |-> table'], None, excused, Cardinality(hidden))
    BY <1>3, <1>6, <2>1 DEF Sound
  <2> QED
    BY <1>2, <1>3, <2>2 DEF Now
<1>8. Serving'
  BY <1>2, <1>3, <1>5, <1>7 DEF Serving
<1> QED
  BY <1>1, <1>2, <1>4, <1>8 DEF SafeInv

LEMMA LogoutSafe ==
  ASSUME SafeInv, Logout
  PROVE  SafeInv'
<1>1. TypeInv /\ Flushed
  BY DEF SafeInv, Logout
<1>2. /\ online' = FALSE /\ player' = NoPlayer /\ excused' = {} /\ renewed' = {} /\ hidden' = {}
      /\ enriched' = enriched /\ overfilled' = overfilled
  BY DEF Logout
<1>3. /\ table' \in Seq(Row) /\ Len(table') <= MaxItems
      /\ purse' \in PurseType /\ energy' = None
  BY <1>1, FlushedTypes
<1>4. TypeInv'
  BY <1>1, <1>2, <1>3, NoPlayerType DEF TypeInv
<1> QED
  BY <1>2, <1>3, <1>4 DEF SafeInv, Resting

\* The numbers that the rows get do not matter for where they are worn.
LEMMA LoginRows ==
  ASSUME table \in Seq(Row), Len(table) <= MaxNumber
  PROVE  /\ Renumbered \in Seq(Row) /\ Len(Renumbered) = Len(table)
         /\ DOMAIN Renumbered = DOMAIN table /\ InOrder(Renumbered)
         /\ Covered(Renumbered) = Covered(table)
<1> DEFINE r == Renumbered
<1>1. Len(table) \in Nat /\ DOMAIN table = 1 .. Len(table) /\ MaxNumber \in Nat
  BY ConstantsAssumption
<1>2. ASSUME NEW i \in DOMAIN table
      PROVE  [table[i] EXCEPT !.number = i] \in Row
  <2>1. table[i] \in Row /\ i \in Numbers
    BY <1>1 DEF Numbers
  <2> QED
    BY <2>1 DEF Row
<1>3. r \in [1 .. Len(table) -> Row]
  BY <1>1, <1>2 DEF Renumbered
<1>4. r \in Seq(Row) /\ Len(r) = Len(table) /\ DOMAIN r = DOMAIN table
  <2> HIDE DEF r
  <2>1. r \in Seq(Row) /\ DOMAIN r = 1 .. Len(table)
    BY <1>1, <1>3
  <2> QED
    BY <1>1, <2>1
<1>5. ASSUME NEW i \in DOMAIN table
      PROVE  r[i].number = i /\ r[i].place = table[i].place /\ r[i].id = table[i].id
  <2>1. table[i] \in Row /\ r[i] = [table[i] EXCEPT !.number = i]
    BY DEF Renumbered
  <2> QED
    BY <2>1 DEF Row
<1>6. \A c, slot : WornRows(r, c, slot) = WornRows(table, c, slot)
  <2> HIDE DEF r
  <2> QED
    BY <1>4, <1>5 DEF WornRows
<1>7. Covered(r) = Covered(table)
  <2> HIDE DEF r
  <2> QED
    BY <1>4, <1>5, <1>6 DEF Covered
<1> QED
  BY <1>4, <1>5, <1>7 DEF InOrder

LEMMA LoginSafe ==
  ASSUME SafeInv, Login
  PROVE  SafeInv'
<1>1. TypeInv /\ Resting
  BY DEF SafeInv, Login
<1>2. /\ online' = TRUE /\ table' = Renumbered /\ player' = Loaded(Renumbered, PlayerInfo)
      /\ hidden' = Covered(table) /\ excused' = Covered(table) /\ renewed' = {}
      /\ overfilled' = (overfilled \/ Len(table) > Space)
      /\ purse' = purse /\ energy' = energy /\ enriched' = enriched
  BY DEF Login, Covered
<1>3. table \in Seq(Row) /\ Len(table) \in Nat /\ Len(table) <= MaxNumber /\ Len(table) <= MaxItems
  BY <1>1, ConstantsAssumption DEF TypeInv
<1>4. /\ Renumbered \in Seq(Row) /\ Len(Renumbered) = Len(table)
      /\ InOrder(Renumbered) /\ Covered(Renumbered) = Covered(table)
  BY <1>3, LoginRows
<1>5. /\ FromRows(player', Renumbered) /\ player' \in Player /\ player'.mp = purse.mp
  <2>1. /\ PlayerInfo.character \in Characters /\ PlayerInfo.mp \in 0 .. Money - 1
        /\ PlayerInfo.battery \in Nat /\ PlayerInfo.lucky \in Nat /\ PlayerInfo.mp = purse.mp
    BY <1>1 DEF TypeInv, PurseType, PlayerInfo
  <2> QED
    BY <1>2, <1>3, <1>4, <2>1, LoadedFields
<1>6. /\ Sound(Now', None, Covered(table), Cardinality(Covered(table)))
      /\ Room(player') = Len(table)
  <2>1. Now'.p = player' /\ Now'.rows = Renumbered
    BY <1>2 DEF Now
  <2> QED
    BY <1>4, <1>5, <2>1, LoadedSound
<1>7. Covered(table) \in SUBSET Numbers
  BY <1>3, ConstantsAssumption DEF Covered, Numbers
<1>8. TypeInv'
  BY <1>1, <1>2, <1>3, <1>4, <1>5, <1>7 DEF TypeInv
<1>9. Serving'
  <2>1. energy' = None
    BY <1>1, <1>2 DEF Resting
  <2>2. Sound(Now, energy, excused, Cardinality(hidden))'
    <3>1. excused' = Covered(table) /\ hidden' = Covered(table)
      BY <1>2
    <3> QED
      BY <1>6, <2>1, <3>1
  <2>3. Room(player') <= Space \/ overfilled'
    <3>1. Space \in Nat /\ Room(player') = Len(table) /\ Len(table) \in Nat
      BY <1>3, <1>6, ConstantsAssumption
    <3>2. Len(table) > Space => overfilled'
      BY <1>2, Zenon
    <3>3. Len(table) <= Space \/ Len(table) > Space
      BY <3>1
    <3> QED
      BY <3>1, <3>2, <3>3
  <2> QED
    BY <1>2, <1>5, <2>1, <2>2, <2>3 DEF Serving
<1> QED
  BY <1>2, <1>8, <1>9 DEF SafeInv

LEMMA ServedRequest ==
  ASSUME SafeInv, Handled
  PROVE  /\ TypeInv /\ Serving /\ online /\ online' = TRUE
         /\ Sound(Now, energy, excused, Cardinality(hidden)) /\ Cardinality(hidden) \in Nat
         /\ Now.p = player /\ Now.rows = table
         /\ energy \in EnergyUpdate \cup {None} /\ excused \in SUBSET Numbers
<1>1. TypeInv /\ Serving /\ online /\ online' = online
  BY DEF SafeInv, Handled
<1>2. online' = TRUE
  BY <1>1 DEF TypeInv
<1> QED
  BY <1>1, <1>2, HiddenFinite DEF TypeInv, Serving, Now

\* Items that enter with new numbers
LEMMA GivenSound ==
  ASSUME SafeInv, Handled, NEW items, Listed(items),
         NEW u, u.p \in Player, u.rows \in Seq(Row), Joined(Now, items, u.p.unworn, u.rows),
         u.p.worn = player.worn, u.p.total = player.total, player.latest <= u.p.latest,
         \A n \in Serials(items) : n \in player.latest + 1 .. u.p.latest
  PROVE  /\ Sound(u, energy, excused, Cardinality(hidden))
         /\ Room(u.p) <= Room(player) + Len(items)
<1>1. /\ TypeInv /\ Serving /\ Sound(Now, energy, excused, Cardinality(hidden))
      /\ Cardinality(hidden) \in Nat /\ Now.p = player /\ Now.rows = table
      /\ energy \in EnergyUpdate \cup {None}
  BY ServedRequest
<1>2. player.latest \in Nat /\ u.p.latest \in Nat /\ player \in Player
  BY <1>1 DEF TypeInv, Player, Numbers
<1>3. ASSUME NEW n \in Serials(items)
      PROVE  n \in 1 .. u.p.latest /\ Unused(Now, n) /\ ~(energy # None /\ energy.number = n)
  <2>1. n \in Nat /\ ~(n <= player.latest) /\ n <= u.p.latest /\ n # 0
    BY <1>2
  <2>2. n \notin DOMAIN player.unworn
    BY <1>1, <2>1 DEF Sound, Filed
  <2>3. WornAs(player, n) = {}
    BY <1>1, <2>1 DEF Sound, Filed, WornAs
  <2>4. RowsOf(table, n) = {}
    <3>1. \A i \in DOMAIN table : table[i].number \in 1 .. player.latest
      BY <1>1 DEF Sound
    <3> QED
      BY <1>2, <2>1, <3>1 DEF RowsOf
  <2>5. ~(energy # None /\ energy.number = n)
    BY <1>1, <1>2, <2>1 DEF Serving
  <2> QED
    BY <1>1, <1>2, <2>1, <2>2, <2>3, <2>4, <2>5 DEF Unused
<1>4. Sound(u, energy, excused, Cardinality(hidden))
  BY <1>1, <1>3, JoinedSound
<1>5. Room(u.p) <= Room(player) + Len(items)
  BY <1>1, <1>2, JoinedRoom
<1> QED
  BY <1>4, <1>5

\* The latest number moves on within its range.
LEMMA LatestNumber ==
  ASSUME NEW l \in Nat, NEW k \in Nat, l + k <= MaxNumber
  PROVE  l + k \in Numbers
  BY ConstantsAssumption DEF Numbers

\* A player whose unworn items and latest number are replaced
Restocks(p, U, l, q) == q = [p EXCEPT !.unworn = U, !.latest = l]

LEMMA Restocked ==
  ASSUME NEW p \in Player, NEW U \in Files(Numbers), NEW l \in Numbers,
         NEW q, Restocks(p, U, l, q)
  PROVE  /\ q \in Player /\ q.unworn = U /\ q.latest = l
         /\ q.worn = p.worn /\ q.total = p.total /\ q.mp = p.mp
  BY DEF Player, Restocks

\* u is the player and the rows after the items have entered with new numbers.
Given(u, items) ==
  /\ Listed(items) /\ \A n \in Serials(items) : n \in player.latest + 1 .. u.p.latest
  /\ u.p \in Player /\ u.rows \in Seq(Row) /\ Joined(Now, items, u.p.unworn, u.rows)
  /\ u.p.worn = player.worn /\ u.p.total = player.total
  /\ u.p.latest = player.latest + Len(items)

LEMMA NumberedItems ==
  ASSUME NEW ids \in Seq(Ids), NEW latest \in Nat, latest + Len(ids) <= MaxNumber
  PROVE  /\ Listed(Numbered(ids, latest)) /\ Len(Numbered(ids, latest)) = Len(ids)
         /\ \A n \in Serials(Numbered(ids, latest)) : n \in latest + 1 .. latest + Len(ids)
<1> DEFINE items == Numbered(ids, latest)
<1>1. Len(ids) \in Nat /\ DOMAIN ids = 1 .. Len(ids) /\ MaxNumber \in Nat
  BY ConstantsAssumption
<1>2. ASSUME NEW i \in DOMAIN ids
      PROVE  /\ NewItem(ids[i], 0, latest + i) \in Item
             /\ NewItem(ids[i], 0, latest + i).id \in Ids
             /\ NewItem(ids[i], 0, latest + i).serial = latest + i
  <2>1. latest + i \in Numbers /\ ids[i] \in Ids /\ 0 \in 0 .. MaxLevel
    BY <1>1 DEF Numbers, MaxLevel
  <2> QED
    BY <2>1 DEF NewItem, Item
<1>3. DOMAIN items = 1 .. Len(ids)
      /\ \A i \in 1 .. Len(ids) : items[i] = NewItem(ids[i], 0, latest + i)
  BY <1>1 DEF Numbered
<1>4. items \in [1 .. Len(ids) -> Item]
  BY <1>1, <1>2 DEF Numbered
<1> HIDE DEF items
<1>5. items \in Seq(Item) /\ Len(items) = Len(ids)
  <2>1. items \in Seq(Item)
    BY <1>1, <1>4
  <2> QED
    BY <1>1, <1>3, <2>1
<1>6. \A i \in DOMAIN items : items[i].id \in Ids /\ items[i].serial = latest + i
  BY <1>1, <1>2, <1>3
<1>7. Listed(items)
  BY <1>1, <1>3, <1>5, <1>6 DEF Listed
<1>8. \A n \in Serials(items) : n \in latest + 1 .. latest + Len(ids)
  BY <1>1, <1>3, <1>6 DEF Serials
<1> QED
  BY <1>5, <1>7, <1>8 DEF items

\* a is p with another inventory, and other rows, and u has another latest number too.
Stocked(a, p, V, W) == a = [p |-> [p EXCEPT !.unworn = V], rows |-> W]
Advanced(u, p, V, W, k) ==
  /\ u.p = [p EXCEPT !.unworn = V, !.latest = p.latest + k] /\ u.p.latest = p.latest + k
  /\ u.rows = W
Moved(a, k) == [a EXCEPT !.p.latest = @ + k]

LEMMA AddedShape ==
  ASSUME NEW v, NEW items
  PROVE  \E V, W : Stocked(AddItems(v, items), v.p, V, W)
<1> DEFINE named(n) == {i \in DOMAIN items : items[i].serial = n}
           V == [n \in DOMAIN v.p.unworn \cup {items[i].serial : i \in DOMAIN items} |->
                   IF named(n) # {} THEN items[CHOOSE i \in named(n) : TRUE] ELSE v.p.unworn[n]]
           W == v.rows \o [i \in DOMAIN items |-> AsRow(items[i])]
<1>1. AddItems(v, items) = [p |-> [v.p EXCEPT !.unworn = V], rows |-> W]
  BY DEF AddItems
<1> HIDE DEF V, W
<1> QED
  BY <1>1 DEF Stocked

LEMMA LatestMoved ==
  ASSUME NEW p \in Player, NEW V, NEW W, NEW k, NEW a, Stocked(a, p, V, W)
  PROVE  Advanced(Moved(a, k), p, V, W, k)
<1> DEFINE b == [p EXCEPT !.unworn = V]
           c == [b EXCEPT !.latest = b.latest + k]
<1>1. b.latest = p.latest /\ c = [p EXCEPT !.unworn = V, !.latest = p.latest + k]
  BY DEF Player
<1>2. c.latest = b.latest + k
  BY DEF Player
<1>3. a = [p |-> b, rows |-> W]
  BY DEF Stocked
<1>4. Moved(a, k) = [a EXCEPT !.p = [a.p EXCEPT !.latest = a.p.latest + k]]
  BY DEF Moved
<1>5. a.p = b
  BY <1>3
<1>6. [a.p EXCEPT !.latest = a.p.latest + k] = c
  BY <1>5
<1> HIDE DEF b, c
<1>7. Moved(a, k) = [a EXCEPT !.p = c]
  BY <1>4, <1>6
<1>8. Moved(a, k).p = c /\ Moved(a, k).rows = W
  BY <1>3, <1>7
<1> QED
  BY <1>1, <1>2, <1>8 DEF Advanced

LEMMA RoomType ==
  ASSUME NEW p \in Player
  PROVE  Room(p) \in Nat
BY KeysFinite DEF Room, Player

LEMMA AfterType ==
  ASSUME player \in Player, NEW cost \in Nat
  PROVE  After(cost) \in 0 .. Money - 1
<1>1. player.mp + Money - cost \in Int
  <2>1. Money \in Nat /\ player.mp \in 0 .. Money - 1
    BY ConstantsAssumption DEF Player
  <2> QED
    BY <2>1
<1> QED
  BY <1>1, Amounts DEF After

\* What hasEnoughInventorySpace says
LEMMA SpaceEnough ==
  ASSUME SafeInv, Handled, NEW wanted \in Nat, HasSpace(wanted)
  PROVE  Room(player) + wanted <= Space \/ overfilled
<1>1. player \in Player /\ (Room(player) <= Space \/ overfilled)
  BY ServedRequest DEF TypeInv, Serving
<1>2. Room(player) \in Nat /\ Space \in Nat
  BY <1>1, KeysFinite, ConstantsAssumption DEF Room, Player
<1>3. Room(player) > Space \/ Space - Room(player) > wanted
  BY DEF HasSpace, Used, Room
<1> HIDE DEF Room
<1> QED
  BY <1>1, <1>2, <1>3

\* What a purchase gives
Bought(ids) == Moved(AddItems(Now, Numbered(ids, player.latest)), Len(ids))

LEMMA BuyGiven ==
  ASSUME SafeInv, NEW ids \in Seq(Ids), BuyItems(ids)
  PROVE  /\ Given(Bought(ids), Numbered(ids, player.latest))
         /\ Len(Numbered(ids, player.latest)) = Len(ids)
         /\ SetMicroPoints(Bought(ids), After(Len(ids)))
<1> DEFINE items == Numbered(ids, player.latest)
           a == AddItems(Now, items)
           u == Bought(ids)
           k == Len(ids)
<1>1. Handled /\ SetMicroPoints(u, After(k))
  BY DEF BuyItems, Bought, Moved
<1>2. /\ TypeInv /\ Serving /\ online /\ online' = TRUE
      /\ Now.p = player /\ Now.rows = table /\ excused \in SUBSET Numbers
  BY <1>1, ServedRequest
<1>3. k \in Nat /\ player \in Player /\ table \in Seq(Row) /\ player.latest \in Nat
  BY <1>2 DEF TypeInv, Player, Numbers
<1>4. PICK V, W : Stocked(a, player, V, W)
  BY <1>2, AddedShape
<1>5. player.latest + k <= MaxNumber
  <2>1. u = Moved(a, k)
    BY DEF Bought
  <2> HIDE DEF a, k, u
  <2>2. Advanced(u, player, V, W, k)
    BY <1>3, <1>4, <2>1, LatestMoved
  <2>3. u.p.latest <= MaxNumber
    BY <1>1 DEF SetMicroPoints, Bounded
  <2> QED
    BY <2>2, <2>3 DEF Advanced
<1>6. /\ Listed(items) /\ Len(items) = k
      /\ \A n \in Serials(items) : n \in player.latest + 1 .. player.latest + k
  BY <1>3, <1>5, NumberedItems
<1>7. PICK U \in Files(Numbers), R \in Seq(Row) :
        a = [p |-> [player EXCEPT !.unworn = U], rows |-> R] /\ Joined(Now, items, U, R)
  BY <1>2, <1>3, <1>6, AddItemsFields
<1>8. u.p = [player EXCEPT !.unworn = U, !.latest = player.latest + k] /\ u.rows = R
  <2>1. u = Moved(a, k)
    BY DEF Bought
  <2> HIDE DEF a, k, u
  <2> QED
    <3>1. Stocked(a, player, U, R)
      BY <1>7 DEF Stocked
    <3>2. Advanced(u, player, U, R, k)
      BY <1>3, <2>1, <3>1, LatestMoved
    <3> QED
      BY <3>2 DEF Advanced
<1> HIDE DEF u, a, items, k
<1>9. /\ u.p \in Player /\ u.rows \in Seq(Row) /\ u.p.unworn = U /\ u.rows = R
      /\ u.p.worn = player.worn /\ u.p.total = player.total /\ u.p.latest = player.latest + k
  <2>1. player.latest + k \in Numbers
    BY <1>3, <1>5, LatestNumber
  <2>2. Restocks(player, U, player.latest + k, u.p)
    BY <1>8 DEF Restocks
  <2>3. /\ u.p \in Player /\ u.p.unworn = U /\ u.p.latest = player.latest + k
        /\ u.p.worn = player.worn /\ u.p.total = player.total
    BY <1>3, <2>1, <2>2, Restocked
  <2> QED
    BY <1>8, <2>3
<1> QED
  BY <1>1, <1>6, <1>7, <1>9 DEF u, items, k, Given

LEMMA BuySafe ==
  ASSUME SafeInv, NEW ids \in Seq(Ids), BuyItems(ids)
  PROVE  SafeInv'
<1> DEFINE items == Numbered(ids, player.latest)
           u == Bought(ids)
           k == Len(ids)
<1>1. Handled /\ HasSpace(k) /\ energy' = energy /\ UNCHANGED history
  BY DEF BuyItems, Unharmed
<1>2. /\ TypeInv /\ online /\ online' = TRUE /\ excused \in SUBSET Numbers
  BY <1>1, ServedRequest
<1>3. k \in Nat /\ player \in Player /\ player.latest \in Nat
  BY <1>2 DEF TypeInv, Player, Numbers
<1>4. Given(u, items) /\ Len(items) = k /\ SetMicroPoints(u, After(k))
  BY BuyGiven
<1> HIDE DEF u, items, k
<1>5. u.p \in Player /\ player.latest <= u.p.latest
  BY <1>3, <1>4 DEF Given
<1>6. /\ Sound(u, energy, excused, Cardinality(hidden))
      /\ Room(u.p) <= Room(player) + k
  BY <1>1, <1>4, <1>5, GivenSound DEF Given
<1>7. Room(u.p) <= Space \/ overfilled
  <2>1. Room(player) + k <= Space \/ overfilled
    BY <1>1, <1>3, SpaceEnough
  <2>2. Room(player) \in Nat /\ Room(u.p) \in Nat /\ Space \in Nat
    BY <1>3, <1>5, RoomType, ConstantsAssumption
  <2> QED
    BY <1>3, <1>6, <2>1, <2>2
<1>8. Settles(u)
  <2>1. After(k) \in 0 .. Money - 1
    BY <1>3, AfterType
  <2> QED
    BY <1>4, <2>1 DEF Settles
<1>9. /\ hidden' = hidden /\ excused' = excused /\ renewed' \in SUBSET excused
      /\ enriched' \in BOOLEAN /\ overfilled' = overfilled /\ overfilled' \in BOOLEAN
  BY <1>1, <1>2 DEF history, TypeInv
<1> QED
  BY <1>1, <1>2, <1>3, <1>5, <1>6, <1>7, <1>8, <1>9, Settled

\* A spin sets the luckyPoints too.
AdvancedLucky(u, p, V, W, k, l) ==
  /\ u.p = [p EXCEPT !.unworn = V, !.latest = p.latest + k, !.lucky = l]
  /\ u.p.latest = p.latest + k /\ u.rows = W
MovedLucky(a, k) == [a EXCEPT !.p.latest = @ + k, !.p.lucky = LuckyAfter(k, @)]

LEMMA LuckMoved ==
  ASSUME NEW p \in Player, NEW V, NEW W, NEW k, NEW a, Stocked(a, p, V, W)
  PROVE  AdvancedLucky(MovedLucky(a, k), p, V, W, k, LuckyAfter(k, p.lucky))
<1> DEFINE b == [p EXCEPT !.unworn = V]
           c == [b EXCEPT !.latest = b.latest + k]
           l == LuckyAfter(k, c.lucky)
           d == [c EXCEPT !.lucky = l]
<1>1. /\ b.latest = p.latest /\ c.lucky = p.lucky
      /\ d = [p EXCEPT !.unworn = V, !.latest = p.latest + k, !.lucky = l]
  BY DEF Player
<1>2. d.latest = b.latest + k
  BY DEF Player
<1>3. a = [p |-> b, rows |-> W]
  BY DEF Stocked
<1> DEFINE e == [a EXCEPT !.p = [a.p EXCEPT !.latest = a.p.latest + k]]
<1>4. MovedLucky(a, k) = [e EXCEPT !.p = [e.p EXCEPT !.lucky = LuckyAfter(k, e.p.lucky)]]
  BY DEF MovedLucky
<1>5. [a.p EXCEPT !.latest = a.p.latest + k] = c
  BY <1>3
<1> HIDE DEF b, c
<1>6. e = [a EXCEPT !.p = c]
  BY <1>5
<1>7. e.p = c /\ e.rows = W /\ DOMAIN e = {"p", "rows"}
  BY <1>3, <1>6
<1>8. [e.p EXCEPT !.lucky = LuckyAfter(k, e.p.lucky)] = d
  BY <1>7
<1> HIDE DEF d, e, l
<1>9. MovedLucky(a, k) = [e EXCEPT !.p = d]
  BY <1>4, <1>8
<1>10. MovedLucky(a, k).p = d /\ MovedLucky(a, k).rows = W
  BY <1>7, <1>9
<1>11. l = LuckyAfter(k, p.lucky)
  BY <1>1 DEF l
<1> QED
  BY <1>1, <1>2, <1>10, <1>11 DEF AdvancedLucky

LEMMA SpunType ==
  ASSUME NEW k \in Nat \ {0}, NEW l \in Nat
  PROVE  SpunItems(k, l) \in Nat /\ LuckyAfter(SpunItems(k, l), l) \in Nat
<1>1. MaxLucky \in Nat
  BY ConstantsAssumption
<1>2. \A a \in Nat, b \in Nat \ {0} : a \div b \in Nat /\ a % b \in Nat
  OBVIOUS
<1>3. l + k - 1 \in Nat /\ MaxLucky + 1 \in Nat \ {0} /\ MaxLucky + 2 \in Nat \ {0}
  BY <1>1
<1>4. SpunItems(k, l) \in Nat
  BY <1>2, <1>3 DEF SpunItems
<1>5. l + SpunItems(k, l) \in Nat
  BY <1>4
<1> HIDE DEF SpunItems
<1> QED
  BY <1>2, <1>3, <1>4, <1>5 DEF LuckyAfter

\* What so many items from a capsule are
Spun(spun, id) ==
  MovedLucky(AddItems(Now, Numbered([i \in 1 .. spun |-> id], player.latest)), spun)

LEMMA SpinGiven ==
  ASSUME SafeInv, NEW k \in Nat \ {0}, NEW id \in Ids, SpinCapsule(k, id),
         NEW spun, spun = SpunItems(k, player.lucky)
  PROVE  /\ Given(Spun(spun, id), Numbered([i \in 1 .. spun |-> id], player.latest))
         /\ Len(Numbered([i \in 1 .. spun |-> id], player.latest)) = spun /\ spun \in Nat
         /\ SetMicroPoints(Spun(spun, id), After(spun))
<1> DEFINE ids == [i \in 1 .. spun |-> id]
           items == Numbered(ids, player.latest)
           a == AddItems(Now, items)
           u == Spun(spun, id)
<1>1. Handled /\ SetMicroPoints(u, After(spun))
  BY DEF SpinCapsule, Spun, MovedLucky
<1>2. /\ TypeInv /\ Serving /\ online /\ online' = TRUE
      /\ Now.p = player /\ Now.rows = table /\ excused \in SUBSET Numbers
  BY <1>1, ServedRequest
<1>3. player \in Player /\ table \in Seq(Row) /\ player.latest \in Nat /\ player.lucky \in Nat
  BY <1>2 DEF TypeInv, Player, Numbers
<1>4. spun \in Nat /\ LuckyAfter(spun, player.lucky) \in Nat
  BY <1>3, SpunType
<1>5. ids \in Seq(Ids) /\ Len(ids) = spun
  <2>1. ids \in [1 .. spun -> Ids] /\ DOMAIN ids = 1 .. spun
    OBVIOUS
  <2> HIDE DEF ids
  <2>2. ids \in Seq(Ids)
    BY <1>4, <2>1
  <2> QED
    BY <1>4, <2>1, <2>2
<1>6. u = MovedLucky(a, spun)
  BY DEF Spun
<1> HIDE DEF ids
<1>7. PICK V, W : Stocked(a, player, V, W)
  BY <1>2, AddedShape
<1> HIDE DEF a, u
<1>8. player.latest + spun <= MaxNumber
  <2>1. AdvancedLucky(u, player, V, W, spun, LuckyAfter(spun, player.lucky))
    BY <1>3, <1>6, <1>7, LuckMoved
  <2>2. u.p.latest <= MaxNumber
    BY <1>1 DEF SetMicroPoints, Bounded
  <2> QED
    BY <2>1, <2>2 DEF AdvancedLucky
<1>9. /\ Listed(items) /\ Len(items) = spun
      /\ \A n \in Serials(items) : n \in player.latest + 1 .. player.latest + spun
  BY <1>3, <1>5, <1>8, NumberedItems
<1>10. PICK U \in Files(Numbers), R \in Seq(Row) :
         a = [p |-> [player EXCEPT !.unworn = U], rows |-> R] /\ Joined(Now, items, U, R)
  BY <1>2, <1>3, <1>9, AddItemsFields DEF a
<1>11. /\ u.p = [player EXCEPT !.unworn = U, !.latest = player.latest + spun,
                               !.lucky = LuckyAfter(spun, player.lucky)]
       /\ u.rows = R
  <2>1. Stocked(a, player, U, R)
    BY <1>10 DEF Stocked
  <2>2. AdvancedLucky(u, player, U, R, spun, LuckyAfter(spun, player.lucky))
    BY <1>3, <1>6, <2>1, LuckMoved
  <2> QED
    BY <2>2 DEF AdvancedLucky
<1> HIDE DEF items
<1>12. /\ u.p \in Player /\ u.rows \in Seq(Row) /\ u.p.unworn = U /\ u.rows = R
       /\ u.p.worn = player.worn /\ u.p.total = player.total
       /\ u.p.latest = player.latest + spun
  <2>1. player.latest + spun \in Numbers
    BY <1>3, <1>4, <1>8, LatestNumber
  <2> QED
    BY <1>3, <1>4, <1>10, <1>11, <2>1 DEF Player
<1> QED
  BY <1>1, <1>4, <1>9, <1>10, <1>12 DEF items, ids, u, Given

LEMMA SpinSafe ==
  ASSUME SafeInv, NEW k \in Nat \ {0}, NEW id \in Ids, SpinCapsule(k, id)
  PROVE  SafeInv'
<1> DEFINE spun == SpunItems(k, player.lucky)
           items == Numbered([i \in 1 .. spun |-> id], player.latest)
           u == Spun(spun, id)
<1>1. Handled /\ Unchecked(spun > player.mp) /\ UNCHANGED <<energy, excused, renewed, hidden>>
  BY DEF SpinCapsule
<1>2. /\ TypeInv /\ online /\ online' = TRUE /\ excused \in SUBSET Numbers
  BY <1>1, ServedRequest
<1>3. player \in Player /\ player.latest \in Nat
  BY <1>2 DEF TypeInv, Player, Numbers
<1>4. Given(u, items) /\ Len(items) = spun /\ spun \in Nat /\ SetMicroPoints(u, After(spun))
  BY SpinGiven
<1> HIDE DEF u, items, spun
<1>5. player.latest <= u.p.latest
  BY <1>3, <1>4 DEF Given
<1>6. Sound(u, energy, excused, Cardinality(hidden))
  BY <1>1, <1>4, <1>5, GivenSound DEF Given
<1>7. Settles(u)
  BY <1>3, <1>4, AfterType DEF Settles
<1>8. /\ energy' = energy /\ hidden' = hidden /\ excused' = excused /\ renewed' \in SUBSET excused
  BY <1>1, <1>2 DEF TypeInv
<1>9. /\ enriched' \in BOOLEAN /\ overfilled' \in BOOLEAN
      /\ overfilled' = (overfilled \/ player'.total + Cardinality(DOMAIN player'.unworn) > Space)
  BY <1>1, Zenon DEF Unchecked
<1> QED
  BY <1>2, <1>5, <1>6, <1>7, <1>8, <1>9, Settled

LEMMA SpawnSafe ==
  ASSUME SafeInv, NEW id \in Ids, SpawnItem(id)
  PROVE  SafeInv'
<1> DEFINE k == 1
           item == NewItem(id, 0, player.latest + k)
           a == Add(Now, item)
           u == [a EXCEPT !.p.latest = @ + k]
<1>1. /\ Handled /\ FreeOfCharge(u) /\ Unchecked(TRUE)
      /\ UNCHANGED <<energy, excused, renewed, hidden>>
  BY DEF SpawnItem
<1>2. /\ TypeInv /\ Serving /\ online /\ online' = TRUE
      /\ Now.p = player /\ Now.rows = table /\ excused \in SUBSET Numbers
  BY <1>1, ServedRequest
<1>3. player \in Player /\ table \in Seq(Row) /\ player.latest \in Nat
  BY <1>2 DEF TypeInv, Player, Numbers
<1>4. PICK V, W : Stocked(a, player, V, W)
  BY <1>2 DEF Add, Hold, Stocked
<1>5. u = Moved(a, k)
  BY DEF Moved
<1> HIDE DEF a, u
<1>6. player.latest + 1 <= MaxNumber
  <2>1. Advanced(u, player, V, W, k)
    BY <1>3, <1>4, <1>5, LatestMoved
  <2>2. u.p.latest <= MaxNumber
    BY <1>1 DEF FreeOfCharge, Bounded
  <2> QED
    BY <2>1, <2>2 DEF Advanced
<1>7. item \in Item /\ item.id \in Ids /\ item.serial = player.latest + 1
  <2>1. player.latest + 1 \in Numbers /\ 0 \in 0 .. MaxLevel
    BY <1>3, <1>6, ConstantsAssumption DEF Numbers, MaxLevel
  <2> QED
    BY <2>1 DEF NewItem, Item
<1> HIDE DEF item
<1>8. Listed(<<item>>) /\ Serials(<<item>>) = {item.serial}
  BY <1>2, <1>3, <1>7, AddFields
<1>9. PICK U \in Files(Numbers), R \in Seq(Row) :
        a = [p |-> [player EXCEPT !.unworn = U], rows |-> R] /\ Joined(Now, <<item>>, U, R)
  BY <1>2, <1>3, <1>7, AddFields DEF a
<1>10. u.p = [player EXCEPT !.unworn = U, !.latest = player.latest + 1] /\ u.rows = R
  <2>1. Stocked(a, player, U, R)
    BY <1>9 DEF Stocked
  <2>2. Advanced(u, player, U, R, k)
    BY <1>3, <1>5, <2>1, LatestMoved
  <2> QED
    BY <2>2 DEF Advanced
<1>11. /\ u.p \in Player /\ u.rows \in Seq(Row) /\ u.p.unworn = U /\ u.rows = R
       /\ u.p.worn = player.worn /\ u.p.total = player.total /\ u.p.mp = player.mp
       /\ u.p.latest = player.latest + 1
  <2>1. player.latest + 1 \in Numbers
    BY <1>3, <1>6, LatestNumber
  <2>2. Restocks(player, U, player.latest + 1, u.p)
    BY <1>10 DEF Restocks
  <2>3. /\ u.p \in Player /\ u.p.unworn = U /\ u.p.latest = player.latest + 1
        /\ u.p.worn = player.worn /\ u.p.total = player.total /\ u.p.mp = player.mp
    BY <1>3, <2>1, <2>2, Restocked
  <2> QED
    BY <1>10, <2>3
<1>12. Sound(u, energy, excused, Cardinality(hidden)) /\ player.latest <= u.p.latest
  <2>1. /\ \A n \in Serials(<<item>>) : n \in player.latest + 1 .. u.p.latest
        /\ player.latest <= u.p.latest
    BY <1>3, <1>7, <1>8, <1>11
  <2>2. Joined(Now, <<item>>, u.p.unworn, u.rows)
    BY <1>9, <1>11
  <2> QED
    BY <1>1, <1>8, <1>11, <2>1, <2>2, GivenSound
<1>13. Settles(u)
  BY <1>1, <1>11 DEF Settles
<1>14. /\ energy' = energy /\ hidden' = hidden /\ excused' = excused /\ renewed' \in SUBSET excused
  BY <1>1, <1>2 DEF TypeInv
<1>15. /\ enriched' \in BOOLEAN /\ overfilled' \in BOOLEAN
       /\ overfilled' = (overfilled \/ player'.total + Cardinality(DOMAIN player'.unworn) > Space)
  BY <1>1, Zenon DEF Unchecked
<1> QED
  BY <1>2, <1>12, <1>13, <1>14, <1>15, Settled

\* What findItemBySerialInfo finds under a number is an item of that number.
LEMMA FoundItem ==
  ASSUME SafeInv, Handled, NEW n \in 1 .. MaxNumber, Held(n)
  PROVE  /\ Find(n) \in Item /\ Find(n).id \in Ids /\ Find(n).serial = n
         /\ n \in 1 .. player.latest
<1>1. player \in Player /\ Filed(player, excused) /\ player.latest \in Nat
  BY ServedRequest DEF Sound, TypeInv, Player, Numbers
<1>2. CASE Deletable(Now, n)
  <2>1. n \in DOMAIN player.unworn /\ Find(n) = player.unworn[n] /\ player.unworn[n].serial = n
    BY <1>2 DEF Deletable, Now, Find
  <2>2. player.unworn[n] \in Item
    BY <1>1, <2>1, FileItems DEF Player
  <2> QED
    BY <1>1, <2>1, <2>2 DEF Filed
<1>3. CASE ~Deletable(Now, n)
  <2>1. PICK w \in WornHere(n) : Find(n) = player.worn[w]
    <3>1. \E w \in WornHere(n) : TRUE
      BY <1>3 DEF Held
    <3>2. (CHOOSE w \in WornHere(n) : TRUE) \in WornHere(n)
      BY <3>1
    <3> QED
      BY <1>3, <3>2 DEF Find
  <2>2. w \in DOMAIN player.worn /\ player.worn[w].serial = n
    BY DEF WornHere
  <2>3. player.worn[w] \in Item
    BY <1>1, <2>2, FileItems DEF Player
  <2> QED
    BY <1>1, <2>1, <2>2, <2>3 DEF Filed
<1> QED
  BY <1>2, <1>3

LEMMA RenewSafe ==
  ASSUME SafeInv, NEW n \in 1 .. MaxNumber, RenewItem(n)
  PROVE  SafeInv'
<1> DEFINE u == ReplaceItem(n)
           X == excused \cup {n}
<1>1. Handled /\ Held(n)
  BY DEF RenewItem
<1>2. /\ excused' = X /\ renewed' = renewed \cup {n} /\ energy' = energy
      /\ hidden' = hidden /\ overfilled' = overfilled
  BY DEF RenewItem
<1>3. /\ TypeInv /\ Serving /\ online /\ online' = TRUE
      /\ Sound(Now, energy, excused, Cardinality(hidden)) /\ Cardinality(hidden) \in Nat
      /\ Now.p = player /\ energy \in EnergyUpdate \cup {None} /\ excused \in SUBSET Numbers
  BY <1>1, ServedRequest
<1>4. /\ Sound(u, energy, X, Cardinality(hidden)) /\ Steady(Now, u) /\ Room(u.p) = Room(player)
  BY <1>1, <1>3, ReplaceSound
<1>5. X \in SUBSET Numbers /\ renewed' \in SUBSET X
  BY <1>2, <1>3, ConstantsAssumption DEF TypeInv, Numbers
<1>6. Settles(u) /\ enriched' \in BOOLEAN
  <2>1. player \in Player
    BY <1>3 DEF TypeInv
  <2>2. After(1) \in 0 .. Money - 1
    BY <2>1, AfterType
  <2> QED
    BY <1>3, <1>4, <2>2 DEF RenewItem, Settles, Steady, TypeInv
<1>7. player.latest <= u.p.latest
  <2>1. player.latest \in Nat
    BY <1>3 DEF TypeInv, Player, Numbers
  <2> QED
    BY <1>3, <1>4, <2>1 DEF Steady
<1>8. (Room(u.p) <= Space \/ overfilled') /\ overfilled' \in BOOLEAN
  BY <1>2, <1>3, <1>4 DEF Serving, TypeInv
<1> QED
  BY <1>2, <1>3, <1>4, <1>5, <1>6, <1>7, <1>8, Settled

\* Less room is used.
LEMMA RoomShrinks ==
  ASSUME SafeInv, Handled, NEW p \in Player, Room(p) <= Room(player)
  PROVE  Room(p) <= Space \/ overfilled
<1>1. player \in Player /\ (Room(player) <= Space \/ overfilled)
  BY ServedRequest DEF TypeInv, Serving
<1>2. Room(player) \in Nat /\ Room(p) \in Nat /\ Space \in Nat
  BY <1>1, RoomType, ConstantsAssumption
<1> QED
  BY <1>1, <1>2

LEMMA DeletedSound ==
  ASSUME SafeInv, Handled, NEW n \in 1 .. MaxNumber
  PROVE  LET u == Delete(Now, n) IN
         /\ Sound(u, energy, excused, Cardinality(hidden)) /\ Steady(Now, u)
         /\ player.latest <= u.p.latest
         /\ Room(u.p) <= Space \/ overfilled
<1> DEFINE u == Delete(Now, n)
<1>1. /\ TypeInv /\ Sound(Now, energy, excused, Cardinality(hidden))
      /\ Cardinality(hidden) \in Nat /\ Now.p = player /\ energy \in EnergyUpdate \cup {None}
  BY ServedRequest
<1>2. /\ Sound(u, energy, excused, Cardinality(hidden)) /\ Steady(Now, u)
      /\ Deletable(Now, n) => Room(u.p) = Room(player) - 1
  BY <1>1, DeleteSound
<1>3. u.p \in Player /\ player \in Player
  BY <1>1, <1>2 DEF Sound, TypeInv
<1>4. Room(u.p) <= Room(player)
  <2>1. Room(player) \in Nat
    BY <1>3, RoomType
  <2>2. ~Deletable(Now, n) => u = Now
    BY DEF Delete
  <2> HIDE DEF u
  <2> QED
    BY <1>1, <1>2, <2>1, <2>2
<1> HIDE DEF u
<1>5. Room(u.p) <= Space \/ overfilled
  BY <1>3, <1>4, RoomShrinks
<1>6. player.latest <= u.p.latest
  <2>1. player.latest \in Nat
    BY <1>3 DEF Player, Numbers
  <2> QED
    BY <1>1, <1>2, <2>1 DEF Steady
<1> QED
  BY <1>2, <1>5, <1>6 DEF u

\* A handler that deletes, and settles
LEMMA DeletedSafe ==
  ASSUME SafeInv, Handled, NEW n \in 1 .. MaxNumber, Settles(Delete(Now, n)),
         energy' = energy, UNCHANGED <<excused, renewed, hidden, overfilled>>,
         enriched' \in BOOLEAN
  PROVE  SafeInv'
<1>1. /\ TypeInv /\ online /\ online' = TRUE /\ excused \in SUBSET Numbers
  BY ServedRequest
<1>2. /\ renewed' \in SUBSET excused /\ overfilled' \in BOOLEAN
      /\ hidden' = hidden /\ excused' = excused /\ overfilled' = overfilled
  BY <1>1 DEF TypeInv
<1> DEFINE u == Delete(Now, n)
<1>3. /\ Sound(u, energy, excused, Cardinality(hidden)) /\ player.latest <= u.p.latest
      /\ Room(u.p) <= Space \/ overfilled
  BY DeletedSound
<1> HIDE DEF u
<1>4. Settles(u)
  BY DEF u
<1> QED
  BY <1>1, <1>2, <1>3, <1>4, Settled

LEMMA DeleteSafe ==
  ASSUME SafeInv, NEW n \in 1 .. MaxNumber, DeleteItems(n)
  PROVE  SafeInv'
<1>1. Handled /\ FreeOfCharge(Delete(Now, n)) /\ energy' = energy /\ UNCHANGED history
  BY DEF DeleteItems, Unharmed
<1>2. Steady(Now, Delete(Now, n)) /\ Now.p = player /\ TypeInv
  BY <1>1, DeletedSound, ServedRequest
<1>3. Settles(Delete(Now, n))
  BY <1>1, <1>2 DEF Settles, Steady
<1>4. UNCHANGED <<excused, renewed, hidden, overfilled>> /\ enriched' \in BOOLEAN
  BY <1>1, <1>2 DEF history, TypeInv
<1> QED
  BY <1>1, <1>3, <1>4, DeletedSafe

LEMMA RefundSafe ==
  ASSUME SafeInv, NEW n \in 1 .. MaxNumber, RefundItem(n)
  PROVE  SafeInv'
<1> DEFINE sum == player.mp + Value(Find(n))
<1>1. Handled /\ Held(n) /\ sum < Money /\ SetMicroPoints(Delete(Now, n), sum)
      /\ UNCHANGED <<energy, excused, renewed, hidden, overfilled>>
  BY DEF RefundItem
<1>2. sum \in 0 .. Money - 1
  <2>1. Find(n) \in Item
    BY <1>1, FoundItem
  <2>2. Value(Find(n)) \in Nat
    BY <2>1 DEF Value, Item, MaxLevel
  <2>3. player.mp \in 0 .. Money - 1 /\ Money \in Nat
    BY <1>1, ServedRequest, Amounts DEF TypeInv, Player
  <2> QED
    BY <1>1, <2>2, <2>3
<1>3. Settles(Delete(Now, n))
  BY <1>1, <1>2 DEF Settles
<1>4. enriched' \in BOOLEAN
  BY Zenon DEF RefundItem
<1> QED
  BY <1>1, <1>3, <1>4, DeletedSafe

LEMMA RespawnedSound ==
  ASSUME SafeInv, Handled, NEW n \in 1 .. MaxNumber, Held(n),
         NEW item \in Item, item.id \in Ids, item.serial = n,
         NEW X, X = excused \cup (IF EnergyPending(n) \/ ~Deletable(Now, n) THEN {n} ELSE {})
  PROVE  LET u == Respawned(n, item) IN
         Sound(u, energy, X, Cardinality(hidden)) /\ Steady(Now, u)
<1> DEFINE v == Delete(Now, n)
           u == Add(v, item)
<1>1. /\ TypeInv /\ Sound(Now, energy, excused, Cardinality(hidden))
      /\ Cardinality(hidden) \in Nat /\ Now.p = player /\ energy \in EnergyUpdate \cup {None}
      /\ n \in 1 .. player.latest
  BY ServedRequest, FoundItem
<1>2. /\ Sound(v, energy, excused, Cardinality(hidden)) /\ Steady(Now, v)
      /\ Deletable(Now, n) /\ n \notin excused => Unused(v, n)
  BY <1>1, DeleteSound
<1> HIDE DEF v
<1>3. Sound(v, energy, X, Cardinality(hidden)) /\ v.p \in Player /\ v.rows \in Seq(Row)
  BY <1>2, SoundExcused DEF Sound
<1>4. Listed(<<item>>) /\ Serials(<<item>>) = {n}
  BY <1>3, AddFields
<1>5. PICK U \in Files(Numbers), R \in Seq(Row) :
        u = [p |-> [v.p EXCEPT !.unworn = U], rows |-> R] /\ Joined(v, <<item>>, U, R)
  BY <1>3, AddFields
<1> HIDE DEF u
<1>6. /\ u.p \in Player /\ u.rows = R /\ u.p.unworn = U /\ u.p.worn = v.p.worn
      /\ u.p.total = v.p.total /\ u.p.latest = v.p.latest
      /\ u.p.character = v.p.character /\ u.p.mp = v.p.mp
  BY <1>3, <1>5 DEF Player
<1>7. v.p.latest <= u.p.latest /\ n \in 1 .. u.p.latest
  <2>1. player.latest \in Nat
    BY <1>1 DEF TypeInv, Player, Numbers
  <2> QED
    BY <1>1, <1>2, <1>6, <2>1 DEF Steady
<1>8. n \notin X => Unused(v, n) /\ ~(energy # None /\ energy.number = n)
  <2>1. SUFFICES ASSUME n \notin X
                 PROVE  Unused(v, n) /\ ~(energy # None /\ energy.number = n)
    OBVIOUS
  <2>2. n \notin excused /\ ~EnergyPending(n) /\ Deletable(Now, n)
    BY <2>1
  <2>3. ~(energy # None /\ energy.number = n)
    BY <2>2, Zenon DEF EnergyPending
  <2> QED
    BY <1>2, <2>2, <2>3
<1>9. Sound(u, energy, X, Cardinality(hidden))
  <2>1. Joined(v, <<item>>, u.p.unworn, u.rows) /\ u.rows \in Seq(Row)
    BY <1>5, <1>6
  <2>2. \A m \in Serials(<<item>>) :
          /\ m \in 1 .. u.p.latest
          /\ m \notin X => Unused(v, m) /\ ~(energy # None /\ energy.number = m)
    BY <1>4, <1>7, <1>8
  <2> QED
    BY <1>1, <1>3, <1>4, <1>6, <1>7, <2>1, <2>2, JoinedSound
<1>10. Steady(Now, u)
  BY <1>2, <1>6 DEF Steady
<1> QED
  BY <1>9, <1>10 DEF u, v, Respawned

\* A handler that replaces an item by a new one, excuses it if need be, and settles
LEMMA RespawnedSafe ==
  ASSUME SafeInv, Handled, NEW n \in 1 .. MaxNumber, Held(n),
         NEW item \in Item, item.id \in Ids, item.serial = n,
         Settles(Respawned(n, item)), energy' = energy, Excuse(n)
  PROVE  SafeInv'
<1> DEFINE u == Respawned(n, item)
           X == excused \cup (IF EnergyPending(n) \/ ~Deletable(Now, n) THEN {n} ELSE {})
<1>1. Sound(u, energy, X, Cardinality(hidden)) /\ Steady(Now, u)
  BY RespawnedSound
<1>2. TypeInv /\ online /\ online' = TRUE /\ Now.p = player /\ excused \in SUBSET Numbers
  BY ServedRequest
<1>3. X \in SUBSET Numbers /\ renewed \in SUBSET X
  BY <1>2, ConstantsAssumption DEF TypeInv, Numbers
<1>4. excused' = X /\ renewed' = renewed /\ hidden' = hidden
  BY DEF Excuse
<1>5. /\ enriched' \in BOOLEAN /\ overfilled' \in BOOLEAN
      /\ overfilled' = (overfilled \/ player'.total + Cardinality(DOMAIN player'.unworn) > Space)
  BY Zenon DEF Excuse, Unchecked
<1>6. Settles(u)
  OBVIOUS
<1> HIDE DEF u, X
<1>7. player.latest <= u.p.latest
  <2>1. player.latest \in Nat
    BY <1>2 DEF TypeInv, Player, Numbers
  <2> QED
    BY <1>1, <1>2, <2>1 DEF Steady
<1> QED
  BY <1>1, <1>2, <1>3, <1>4, <1>5, <1>6, <1>7, Settled

LEMMA FailUpgradeSafe ==
  ASSUME SafeInv, NEW n \in 1 .. MaxNumber, FailUpgrade(n)
  PROVE  SafeInv'
<1> DEFINE item == NewItem(Find(n).id, Find(n).level, n)
<1>1. /\ Handled /\ Held(n) /\ FreeOfCharge(Respawned(n, item)) /\ Excuse(n) /\ energy' = energy
  BY DEF FailUpgrade, Upgradable
<1>2. Find(n) \in Item /\ Find(n).id \in Ids /\ n \in Numbers
  BY <1>1, FoundItem, ConstantsAssumption DEF Numbers
<1>3. item \in Item /\ item.id \in Ids /\ item.serial = n
  BY <1>2 DEF NewItem, Item
<1> HIDE DEF item
<1>4. Steady(Now, Respawned(n, item)) /\ Now.p = player
  BY <1>1, <1>3, RespawnedSound, ServedRequest
<1>5. Settles(Respawned(n, item))
  BY <1>1, <1>4 DEF Settles, Steady
<1> QED
  BY <1>1, <1>3, <1>5, RespawnedSafe

LEMMA PaidAfter ==
  ASSUME SafeInv, Handled, NEW v, SetMicroPoints(v, After(1))
  PROVE  Settles(v)
<1>1. After(1) \in 0 .. Money - 1
  BY ServedRequest, AfterType DEF TypeInv
<1> QED
  BY <1>1 DEF Settles

LEMMA UpgradeSafe ==
  ASSUME SafeInv, NEW n \in 1 .. MaxNumber, UpgradeItem(n)
  PROVE  SafeInv'
<1> DEFINE item == NewItem(Find(n).id, Find(n).level + 1, n)
<1>1. /\ Handled /\ Held(n) /\ Find(n).level < MaxLevel /\ Excuse(n) /\ energy' = energy
      /\ SetMicroPoints(Respawned(n, item), After(1))
  BY DEF UpgradeItem, Upgradable
<1>2. Find(n) \in Item /\ Find(n).id \in Ids /\ n \in Numbers
  BY <1>1, FoundItem, ConstantsAssumption DEF Numbers
<1>3. item \in Item /\ item.id \in Ids /\ item.serial = n
  BY <1>1, <1>2 DEF NewItem, Item, MaxLevel
<1> HIDE DEF item
<1>4. Settles(Respawned(n, item))
  BY <1>1, PaidAfter
<1> QED
  BY <1>1, <1>3, <1>4, RespawnedSafe

LEMMA GambleSafe ==
  ASSUME SafeInv, NEW n \in 1 .. MaxNumber, GambleItem(n)
  PROVE  SafeInv'
<1> DEFINE item == NewItem(Find(n).id, 0, n)
<1>1. /\ Handled /\ Held(n) /\ Excuse(n) /\ energy' = energy
      /\ SetMicroPoints(Respawned(n, item), After(1))
  BY DEF GambleItem, Held
<1>2. Find(n) \in Item /\ Find(n).id \in Ids /\ n \in Numbers
  BY <1>1, FoundItem, ConstantsAssumption DEF Numbers
<1>3. item \in Item /\ item.id \in Ids /\ item.serial = n
  BY <1>2 DEF NewItem, Item, MaxLevel
<1> HIDE DEF item
<1>4. Settles(Respawned(n, item))
  BY <1>1, PaidAfter
<1> QED
  BY <1>1, <1>3, <1>4, RespawnedSafe

LEMMA AddEnergySafe ==
  ASSUME SafeInv, NEW n \in 1 .. MaxNumber, AddEnergy(n)
  PROVE  SafeInv'
<1> DEFINE t == [number |-> n, energy |-> Find(n).energy + 1, battery |-> player'.battery]
           Y == excused \cup (IF energy = None \/ EnergyPending(n) THEN {} ELSE {energy.number})
<1>1. /\ Handled /\ Held(n) /\ player.battery >= 1 /\ player' = EnergyAdded(n) /\ energy' = t
      /\ excused' = Y
      /\ UNCHANGED <<table, purse, renewed, hidden, enriched, overfilled>>
  BY DEF AddEnergy, QueueEnergy
<1>2. /\ TypeInv /\ Serving /\ online /\ online' = TRUE
      /\ Sound(Now, energy, excused, Cardinality(hidden)) /\ Cardinality(hidden) \in Nat
      /\ Now.p = player /\ energy \in EnergyUpdate \cup {None} /\ excused \in SUBSET Numbers
  BY <1>1, ServedRequest
<1>3. player \in Player /\ table \in Seq(Row) /\ Find(n) \in Item
  BY <1>1, <1>2, FoundItem DEF TypeInv
<1>4. player' \in Player
  BY <1>1, <1>3, EnergyFields DEF UnwornChanged, WornChanged
<1>5. t \in EnergyUpdate /\ t.number = n /\ t.energy = Find(n).energy + 1
  <2>1. n \in Nat /\ Find(n).energy + 1 \in Nat /\ player'.battery \in Nat
    <3>1. n \in Nat
      BY ConstantsAssumption
    <3>2. Find(n).energy + 1 \in Nat
      BY <1>3 DEF Item
    <3>3. player'.battery \in Nat
      BY <1>4 DEF Player
    <3> QED
      BY <3>1, <3>2, <3>3
  <2> QED
    BY <2>1 DEF EnergyUpdate
<1> HIDE DEF t
<1>6. excused \subseteq Y /\ (energy = None \/ energy.number = n \/ energy.number \in Y)
  BY DEF EnergyPending
<1>7. Y \in SUBSET Numbers
  <2>1. energy # None => energy.number \in Numbers
    <3>1. player.latest \in Numbers /\ MaxNumber \in Nat
      BY <1>3, ConstantsAssumption DEF Player
    <3> QED
      BY <1>2, <3>1 DEF Serving, Numbers
  <2> QED
    BY <1>2, <2>1
<1> HIDE DEF Y
<1>8. Now'.p = EnergyAdded(n) /\ Now'.rows = table
  BY <1>1 DEF Now
<1>9. /\ n \in 1 .. player.latest
      /\ Sound(Now', t, Y, Cardinality(hidden)) /\ Steady(Now, Now')
      /\ Room(Now'.p) = Room(player)
  <2>1. ASSUME NEW u, u.p = EnergyAdded(n), u.rows = table
        PROVE  /\ n \in 1 .. player.latest
               /\ Sound(u, t, Y, Cardinality(hidden)) /\ Steady(Now, u) /\ Room(u.p) = Room(player)
    <3>1. Held(n) /\ player.battery >= 1
      BY <1>1
    <3>2. EnergyQueued(energy, excused, n, Y, t)
      BY <1>5, <1>6 DEF EnergyQueued
    <3> QED
      BY <1>2, <2>1, <3>1, <3>2, EnergySound
  <2> QED
    BY <1>8, <2>1
<1>10. TypeInv'
  BY <1>1, <1>2, <1>4, <1>5, <1>6, <1>7 DEF TypeInv
<1>11. Serving'
  <2>1. Sound(Now, energy, excused, Cardinality(hidden))'
    BY <1>1, <1>9
  <2>2. energy'.number \in 1 .. player'.latest /\ player'.mp = player.mp
    BY <1>1, <1>2, <1>5, <1>8, <1>9 DEF Steady
  <2>3. Room(player') <= Space \/ overfilled'
    BY <1>1, <1>2, <1>8, <1>9 DEF Serving
  <2> QED
    BY <1>1, <1>2, <2>1, <2>2, <2>3 DEF Serving
<1> QED
  BY <1>2, <1>10, <1>11 DEF SafeInv

LEMMA EquipSafe ==
  ASSUME SafeInv, NEW n \in 1 .. MaxNumber, EquipItem(n)
  PROVE  SafeInv'
<1> DEFINE u == Equip(Now, n)
<1>1. /\ Handled /\ n \in (DOMAIN player.unworn \ {0}) \cup renewed /\ FreeOfCharge(u)
      /\ energy' = energy /\ excused' = excused /\ renewed' = renewed /\ hidden' = hidden
      /\ IF n \in DOMAIN player.unworn THEN UNCHANGED <<enriched, overfilled>> ELSE Unchecked(FALSE)
  BY DEF EquipItem
<1>2. /\ TypeInv /\ Serving /\ online /\ online' = TRUE
      /\ Sound(Now, energy, excused, Cardinality(hidden)) /\ Cardinality(hidden) \in Nat
      /\ Now.p = player /\ energy \in EnergyUpdate \cup {None} /\ excused \in SUBSET Numbers
      /\ renewed \in SUBSET excused
  BY <1>1, ServedRequest DEF TypeInv
<1>3. n \in DOMAIN player.unworn \/ n \in excused
  BY <1>1, <1>2
<1>4. /\ Sound(u, energy, excused, Cardinality(hidden)) /\ Steady(Now, u)
      /\ n \in DOMAIN player.unworn => Room(u.p) <= Room(player)
  BY <1>2, <1>3, EquipSound
<1> HIDE DEF u
<1>5. player.latest <= u.p.latest /\ u.p \in Player /\ player \in Player
  <2>1. player.latest \in Nat
    BY <1>2 DEF TypeInv, Player, Numbers
  <2> QED
    BY <1>2, <1>4, <2>1 DEF Steady, Sound, TypeInv
<1>6. Settles(u)
  BY <1>1, <1>2, <1>4 DEF Settles, Steady
<1>7. CASE n \in DOMAIN player.unworn
  <2>1. Room(u.p) <= Space \/ overfilled
    BY <1>1, <1>4, <1>5, <1>7, RoomShrinks
  <2>2. enriched' \in BOOLEAN /\ overfilled' = overfilled /\ overfilled' \in BOOLEAN
    BY <1>1, <1>2, <1>7 DEF TypeInv
  <2>3. Room(u.p) <= Space \/ overfilled'
    BY <2>1, <2>2
  <2> QED
    BY <1>1, <1>2, <1>4, <1>5, <1>6, <2>2, <2>3, Settled
<1>8. CASE n \notin DOMAIN player.unworn
  <2>1. Unchecked(FALSE)
    BY <1>1, <1>8
  <2>2. /\ enriched' \in BOOLEAN /\ overfilled' \in BOOLEAN
        /\ overfilled' = (overfilled \/ player'.total + Cardinality(DOMAIN player'.unworn) > Space)
    BY <2>1, Zenon DEF Unchecked
  <2> QED
    BY <1>1, <1>2, <1>4, <1>5, <1>6, <2>2, Settled
<1> QED
  BY <1>7, <1>8

LEMMA UnequipSafe ==
  ASSUME SafeInv, NEW slot \in Slots, UnequipItem(slot)
  PROVE  SafeInv'
<1> DEFINE u == Unequip(Now, slot)
<1>1. Handled /\ FreeOfCharge(u) /\ energy' = energy /\ UNCHANGED history
  BY DEF UnequipItem, Unharmed
<1>2. /\ TypeInv /\ Serving /\ online /\ online' = TRUE
      /\ Sound(Now, energy, excused, Cardinality(hidden)) /\ Cardinality(hidden) \in Nat
      /\ Now.p = player /\ energy \in EnergyUpdate \cup {None} /\ excused \in SUBSET Numbers
  BY <1>1, ServedRequest
<1>3. /\ Sound(u, energy, excused, Cardinality(hidden)) /\ Steady(Now, u)
      /\ Room(u.p) <= Room(player)
  BY <1>2, UnequipSound
<1> HIDE DEF u
<1>4. player.latest <= u.p.latest /\ u.p \in Player
  <2>1. player.latest \in Nat
    BY <1>2 DEF TypeInv, Player, Numbers
  <2> QED
    BY <1>2, <1>3, <2>1 DEF Steady, Sound
<1>5. Settles(u)
  BY <1>1, <1>2, <1>3 DEF Settles, Steady
<1>6. Room(u.p) <= Space \/ overfilled
  BY <1>1, <1>3, <1>4, RoomShrinks
<1>7. /\ hidden' = hidden /\ excused' = excused /\ renewed' \in SUBSET excused
      /\ enriched' \in BOOLEAN /\ overfilled' = overfilled /\ overfilled' \in BOOLEAN
  BY <1>1, <1>2 DEF history, TypeInv
<1>8. Room(u.p) <= Space \/ overfilled'
  BY <1>6, <1>7
<1> QED
  BY <1>1, <1>2, <1>3, <1>4, <1>5, <1>7, <1>8, Settled

LEMMA SelectSafe ==
  ASSUME SafeInv, NEW c \in Characters, SelectCharacter(c)
  PROVE  SafeInv'
<1>1. /\ Handled /\ player' = [player EXCEPT !.character = c]
      /\ purse' = [purse EXCEPT !.character = c]
      /\ UNCHANGED <<table, energy>> /\ UNCHANGED history
  BY DEF SelectCharacter, SetLatestCharacterSelected, CharacterUpdated, Unharmed
<1>2. /\ TypeInv /\ Serving /\ online /\ online' = TRUE
      /\ Sound(Now, energy, excused, Cardinality(hidden)) /\ Now.p = player /\ Now.rows = table
  BY <1>1, ServedRequest
<1>3. player \in Player /\ purse \in PurseType
  BY <1>2 DEF TypeInv
<1>4. /\ player' \in Player /\ player'.unworn = player.unworn /\ player'.worn = player.worn
      /\ player'.total = player.total /\ player'.latest = player.latest
      /\ player'.mp = player.mp
  BY <1>1, <1>3 DEF Player
<1>5. purse' \in PurseType /\ purse'.mp = purse.mp
  BY <1>1, <1>3 DEF PurseType
<1>6. Now'.p = player' /\ Now'.rows = table
  BY <1>1 DEF Now
<1>7. Sound(Now', energy, excused, Cardinality(hidden)) /\ Room(Now'.p) = Room(player)
  BY <1>2, <1>4, <1>6, SoundElsewhere
<1>8. TypeInv'
  BY <1>1, <1>2, <1>4, <1>5 DEF TypeInv, history
<1>9. Serving'
  <2>1. energy' = energy /\ excused' = excused /\ hidden' = hidden /\ overfilled' = overfilled
    BY <1>1 DEF history
  <2>2. Sound(Now, energy, excused, Cardinality(hidden))'
    BY <1>7, <2>1
  <2> QED
    BY <1>2, <1>4, <1>5, <1>6, <1>7, <2>1, <2>2 DEF Serving
<1> QED
  BY <1>2, <1>8, <1>9 DEF SafeInv

----------------------------------------------------------------------------
(* What the rows are worth *)

\* Row i as such is worth a level and its being fresh.
UnitsAt(rows, i) == {u \in Units(rows) : u[1] = i}

\* The columns that make a Value are the same, row by row.
Alike(rows, r) ==
  /\ DOMAIN r = DOMAIN rows
  /\ \A i \in DOMAIN rows : r[i].level = rows[i].level /\ r[i].fresh = rows[i].fresh

LEMMA UnitsAlike ==
  ASSUME NEW rows, NEW r, Alike(rows, r)
  PROVE  Units(r) = Units(rows)
<1>1. DOMAIN r = DOMAIN rows
      /\ \A i \in DOMAIN rows : r[i].level = rows[i].level /\ r[i].fresh = rows[i].fresh
  BY DEF Alike
<1>2. ASSUME NEW u
      PROVE  u \in Units(r) <=> u \in Units(rows)
  BY <1>1 DEF Units
<1> QED
  BY <1>2

LEMMA UnitsFinite ==
  ASSUME NEW rows \in Seq(Row)
  PROVE  IsFiniteSet(Units(rows)) /\ Cardinality(Units(rows)) \in Nat
<1> DEFINE D == DOMAIN rows
           L == 0 .. MaxLevel
<1>1. IsFiniteSet(D)
  <2>1. Len(rows) \in Nat /\ D = 1 .. Len(rows)
    OBVIOUS
  <2>2. IsFiniteSet(1 .. Len(rows))
    BY <2>1, FS_Interval
  <2> QED
    BY <2>1, <2>2
<1>2. IsFiniteSet(L)
  <2>1. \A x, y \in Int : IsFiniteSet(x .. y)
    BY FS_Interval
  <2>2. 0 \in Int /\ MaxLevel \in Int
    BY DEF MaxLevel
  <2> QED
    BY <2>1, <2>2
<1>3. Units(rows) \in SUBSET (D \X L)
  BY DEF Units
<1> HIDE DEF D, L
<1>4. IsFiniteSet(D \X L)
  BY <1>1, <1>2, FS_Product
<1> QED
  BY <1>3, <1>4, FS_Subset, FS_CardinalityType

\* The units of a row are as many as its Value says.
LEMMA UnitsValue ==
  ASSUME NEW rows \in Seq(Row), NEW i \in DOMAIN rows
  PROVE  IsFiniteSet(UnitsAt(rows, i)) /\ Cardinality(UnitsAt(rows, i)) = Value(rows[i])
<1> DEFINE U == UnitsAt(rows, i)
           a == <<i, 0>>
           b == <<i, 1>>
<1>1. rows[i] \in Row /\ rows[i].level \in {0, 1} /\ rows[i].fresh \in BOOLEAN
  <2>1. rows[i] \in Row
    OBVIOUS
  <2> QED
    BY <2>1 DEF Row, MaxLevel
<1>2. \A u : u \in U <=> (u = a /\ rows[i].fresh) \/ (u = b /\ 1 <= rows[i].level)
  <2>1. ASSUME NEW u \in U
        PROVE  (u = a /\ rows[i].fresh) \/ (u = b /\ 1 <= rows[i].level)
    <3>1. u = <<u[1], u[2]>> /\ u[1] = i /\ u[2] \in {0, 1}
          /\ IF u[2] = 0 THEN rows[u[1]].fresh ELSE u[2] <= rows[u[1]].level
      BY DEF UnitsAt, Units, MaxLevel
    <3> QED
      BY <3>1
  <2>2. rows[i].fresh => a \in U
    BY DEF UnitsAt, Units, MaxLevel
  <2>3. 1 <= rows[i].level => b \in U
    BY DEF UnitsAt, Units, MaxLevel
  <2> QED
    BY <2>1, <2>2, <2>3
<1>3. a # b
  OBVIOUS
<1> HIDE DEF U, a, b
<1>4. \A x, y : x # y => /\ Cardinality({x}) = 1 /\ Cardinality({x, y}) = 2
                         /\ IsFiniteSet({x}) /\ IsFiniteSet({x, y})
  <2>1. ASSUME NEW x, NEW y, x # y
        PROVE  /\ Cardinality({x}) = 1 /\ Cardinality({x, y}) = 2
               /\ IsFiniteSet({x}) /\ IsFiniteSet({x, y})
    <3>1. IsFiniteSet({x}) /\ Cardinality({x}) = 1
      BY FS_Singleton
    <3>2. /\ IsFiniteSet({x} \cup {y})
          /\ Cardinality({x} \cup {y}) = Cardinality({x}) + 1
      BY <2>1, <3>1, FS_AddElement
    <3>3. Cardinality({x} \cup {y}) = 2
      <4>1. \A c, d : c = 1 /\ d = c + 1 => d = 2
        OBVIOUS
      <4> QED
        BY <3>1, <3>2, <4>1, Zenon
    <3>4. {x} \cup {y} = {x, y}
      OBVIOUS
    <3> QED
      BY <3>1, <3>2, <3>3, <3>4, Zenon
  <2> QED
    BY <2>1
<1>5. CASE rows[i].fresh /\ rows[i].level = 1
  <2>1. U = {a, b} /\ Value(rows[i]) = 2
    BY <1>2, <1>5 DEF Value
  <2>2. IsFiniteSet(U) /\ Cardinality(U) = 2
    BY <1>3, <1>4, <2>1
  <2> QED
    BY <2>1, <2>2 DEF U
<1>6. CASE rows[i].fresh /\ rows[i].level = 0
  <2>1. U = {a} /\ Value(rows[i]) = 1
    BY <1>2, <1>6 DEF Value
  <2>2. IsFiniteSet(U) /\ Cardinality(U) = 1
    BY <1>3, <1>4, <2>1
  <2> QED
    BY <2>1, <2>2 DEF U
<1>7. CASE ~rows[i].fresh /\ rows[i].level = 1
  <2>1. U = {b} /\ Value(rows[i]) = 1
    BY <1>2, <1>7 DEF Value
  <2>2. IsFiniteSet(U) /\ Cardinality(U) = 1
    BY <1>3, <1>4, <2>1
  <2> QED
    BY <2>1, <2>2 DEF U
<1>8. CASE ~rows[i].fresh /\ rows[i].level = 0
  <2>1. U = {} /\ Value(rows[i]) = 0
    BY <1>2, <1>8 DEF Value
  <2> QED
    BY <2>1, FS_EmptySet DEF U
<1> QED
  BY <1>1, <1>5, <1>6, <1>7, <1>8

\* A new row adds its Value.
LEMMA UnitsInserted ==
  ASSUME NEW rows \in Seq(Row), NEW item \in Item, item.id \in Ids
  PROVE  Cardinality(Units(Inserted(rows, item))) = Cardinality(Units(rows)) + Value(item)
<1> DEFINE r == Inserted(rows, item)
           e == Len(rows) + 1
           A == Units(rows)
           B == UnitsAt(r, e)
<1>1. /\ r \in Seq(Row) /\ DOMAIN r = 1 .. e /\ DOMAIN rows = 1 .. Len(rows)
      /\ Len(rows) \in Nat /\ e \in DOMAIN r /\ e \notin DOMAIN rows
      /\ \A i \in DOMAIN rows : r[i] = rows[i]
      /\ r[e] = AsRow(item)
  BY InsertedRows
<1>2. Value(r[e]) = Value(item)
  BY <1>1 DEF Value, AsRow
<1> HIDE DEF r
<1>3. Units(r) = A \cup B
  <2>1. ASSUME NEW u \in Units(r)
        PROVE  u \in A \/ u \in B
    <3>1. u \in (DOMAIN r) \X (0 .. MaxLevel)
          /\ IF u[2] = 0 THEN r[u[1]].fresh ELSE u[2] <= r[u[1]].level
      BY DEF Units
    <3>2. CASE u[1] = e
      BY <3>2 DEF UnitsAt
    <3>3. CASE u[1] # e
      <4>1. u[1] \in DOMAIN rows /\ r[u[1]] = rows[u[1]]
        BY <1>1, <3>1, <3>3
      <4>2. u \in (DOMAIN rows) \X (0 .. MaxLevel)
        BY <3>1, <4>1
      <4> QED
        BY <3>1, <4>1, <4>2 DEF Units
    <3> QED
      BY <3>2, <3>3
  <2>2. ASSUME NEW u \in A
        PROVE  u \in Units(r)
    <3>1. u \in (DOMAIN rows) \X (0 .. MaxLevel) /\ u[1] \in DOMAIN rows
          /\ IF u[2] = 0 THEN rows[u[1]].fresh ELSE u[2] <= rows[u[1]].level
      BY DEF Units
    <3>2. u[1] \in DOMAIN r /\ r[u[1]] = rows[u[1]]
      BY <1>1, <3>1
    <3>3. u \in (DOMAIN r) \X (0 .. MaxLevel)
      BY <3>1, <3>2
    <3> QED
      BY <3>1, <3>2, <3>3 DEF Units
  <2>3. B \in SUBSET Units(r)
    BY DEF UnitsAt
  <2> QED
    BY <2>1, <2>2, <2>3
<1>4. A \cap B = {}
  BY <1>1 DEF Units, UnitsAt
<1>5. IsFiniteSet(A) /\ Cardinality(A) \in Nat /\ IsFiniteSet(B) /\ Cardinality(B) = Value(item)
  BY <1>1, <1>2, UnitsFinite, UnitsValue
<1>6. Value(item) \in Nat
  BY DEF Value, Item, MaxLevel
<1> HIDE DEF A, B
<1>7. Cardinality(A \cup B) = Cardinality(A) + Cardinality(B)
  <2>1. Cardinality(A \cup B) = Cardinality(A) + Cardinality(B) - Cardinality(A \cap B)
    BY <1>5, FS_Union
  <2>2. Cardinality(A \cap B) = 0
    BY <1>4, FS_EmptySet
  <2> QED
    BY <1>5, <1>6, <2>1, <2>2
<1> QED
  BY <1>3, <1>5, <1>7 DEF r, A

\* So many new items, fresh and of no level, add as many units.
LEMMA UnitsExtended ==
  ASSUME NEW rows \in Seq(Row), NEW items, Listed(items),
         \A i \in DOMAIN items : items[i].level = 0 /\ items[i].fresh = TRUE
  PROVE  Cardinality(Units(Extended(rows, items))) = Cardinality(Units(rows)) + Len(items)
<1> DEFINE r == Extended(rows, items)
           n == Len(rows)
           k == Len(items)
           A == Units(rows)
           I == 1 .. k
           B == {<<n + i, 0>> : i \in I}
<1>1. /\ r \in Seq(Row) /\ Len(r) = n + k /\ Behind(r, rows, items)
      /\ items \in Seq(Item)
  BY ExtendedRows DEF Listed
<1>2. n \in Nat /\ k \in Nat /\ DOMAIN rows = 1 .. n /\ DOMAIN items = I
  BY <1>1
<1> HIDE DEF r
<1>3. /\ \A j \in DOMAIN rows : j \in DOMAIN r /\ r[j] = rows[j]
      /\ \A i \in I : n + i \in DOMAIN r /\ r[n + i].level = 0 /\ r[n + i].fresh = TRUE
      /\ \A j \in DOMAIN r : j \in DOMAIN rows \/ \E i \in I : j = n + i
  <2>1. \A i \in I : r[n + i] = AsRow(items[i])
    BY <1>1, <1>2 DEF Behind
  <2>2. ASSUME NEW i \in I
        PROVE  r[n + i].level = 0 /\ r[n + i].fresh = TRUE
    <3>1. i \in DOMAIN items
      BY <1>2
    <3>2. items[i].level = 0 /\ items[i].fresh = TRUE
      BY <3>1
    <3>3. r[n + i] = AsRow(items[i])
      BY <2>1
    <3> HIDE DEF n, I, k
    <3> QED
      BY <3>2, <3>3 DEF AsRow
  <2> QED
    BY <1>1, <1>2, <2>2 DEF Behind
<1>4. Units(r) = A \cup B
  <2>1. ASSUME NEW u \in Units(r)
        PROVE  u \in A \/ u \in B
    <3>1. u \in (DOMAIN r) \X (0 .. MaxLevel) /\ u[1] \in DOMAIN r /\ u[2] \in {0, 1}
          /\ u = <<u[1], u[2]>>
          /\ IF u[2] = 0 THEN r[u[1]].fresh ELSE u[2] <= r[u[1]].level
      BY DEF Units, MaxLevel
    <3>2. CASE u[1] \in DOMAIN rows
      <4>1. r[u[1]] = rows[u[1]]
        BY <1>3, <3>2
      <4> QED
        BY <3>1, <3>2, <4>1 DEF Units
    <3>3. CASE u[1] \notin DOMAIN rows
      <4>1. PICK i \in I : u[1] = n + i
        BY <1>3, <3>1, <3>3
      <4>2. r[u[1]].level = 0
        BY <1>3, <4>1
      <4>3. u[2] = 0
        BY <3>1, <4>2
      <4> QED
        BY <3>1, <4>1, <4>3
    <3> QED
      BY <3>2, <3>3
  <2>2. ASSUME NEW u \in A
        PROVE  u \in Units(r)
    <3>1. u \in (DOMAIN rows) \X (0 .. MaxLevel) /\ u[1] \in DOMAIN rows
          /\ IF u[2] = 0 THEN rows[u[1]].fresh ELSE u[2] <= rows[u[1]].level
      BY DEF Units
    <3>2. u[1] \in DOMAIN r /\ r[u[1]] = rows[u[1]]
      BY <1>3, <3>1
    <3> QED
      BY <3>1, <3>2 DEF Units
  <2>3. ASSUME NEW i \in I
        PROVE  <<n + i, 0>> \in Units(r)
    BY <1>3 DEF Units, MaxLevel
  <2> QED
    BY <2>1, <2>2, <2>3
<1>5. A \cap B = {}
  BY <1>2 DEF Units
<1>6. IsFiniteSet(B) /\ Cardinality(B) = k
  <2> DEFINE f == [i \in I |-> <<n + i, 0>>]
  <2>1. \A i, j \in I : f[i] = f[j] => i = j
    BY <1>2
  <2>2. f \in [I -> B] /\ \A b \in B : \E i \in I : f[i] = b
    OBVIOUS
  <2>3. IsFiniteSet(I) /\ Cardinality(I) = k
    <3>1. \A x \in Nat : IsFiniteSet(1 .. x) /\ Cardinality(1 .. x) = x
      BY FS_Interval
    <3> QED
      BY <1>2, <3>1
  <2> HIDE DEF f, I, B, k
  <2>4. f \in Bijection(I, B)
    BY <2>1, <2>2 DEF Bijection, Injection, Surjection, IsInjective
  <2>5. ExistsBijection(I, B)
    BY <2>4 DEF ExistsBijection
  <2> QED
    BY <2>3, <2>5, FS_Bijection
<1>7. IsFiniteSet(A) /\ Cardinality(A) \in Nat
  BY UnitsFinite
<1> HIDE DEF A, B, k
<1>8. Cardinality(A \cup B) = Cardinality(A) + k
  <2>1. Cardinality(A \cup B) = Cardinality(A) + Cardinality(B) - Cardinality(A \cap B)
    BY <1>6, <1>7, FS_Union
  <2>2. Cardinality(A \cap B) = 0
    BY <1>5, FS_EmptySet
  <2> QED
    BY <1>2, <1>6, <1>7, <2>1, <2>2
<1> QED
  BY <1>4, <1>8 DEF A, k, r

\* A renewal of a number that names one row makes that row fresh.
LEMMA UnitsRenewed ==
  ASSUME NEW rows \in Seq(Row), NEW m, Unique(rows, m)
  PROVE  Cardinality(Units(Renewed(rows, m))) <= Cardinality(Units(rows)) + 1
<1> DEFINE r == Renewed(rows, m)
           A == Units(rows)
           i == CHOOSE j \in DOMAIN rows : rows[j].number = m
           b == <<i, 0>>
<1>1. /\ r \in Seq(Row) /\ DOMAIN r = DOMAIN rows
      /\ \A j \in DOMAIN rows :
           r[j] = IF rows[j].number = m THEN [rows[j] EXCEPT !.fresh = TRUE] ELSE rows[j]
  BY RenewedRows
<1>2. \A j \in DOMAIN rows : rows[j].number = m => j = i
  <2>1. ASSUME NEW j \in DOMAIN rows, rows[j].number = m
        PROVE  j = i
    <3>1. i \in DOMAIN rows /\ rows[i].number = m
      BY <2>1
    <3> HIDE DEF i
    <3> QED
      BY <2>1, <3>1 DEF Unique
  <2> QED
    BY <2>1
<1> HIDE DEF r, i
<1>3. Units(r) \in SUBSET (A \cup {b})
  <2>1. ASSUME NEW u \in Units(r)
        PROVE  u \in A \/ u = b
    <3>1. u \in (DOMAIN rows) \X (0 .. MaxLevel) /\ u[1] \in DOMAIN rows /\ u = <<u[1], u[2]>>
          /\ IF u[2] = 0 THEN r[u[1]].fresh ELSE u[2] <= r[u[1]].level
      BY <1>1 DEF Units
    <3>2. rows[u[1]] \in Row
      BY <3>1
    <3>3. r[u[1]].level = rows[u[1]].level
      BY <1>1, <3>1, <3>2 DEF Row
    <3>4. CASE rows[u[1]].number = m /\ u[2] = 0
      BY <1>2, <3>1, <3>4
    <3>5. CASE rows[u[1]].number # m \/ u[2] # 0
      <4>1. rows[u[1]].number # m => r[u[1]] = rows[u[1]]
        BY <1>1, <3>1
      <4>2. IF u[2] = 0 THEN rows[u[1]].fresh ELSE u[2] <= rows[u[1]].level
        BY <3>1, <3>3, <3>5, <4>1
      <4> QED
        BY <3>1, <4>2 DEF Units
    <3> QED
      BY <3>4, <3>5
  <2> QED
    BY <2>1
<1>4. IsFiniteSet(A) /\ Cardinality(A) \in Nat
  BY UnitsFinite
<1> HIDE DEF A, b
<1>5. IsFiniteSet(A \cup {b}) /\ Cardinality(A \cup {b}) <= Cardinality(A) + 1
      /\ Cardinality(A \cup {b}) \in Nat
  <2>1. IsFiniteSet(A \cup {b})
        /\ Cardinality(A \cup {b}) = IF b \in A THEN Cardinality(A) ELSE Cardinality(A) + 1
    BY <1>4, FS_AddElement
  <2> QED
    BY <1>4, <2>1
<1>6. Cardinality(Units(r)) <= Cardinality(A \cup {b}) /\ Cardinality(Units(r)) \in Nat
  BY <1>1, <1>3, <1>5, FS_Subset, UnitsFinite
<1>7. Cardinality(Units(r)) <= Cardinality(A) + 1
  BY <1>4, <1>5, <1>6
<1> QED
  BY <1>7 DEF r, A

\* A removal takes the units of every row that it removes.
LEMMA UnitsRemoved ==
  ASSUME NEW rows \in Seq(Row), NEW m
  PROVE  /\ Cardinality(Units(Removed(rows, m))) <= Cardinality(Units(rows))
         /\ \A k \in DOMAIN rows : rows[k].number = m =>
              Cardinality(Units(Removed(rows, m))) + Value(rows[k]) <= Cardinality(Units(rows))
<1> DEFINE r == Removed(rows, m)
           A == Units(rows)
           B == Units(r)
<1>1. r \in Seq(Row)
  BY RemovedRows
<1>2. PICK from \in [DOMAIN r -> {i \in DOMAIN rows : rows[i].number # m}] :
        /\ \A i \in DOMAIN r : r[i] = rows[from[i]]
        /\ \A i, j \in DOMAIN r : from[i] = from[j] => i = j
  BY RemovedRows
<1> HIDE DEF r
<1> DEFINE g == [u \in B |-> <<from[u[1]], u[2]>>]
<1>3. ASSUME NEW u \in B
      PROVE  /\ u[1] \in DOMAIN r /\ u = <<u[1], u[2]>> /\ g[u] \in A
             /\ g[u] = <<from[u[1]], u[2]>> /\ rows[from[u[1]]].number # m
  <2>1. u \in (DOMAIN r) \X (0 .. MaxLevel) /\ u[1] \in DOMAIN r /\ u = <<u[1], u[2]>>
        /\ u[2] \in 0 .. MaxLevel
        /\ IF u[2] = 0 THEN r[u[1]].fresh ELSE u[2] <= r[u[1]].level
    BY DEF Units
  <2>2. from[u[1]] \in DOMAIN rows /\ r[u[1]] = rows[from[u[1]]] /\ rows[from[u[1]]].number # m
    BY <1>2, <2>1
  <2>3. <<from[u[1]], u[2]>> \in A
    BY <2>1, <2>2 DEF Units
  <2> QED
    BY <2>1, <2>2, <2>3
<1>4. ASSUME NEW u \in B, NEW z \in B, g[u] = g[z]
      PROVE  u = z
  <2>1. from[u[1]] = from[z[1]] /\ u[2] = z[2]
    BY <1>3, <1>4
  <2>2. u[1] = z[1]
    BY <1>2, <1>3, <2>1
  <2> QED
    BY <1>3, <2>1, <2>2
<1>5. IsFiniteSet(A) /\ Cardinality(A) \in Nat /\ IsFiniteSet(B) /\ Cardinality(B) \in Nat
  BY <1>1, UnitsFinite
<1>6. ASSUME NEW C \in SUBSET A, \A u \in B : g[u] \in C
      PROVE  Cardinality(B) <= Cardinality(C)
  <2>1. g \in [B -> C]
    BY <1>6
  <2> HIDE DEF g, A, B
  <2>2. g \in Injection(B, C)
    BY <1>4, <2>1 DEF Injection, IsInjective
  <2>3. IsFiniteSet(C)
    BY <1>5, FS_Subset
  <2> QED
    BY <2>2, <2>3, FS_Injection
<1>7. Cardinality(B) <= Cardinality(A)
  BY <1>3, <1>6
<1>8. ASSUME NEW k \in DOMAIN rows, rows[k].number = m
      PROVE  Cardinality(B) + Value(rows[k]) <= Cardinality(A)
  <2> DEFINE D == UnitsAt(rows, k)
  <2>1. IsFiniteSet(D) /\ Cardinality(D) = Value(rows[k]) /\ D \in SUBSET A
    BY UnitsValue DEF UnitsAt
  <2>2. Cardinality(D) \in Nat
    BY <2>1, FS_CardinalityType
  <2>3. \A u \in B : g[u] \in A \ D
    <3>1. ASSUME NEW u \in B
          PROVE  g[u] \notin D
      <4>1. g[u][1] = from[u[1]] /\ rows[from[u[1]]].number # m
        BY <1>3
      <4> QED
        BY <1>8, <4>1 DEF UnitsAt
    <3> QED
      BY <1>3, <3>1
  <2> HIDE DEF D, g, A, B
  <2>4. Cardinality(B) <= Cardinality(A \ D)
    BY <1>6, <2>3
  <2>5. Cardinality(A \ D) = Cardinality(A) - Cardinality(D)
    <3>1. A \cap D = D
      BY <2>1
    <3> QED
      BY <1>5, <3>1, FS_Difference
  <2>6. Cardinality(B) + Cardinality(D) <= Cardinality(A)
    BY <1>5, <2>2, <2>4, <2>5
  <2> QED
    BY <2>1, <2>6
<1> QED
  BY <1>7, <1>8 DEF r

----------------------------------------------------------------------------
(* What the player holds is worth what the rows say *)

\* What the rows of number n are worth
Values(rows, n) == {Value(row) : row \in RowsOf(rows, n)}

\* The number n names one row and at most one item, which is worth what the row is.
Backed(p, rows, n) ==
  /\ Unique(rows, n)
  /\ n \in DOMAIN p.unworn => WornAs(p, n) = {}
  /\ \A w, z \in WornAs(p, n) : w = z
  /\ n \in DOMAIN p.unworn /\ p.unworn[n].serial = n => Value(p.unworn[n]) \in Values(rows, n)
  /\ \A w \in WornAs(p, n) : Value(p.worn[w]) \in Values(rows, n)

BackedAll(p, rows) == \A n \in 1 .. MaxNumber : Backed(p, rows, n)

\* What nobody wears, and what one character wears
LEMMA BackedUnworn ==
  ASSUME NEW p, NEW rows, NEW n, Unique(rows, n), WornAs(p, n) = {},
         n \in DOMAIN p.unworn => Value(p.unworn[n]) \in Values(rows, n)
  PROVE  Backed(p, rows, n)
  BY DEF Backed

LEMMA BackedWorn ==
  ASSUME NEW p, NEW rows, NEW n, Unique(rows, n), n \notin DOMAIN p.unworn,
         NEW w, WornAs(p, n) = {w}, Value(p.worn[w]) \in Values(rows, n)
  PROVE  Backed(p, rows, n)
  BY DEF Backed

\* p and o hold the same under number n, as far as its value goes.
HeldAlike(p, o, n) ==
  /\ n \in DOMAIN o.unworn <=> n \in DOMAIN p.unworn
  /\ n \in DOMAIN p.unworn =>
       o.unworn[n].serial = p.unworn[n].serial /\ Value(o.unworn[n]) = Value(p.unworn[n])
  /\ WornAs(o, n) = WornAs(p, n)
  /\ \A w \in WornAs(p, n) : Value(o.worn[w]) = Value(p.worn[w])

LEMMA BackedCarried ==
  ASSUME NEW p, NEW o, NEW rows, NEW r, NEW n, Backed(p, rows, n),
         HeldAlike(p, o, n), Values(r, n) = Values(rows, n), Unique(r, n)
  PROVE  Backed(o, r, n)
  BY DEF Backed, HeldAlike

\* A number that names nothing but a row of its own
LEMMA BackedNothing ==
  ASSUME NEW p, NEW rows, NEW n, Unique(rows, n), WornAs(p, n) = {},
         n \in DOMAIN p.unworn => p.unworn[n].serial # n
  PROVE  Backed(p, rows, n)
  BY DEF Backed

\* The columns that make a Value are the same, and so are the numbers.
Twin(rows, r) == Alike(rows, r) /\ \A i \in DOMAIN rows : r[i].number = rows[i].number

LEMMA TwinValues ==
  ASSUME NEW rows, NEW r, Twin(rows, r), NEW n
  PROVE  Values(r, n) = Values(rows, n) /\ (Unique(rows, n) => Unique(r, n))
<1>1. /\ DOMAIN r = DOMAIN rows
      /\ \A i \in DOMAIN rows : r[i].number = rows[i].number /\ Value(r[i]) = Value(rows[i])
  BY DEF Twin, Alike, Value
<1>2. Values(r, n) = {Value(r[i]) : i \in {j \in DOMAIN r : r[j].number = n}}
  BY DEF Values, RowsOf
<1>3. Values(rows, n) = {Value(rows[i]) : i \in {j \in DOMAIN rows : rows[j].number = n}}
  BY DEF Values, RowsOf
<1>4. Values(r, n) = Values(rows, n)
  BY <1>1, <1>2, <1>3
<1>5. Unique(rows, n) => Unique(r, n)
  BY <1>1 DEF Unique
<1> QED
  BY <1>4, <1>5

LEMMA PlacedTwin ==
  ASSUME NEW rows \in Seq(Row), NEW m, NEW c \in Characters \cup {0}
  PROVE  Placed(rows, m, c) \in Seq(Row) /\ Twin(rows, Placed(rows, m, c))
<1>1. /\ Placed(rows, m, c) \in Seq(Row) /\ DOMAIN Placed(rows, m, c) = DOMAIN rows
      /\ \A i \in DOMAIN rows :
           Placed(rows, m, c)[i] = IF rows[i].number = m THEN [rows[i] EXCEPT !.place = c]
                                   ELSE rows[i]
  BY PlacedRows
<1>2. ASSUME NEW i \in DOMAIN rows
      PROVE  /\ Placed(rows, m, c)[i].number = rows[i].number
             /\ Placed(rows, m, c)[i].level = rows[i].level
             /\ Placed(rows, m, c)[i].fresh = rows[i].fresh
  <2>1. rows[i] \in Row
    OBVIOUS
  <2> QED
    BY <1>1, <2>1 DEF Row
<1> QED
  BY <1>1, <1>2 DEF Twin, Alike

LEMMA SwappedTwin ==
  ASSUME NEW rows \in Seq(Row), NEW off, NEW on, NEW c \in Characters
  PROVE  Twin(rows, Swapped(rows, off, on, c))
<1> DEFINE r == Placed(rows, on, c)
<1>1. r \in Seq(Row) /\ Twin(rows, r)
  BY PlacedTwin
<1> HIDE DEF r
<1>2. Twin(r, Placed(r, off, 0))
  BY <1>1, PlacedTwin
<1>3. Swapped(rows, off, on, c) = Placed(r, off, 0)
  BY DEF Swapped, r
<1> QED
  BY <1>1, <1>2, <1>3 DEF Twin, Alike

LEMMA EnergisedTwin ==
  ASSUME NEW rows \in Seq(Row), NEW q \in EnergyUpdate \cup {None}
  PROVE  Twin(rows, Energised(rows, q))
<1>1. /\ DOMAIN Energised(rows, q) = DOMAIN rows
      /\ \A i \in DOMAIN rows :
           Energised(rows, q)[i] =
             IF q # None /\ rows[i].number = q.number THEN [rows[i] EXCEPT !.energy = q.energy]
             ELSE rows[i]
  BY EnergisedRows
<1>2. ASSUME NEW i \in DOMAIN rows
      PROVE  /\ Energised(rows, q)[i].number = rows[i].number
             /\ Energised(rows, q)[i].level = rows[i].level
             /\ Energised(rows, q)[i].fresh = rows[i].fresh
  <2>1. rows[i] \in Row
    OBVIOUS
  <2> QED
    BY <1>1, <2>1 DEF Row
<1> QED
  BY <1>1, <1>2 DEF Twin, Alike

\* After an item has been taken off
LEMMA TakenOffBacked ==
  ASSUME NEW v, v.p \in Player, v.rows \in Seq(Row), NEW n, Backed(v.p, v.rows, n),
         NEW w, NEW item, NEW u, TakenOff(v, w, item, u)
  PROVE  Backed(u.p, u.rows, n) /\ Twin(v.rows, u.rows)
<1>1. Twin(v.rows, u.rows)
  BY PlacedTwin DEF TakenOff
<1>2. Values(u.rows, n) = Values(v.rows, n) /\ Unique(u.rows, n)
  BY <1>1, TwinValues DEF Backed
<1>3. /\ w \in DOMAIN v.p.worn /\ item = v.p.worn[w]
      /\ DOMAIN u.p.unworn = DOMAIN v.p.unworn \cup {item.serial}
      /\ u.p.unworn[item.serial] = item
      /\ \A k \in DOMAIN v.p.unworn \ {item.serial} : u.p.unworn[k] = v.p.unworn[k]
  BY DEF TakenOff, Put
<1>4. /\ DOMAIN u.p.worn = DOMAIN v.p.worn \ {w}
      /\ \A x \in DOMAIN v.p.worn \ {w} : u.p.worn[x] = v.p.worn[x]
  BY DEF TakenOff, Restrict
<1>5. CASE n = item.serial
  <2>1. w \in WornAs(v.p, n)
    BY <1>3, <1>5 DEF WornAs
  <2>2. WornAs(u.p, n) = {}
    BY <1>4, <2>1 DEF WornAs, Backed
  <2>3. Value(u.p.unworn[n]) \in Values(u.rows, n)
    BY <1>2, <1>3, <1>5, <2>1 DEF Backed
  <2> QED
    BY <1>1, <1>2, <2>2, <2>3, BackedUnworn
<1>6. CASE n # item.serial
  <2>1. WornAs(u.p, n) = WornAs(v.p, n) /\ \A x \in WornAs(v.p, n) : u.p.worn[x] = v.p.worn[x]
    <3>1. Aside(v.p, u.p, w, n)
      BY <1>3, <1>4, <1>6 DEF Aside
    <3> QED
      BY <3>1, WornElsewhere
  <2>2. /\ n \in DOMAIN u.p.unworn <=> n \in DOMAIN v.p.unworn
        /\ n \in DOMAIN v.p.unworn => u.p.unworn[n] = v.p.unworn[n]
    BY <1>3, <1>6
  <2>3. HeldAlike(v.p, u.p, n)
    BY <2>1, <2>2 DEF HeldAlike
  <2> QED
    BY <1>1, <1>2, <2>3, BackedCarried
<1> QED
  BY <1>1, <1>5, <1>6

\* What may be equipped under m: the item that is filed there, or one without a number
AtHand(p, m, item) ==
  /\ item \in Item /\ m # 0 /\ item.serial \in {0, m}
  /\ item.serial # 0 => m \in DOMAIN p.unworn /\ item = p.unworn[m]

\* After an item has been put on in place of another
LEMMA ExchangedBacked ==
  ASSUME NEW v, v.p \in Player, v.rows \in Seq(Row), NEW n, n # 0, Backed(v.p, v.rows, n),
         NEW m, NEW item, AtHand(v.p, m, item),
         NEW w, NEW off, NEW left, NEW u, Exchanged(v, m, item, w, off, left, u)
  PROVE  Backed(u.p, u.rows, n) /\ Twin(v.rows, u.rows)
<1>1. Twin(v.rows, u.rows)
  BY SwappedTwin DEF Exchanged, Player
<1>2. Values(u.rows, n) = Values(v.rows, n) /\ Unique(u.rows, n)
  BY <1>1, TwinValues DEF Backed
<1>3. /\ w \in DOMAIN v.p.worn /\ off = v.p.worn[w]
      /\ DOMAIN u.p.unworn = (DOMAIN v.p.unworn \ {m}) \cup {off.serial}
      /\ u.p.unworn[off.serial] = off
      /\ \A k \in DOMAIN v.p.unworn \ {m, off.serial} : u.p.unworn[k] = v.p.unworn[k]
  <2>1. w \in DOMAIN v.p.worn /\ off = v.p.worn[w] /\ u.p.unworn = Put(left, off.serial, off)
    BY DEF Exchanged
  <2>2. /\ DOMAIN left = DOMAIN v.p.unworn \ {m}
        /\ \A k \in DOMAIN v.p.unworn \ {m} : left[k] = v.p.unworn[k]
    BY DEF Exchanged, Restrict
  <2>3. /\ DOMAIN u.p.unworn = DOMAIN left \cup {off.serial} /\ u.p.unworn[off.serial] = off
        /\ \A k \in DOMAIN left \ {off.serial} : u.p.unworn[k] = left[k]
    BY <2>1 DEF Put
  <2> QED
    BY <2>1, <2>2, <2>3
<1>4. /\ DOMAIN u.p.worn = DOMAIN v.p.worn /\ u.p.worn[w] = item
      /\ \A x \in DOMAIN v.p.worn \ {w} : u.p.worn[x] = v.p.worn[x]
  BY DEF Exchanged, Player, Files
<1>5. CASE n = off.serial
  <2>1. w \in WornAs(v.p, n)
    BY <1>3, <1>5 DEF WornAs
  <2>2. n \notin DOMAIN v.p.unworn /\ \A x \in WornAs(v.p, n) : x = w
    BY <2>1 DEF Backed
  <2>3. item.serial # n
    BY <2>2 DEF AtHand
  <2>4. WornAs(u.p, n) = {}
    BY <1>4, <2>2, <2>3 DEF WornAs
  <2>5. Value(u.p.unworn[n]) \in Values(u.rows, n)
    BY <1>2, <1>3, <1>5, <2>1 DEF Backed
  <2> QED
    BY <1>1, <1>2, <2>4, <2>5, BackedUnworn
<1>6. CASE n # off.serial /\ n = item.serial
  <2>1. n = m /\ n \in DOMAIN v.p.unworn /\ item = v.p.unworn[n]
    BY <1>6 DEF AtHand
  <2>2. WornAs(v.p, n) = {} /\ Value(item) \in Values(v.rows, n)
    BY <1>6, <2>1 DEF Backed
  <2>3. WornAs(u.p, n) = {w}
    BY <1>3, <1>4, <1>6, <2>2 DEF WornAs
  <2>4. n \notin DOMAIN u.p.unworn
    BY <1>3, <1>6, <2>1
  <2>5. Value(u.p.worn[w]) \in Values(u.rows, n)
    BY <1>2, <1>4, <2>2
  <2> QED
    BY <1>1, <1>2, <2>3, <2>4, <2>5, BackedWorn
<1>7. CASE n # off.serial /\ n # item.serial
  <2>1. WornAs(u.p, n) = WornAs(v.p, n) /\ \A x \in WornAs(v.p, n) : u.p.worn[x] = v.p.worn[x]
    <3>1. Aside(v.p, u.p, w, n)
      BY <1>3, <1>4, <1>7 DEF Aside
    <3> QED
      BY <3>1, WornElsewhere
  <2>2. n \in DOMAIN u.p.unworn =>
          n \in DOMAIN v.p.unworn /\ u.p.unworn[n] = v.p.unworn[n]
    BY <1>3, <1>7
  <2> QED
    BY <1>1, <1>2, <2>1, <2>2 DEF Backed
<1> QED
  BY <1>1, <1>5, <1>6, <1>7

\* and where nothing was worn
LEMMA FilledBacked ==
  ASSUME NEW v, v.p \in Player, v.rows \in Seq(Row), NEW n, n # 0, Backed(v.p, v.rows, n),
         NEW m, NEW item, AtHand(v.p, m, item),
         NEW w, NEW left, NEW u, Filled(v, m, item, w, left, u)
  PROVE  Backed(u.p, u.rows, n) /\ Twin(v.rows, u.rows)
<1>1. Twin(v.rows, u.rows)
  BY PlacedTwin DEF Filled, Player
<1>2. Values(u.rows, n) = Values(v.rows, n) /\ Unique(u.rows, n)
  BY <1>1, TwinValues DEF Backed
<1>3. /\ w \notin DOMAIN v.p.worn /\ DOMAIN u.p.unworn = DOMAIN v.p.unworn \ {m}
      /\ \A k \in DOMAIN v.p.unworn \ {m} : u.p.unworn[k] = v.p.unworn[k]
  BY DEF Filled, Restrict
<1>4. /\ DOMAIN u.p.worn = DOMAIN v.p.worn \cup {w} /\ u.p.worn[w] = item
      /\ \A x \in DOMAIN v.p.worn : u.p.worn[x] = v.p.worn[x]
  BY <1>3 DEF Filled, Put
<1>5. CASE n = item.serial
  <2>1. n = m /\ n \in DOMAIN v.p.unworn /\ item = v.p.unworn[n]
    BY <1>5 DEF AtHand
  <2>2. WornAs(v.p, n) = {} /\ Value(item) \in Values(v.rows, n)
    BY <1>5, <2>1 DEF Backed
  <2>3. WornAs(u.p, n) = {w}
    BY <1>4, <1>5, <2>2 DEF WornAs
  <2>4. n \notin DOMAIN u.p.unworn
    BY <1>3, <2>1
  <2>5. Value(u.p.worn[w]) \in Values(u.rows, n)
    BY <1>2, <1>4, <2>2
  <2> QED
    BY <1>1, <1>2, <2>3, <2>4, <2>5, BackedWorn
<1>6. CASE n # item.serial
  <2>1. WornAs(u.p, n) = WornAs(v.p, n) /\ \A x \in WornAs(v.p, n) : u.p.worn[x] = v.p.worn[x]
    <3>1. Aside(v.p, u.p, w, n)
      BY <1>3, <1>4, <1>6 DEF Aside
    <3> QED
      BY <3>1, WornElsewhere
  <2>2. n \in DOMAIN u.p.unworn =>
          n \in DOMAIN v.p.unworn /\ u.p.unworn[n] = v.p.unworn[n]
    BY <1>3
  <2> QED
    BY <1>1, <1>2, <2>1, <2>2 DEF Backed
<1> QED
  BY <1>1, <1>5, <1>6

----------------------------------------------------------------------------
(* The operations keep what is held worth what is stored *)

LEMMA TwinAgain ==
  ASSUME NEW rows, NEW r, NEW s, Twin(rows, r), Twin(r, s)
  PROVE  Twin(rows, s)
  BY DEF Twin, Alike

LEMMA TwinSelf ==
  ASSUME NEW rows
  PROVE  Twin(rows, rows)
  BY DEF Twin, Alike

LEMMA UnequipBacked ==
  ASSUME NEW v, v.p \in Player, v.rows \in Seq(Row), BackedAll(v.p, v.rows), NEW slot \in Slots
  PROVE  LET u == Unequip(v, slot) IN
         /\ BackedAll(u.p, u.rows) /\ Twin(v.rows, u.rows)
         /\ \A n \in 1 .. MaxNumber : n \in DOMAIN v.p.unworn =>
              n \in DOMAIN u.p.unworn /\ u.p.unworn[n] = v.p.unworn[n]
<1>1. CASE ~IsWorn(v, slot)
  BY <1>1, TwinSelf DEF Unequip
<1>2. CASE IsWorn(v, slot)
  <2> DEFINE u == Unequip(v, slot)
  <2>1. PICK w, item : TakenOff(v, w, item, u)
    BY <1>2, UnequipFields
  <2> HIDE DEF u
  <2>2. ASSUME NEW n \in 1 .. MaxNumber
        PROVE  Backed(v.p, v.rows, n) /\ Backed(u.p, u.rows, n)
    BY <2>1, TakenOffBacked DEF BackedAll
  <2>3. Twin(v.rows, u.rows)
    BY <2>1, PlacedTwin DEF TakenOff
  <2>4. ASSUME NEW n \in 1 .. MaxNumber, n \in DOMAIN v.p.unworn
        PROVE  n \in DOMAIN u.p.unworn /\ u.p.unworn[n] = v.p.unworn[n]
    <3>1. w \in DOMAIN v.p.worn /\ item = v.p.worn[w]
          /\ u.p.unworn = Put(v.p.unworn, item.serial, item)
      BY <2>1 DEF TakenOff
    <3>2. WornAs(v.p, n) = {}
      BY <2>2, <2>4 DEF Backed
    <3>3. item.serial # n
      BY <3>1, <3>2 DEF WornAs
    <3> QED
      BY <2>4, <3>1, <3>3 DEF Put
  <2> QED
    BY <2>2, <2>3, <2>4 DEF u, BackedAll
<1> QED
  BY <1>1, <1>2

LEMMA PutOnBacked ==
  ASSUME NEW v, v.p \in Player, v.rows \in Seq(Row), BackedAll(v.p, v.rows),
         NEW m, NEW item, AtHand(v.p, m, item)
  PROVE  LET u == PutOn(v, m, item) IN BackedAll(u.p, u.rows) /\ Twin(v.rows, u.rows)
<1> DEFINE u == PutOn(v, m, item)
<1>1. item \in Item
  BY DEF AtHand
<1>2. \A n \in 1 .. MaxNumber : n # 0 /\ Backed(v.p, v.rows, n)
  BY DEF BackedAll
<1>3. CASE Here(v, Slot(item.id)) \in DOMAIN v.p.worn
  <2>1. PICK w, off, left : Exchanged(v, m, item, w, off, left, u)
    BY <1>1, <1>3, ExchangeFields
  <2> HIDE DEF u
  <2>2. Twin(v.rows, u.rows)
    BY <2>1, SwappedTwin DEF Exchanged, Player
  <2>3. \A n \in 1 .. MaxNumber : Backed(u.p, u.rows, n)
    BY <1>2, <2>1, ExchangedBacked
  <2> QED
    BY <2>2, <2>3 DEF u, BackedAll
<1>4. CASE Here(v, Slot(item.id)) \notin DOMAIN v.p.worn
  <2>1. PICK w, left : Filled(v, m, item, w, left, u)
    BY <1>1, <1>4, FillFields
  <2> HIDE DEF u
  <2>2. Twin(v.rows, u.rows)
    BY <2>1, PlacedTwin DEF Filled, Player
  <2>3. \A n \in 1 .. MaxNumber : Backed(u.p, u.rows, n)
    BY <1>2, <2>1, FilledBacked
  <2> QED
    BY <2>2, <2>3 DEF u, BackedAll
<1> QED
  BY <1>3, <1>4

LEMMA EquipBacked ==
  ASSUME NEW v, NEW q \in EnergyUpdate \cup {None}, NEW X, NEW h \in Nat, Sound(v, q, X, h),
         BackedAll(v.p, v.rows), NEW n \in 1 .. MaxNumber
  PROVE  LET u == Equip(v, n) IN BackedAll(u.p, u.rows) /\ Twin(v.rows, u.rows)
<1> DEFINE item == IF n \in DOMAIN v.p.unworn THEN v.p.unworn[n] ELSE NoItem
           slot == Slot(item.id)
           bare == CASE slot = "set" -> Unequip(v, "head")
                     [] slot \in Parts -> Unequip(v, "set")
                     [] OTHER -> v
           u == Equip(v, n)
<1>1. u = PutOn(bare, n, item)
  BY DEF Equip
<1>2. v.p \in Player /\ v.rows \in Seq(Row) /\ Filed(v.p, X) /\ v.p.unworn \in Files(Numbers)
  BY DEF Sound, Player
<1>3. n # 0
  OBVIOUS
<1>4. AtHand(v.p, n, item)
  <2>1. CASE n \in DOMAIN v.p.unworn
    <3>1. item = v.p.unworn[n]
      BY <2>1
    <3> HIDE DEF item
    <3> QED
      BY <1>2, <1>3, <2>1, <3>1, FileItems DEF Filed, AtHand
  <2>2. CASE n \notin DOMAIN v.p.unworn
    <3>1. item = NoItem
      BY <2>2
    <3> HIDE DEF item
    <3>2. NoItem \in Item /\ NoItem.serial = 0
      <4>1. 0 \in Numbers /\ 0 \in 0 .. MaxLevel
        BY ConstantsAssumption DEF Numbers, MaxLevel
      <4> QED
        BY <4>1 DEF NoItem, Item
    <3> QED
      BY <1>3, <3>1, <3>2 DEF AtHand
  <2> QED
    BY <2>1, <2>2
<1> HIDE DEF item
<1>5. bare = v \/ \E s \in Slots : bare = Unequip(v, s)
  <2>1. CASE slot = "set"
    BY <2>1 DEF Slots
  <2>2. CASE slot # "set" /\ slot \in Parts
    BY <2>2 DEF Slots
  <2>3. CASE slot # "set" /\ slot \notin Parts
    BY <2>3
  <2> QED
    BY <2>1, <2>2, <2>3
<1> HIDE DEF bare
<1>6. /\ bare.p \in Player /\ bare.rows \in Seq(Row)
      /\ BackedAll(bare.p, bare.rows) /\ Twin(v.rows, bare.rows)
      /\ n \in DOMAIN v.p.unworn =>
           n \in DOMAIN bare.p.unworn /\ bare.p.unworn[n] = v.p.unworn[n]
  <2>1. CASE bare = v
    BY <1>2, <2>1, TwinSelf
  <2>2. ASSUME NEW s \in Slots, bare = Unequip(v, s)
        PROVE  /\ bare.p \in Player /\ bare.rows \in Seq(Row)
               /\ BackedAll(bare.p, bare.rows) /\ Twin(v.rows, bare.rows)
               /\ n \in DOMAIN v.p.unworn =>
                    n \in DOMAIN bare.p.unworn /\ bare.p.unworn[n] = v.p.unworn[n]
    <3>1. Sound(bare, q, X, h)
      BY <2>2, UnequipSound
    <3> QED
      BY <1>2, <2>2, <3>1, UnequipBacked DEF Sound
  <2> QED
    BY <1>5, <2>1, <2>2
<1>7. AtHand(bare.p, n, item)
  BY <1>4, <1>6 DEF AtHand
<1> HIDE DEF u
<1>8. BackedAll(u.p, u.rows) /\ Twin(bare.rows, u.rows)
  BY <1>1, <1>6, <1>7, PutOnBacked
<1> QED
  BY <1>6, <1>8, TwinAgain DEF u

\* A deletion takes no less from the rows than the item was worth.
LEMMA DeleteBacked ==
  ASSUME NEW v, v.p \in Player, v.rows \in Seq(Row), BackedAll(v.p, v.rows),
         NEW m \in 1 .. MaxNumber
  PROVE  LET u == Delete(v, m) IN
         /\ BackedAll(u.p, u.rows)
         /\ Cardinality(Units(u.rows)) <= Cardinality(Units(v.rows))
         /\ Deletable(v, m) =>
              /\ Unused(u, m)
              /\ Cardinality(Units(u.rows)) + Value(v.p.unworn[m]) <= Cardinality(Units(v.rows))
<1>1. CASE ~Deletable(v, m)
  BY <1>1, UnitsFinite DEF Delete
<1>2. CASE Deletable(v, m)
  <2> DEFINE u == Delete(v, m)
  <2>1. Deleted(v, m, u)
    BY <1>2, DeleteFields
  <2> HIDE DEF u
  <2>2. /\ DOMAIN u.p.unworn = DOMAIN v.p.unworn \ {m} /\ m \in DOMAIN v.p.unworn
        /\ \A k \in DOMAIN v.p.unworn \ {m} : u.p.unworn[k] = v.p.unworn[k]
        /\ u.p.worn = v.p.worn /\ u.rows = Removed(v.rows, m)
    BY <2>1 DEF Deleted, Restrict
  <2>3. \A n : WornAs(u.p, n) = WornAs(v.p, n)
    BY <2>2 DEF WornAs
  <2>4. Backed(v.p, v.rows, m) /\ v.p.unworn[m].serial = m
    BY <1>2 DEF BackedAll, Deletable
  <2>5. WornAs(v.p, m) = {} /\ Value(v.p.unworn[m]) \in Values(v.rows, m)
    BY <2>2, <2>4 DEF Backed
  <2>6. Unused(u, m)
    <3>1. RowsOf(u.rows, m) = {}
      BY <2>2, RemovedNumbers
    <3> QED
      BY <2>2, <2>3, <2>5, <3>1 DEF Unused
  <2>7. ASSUME NEW n \in 1 .. MaxNumber
        PROVE  Backed(u.p, u.rows, n)
    <3>1. Backed(v.p, v.rows, n)
      BY DEF BackedAll
    <3>2. Unique(u.rows, n) /\ (n # m => RowsOf(u.rows, n) = RowsOf(v.rows, n))
      BY <2>2, <3>1, RemovedNumbers DEF Backed
    <3>3. CASE n = m
      BY <2>2, <2>3, <2>5, <3>2, <3>3, BackedNothing
    <3>4. CASE n # m
      <4>1. Values(u.rows, n) = Values(v.rows, n)
        BY <3>2, <3>4 DEF Values
      <4>2. HeldAlike(v.p, u.p, n)
        BY <2>2, <2>3, <3>4 DEF HeldAlike
      <4> QED
        BY <3>1, <3>2, <4>1, <4>2, BackedCarried
    <3> QED
      BY <3>3, <3>4
  <2>8. PICK k \in DOMAIN v.rows :
          v.rows[k].number = m /\ Value(v.rows[k]) = Value(v.p.unworn[m])
    BY <2>5 DEF Values, RowsOf
  <2>9. /\ Cardinality(Units(u.rows)) <= Cardinality(Units(v.rows))
        /\ Cardinality(Units(u.rows)) + Value(v.rows[k]) <= Cardinality(Units(v.rows))
    BY <2>2, <2>8, UnitsRemoved
  <2> QED
    BY <2>6, <2>7, <2>8, <2>9 DEF u, BackedAll
<1> QED
  BY <1>1, <1>2

\* New items under numbers that nothing has are worth what their rows are.
LEMMA JoinedBacked ==
  ASSUME NEW v, v.p \in Player, v.rows \in Seq(Row), BackedAll(v.p, v.rows),
         NEW items, Listed(items), NEW u, Joined(v, items, u.p.unworn, u.rows),
         u.p.worn = v.p.worn, \A n \in Serials(items) : Unused(v, n)
  PROVE  BackedAll(u.p, u.rows)
<1> SUFFICES ASSUME NEW n \in 1 .. MaxNumber
             PROVE  Backed(u.p, u.rows, n)
  BY DEF BackedAll
<1>1. /\ DOMAIN u.p.unworn = DOMAIN v.p.unworn \cup Serials(items)
      /\ \A i \in DOMAIN items : u.p.unworn[items[i].serial] = items[i]
      /\ \A k \in DOMAIN v.p.unworn \ Serials(items) : u.p.unworn[k] = v.p.unworn[k]
      /\ u.rows = Extended(v.rows, items)
  BY DEF Joined
<1>2. WornAs(u.p, n) = WornAs(v.p, n)
  BY DEF WornAs
<1>3. Backed(v.p, v.rows, n)
  BY DEF BackedAll
<1>4. CASE n \in Serials(items)
  <2>1. PICK i \in DOMAIN items : items[i].serial = n
    BY <1>4 DEF Serials
  <2>2. Unused(v, n)
    BY <1>4
  <2>3. RowsOf(u.rows, n) = {AsRow(items[i])} /\ Unique(u.rows, n)
    <3>1. RowsOf(v.rows, items[i].serial) = {}
      BY <2>1, <2>2 DEF Unused
    <3>2. /\ RowsOf(Extended(v.rows, items), items[i].serial) = {AsRow(items[i])}
          /\ Unique(Extended(v.rows, items), items[i].serial)
      BY <3>1, ExtendedNew
    <3> QED
      BY <1>1, <2>1, <3>2
  <2>4. Value(AsRow(items[i])) = Value(items[i])
    BY DEF Value, AsRow
  <2>5. Value(u.p.unworn[n]) \in Values(u.rows, n)
    BY <1>1, <2>1, <2>3, <2>4 DEF Values
  <2>6. WornAs(u.p, n) = {}
    BY <1>2, <2>2 DEF Unused
  <2> QED
    BY <2>3, <2>5, <2>6 DEF Backed
<1>5. CASE n \notin Serials(items)
  <2>1. RowsOf(u.rows, n) = RowsOf(v.rows, n) /\ Unique(u.rows, n)
    BY <1>1, <1>3, <1>5, ExtendedOther DEF Backed
  <2>2. Values(u.rows, n) = Values(v.rows, n)
    BY <2>1 DEF Values
  <2>3. HeldAlike(v.p, u.p, n)
    BY <1>1, <1>2, <1>5 DEF HeldAlike
  <2> QED
    BY <1>3, <2>1, <2>2, <2>3, BackedCarried
<1> QED
  BY <1>4, <1>5

LEMMA RenewedUnique ==
  ASSUME NEW rows \in Seq(Row), NEW m, NEW n, Unique(rows, n)
  PROVE  Unique(Renewed(rows, m), n)
<1>1. /\ DOMAIN Renewed(rows, m) = DOMAIN rows
      /\ \A i \in DOMAIN rows :
           Renewed(rows, m)[i] = IF rows[i].number = m THEN [rows[i] EXCEPT !.fresh = TRUE]
                                 ELSE rows[i]
  BY RenewedRows
<1>2. ASSUME NEW i \in DOMAIN rows
      PROVE  Renewed(rows, m)[i].number = rows[i].number
  <2>1. rows[i] \in Row
    OBVIOUS
  <2> QED
    BY <1>1, <2>1 DEF Row
<1> QED
  BY <1>1, <1>2 DEF Unique

\* After a renewal nothing has the number but a row.
LEMMA ReplaceBacked ==
  ASSUME player \in Player, table \in Seq(Row), BackedAll(player, table),
         NEW m \in 1 .. MaxNumber, Held(m)
  PROVE  BackedAll(Replaced(m), Renewed(table, m))
<1> DEFINE o == Replaced(m)
           r == Renewed(table, m)
<1> SUFFICES ASSUME NEW n \in 1 .. MaxNumber
             PROVE  Backed(o, r, n)
  BY DEF BackedAll
<1>1. Backed(player, table, n) /\ Backed(player, table, m) /\ n # 0
  BY DEF BackedAll
<1>2. Unique(r, n)
  BY <1>1, RenewedUnique DEF Backed
<1>3. n # m => Values(r, n) = Values(table, n)
  BY RenewedNumbers DEF Values
<1>4. player.unworn \in Files(Numbers) /\ player.worn \in Files(Characters \X Slots)
  BY DEF Player
<1> HIDE DEF o, r
<1>5. CASE \E x : UnwornChanged(player, o, m, x) /\ Renewal(player.unworn[m], x)
  <2>1. PICK x : UnwornChanged(player, o, m, x) /\ Renewal(player.unworn[m], x)
    BY <1>5
  <2>2. /\ m \in DOMAIN player.unworn
        /\ DOMAIN o.unworn = DOMAIN player.unworn /\ o.unworn[m] = x
        /\ \A k \in DOMAIN player.unworn \ {m} : o.unworn[k] = player.unworn[k]
        /\ o.worn = player.worn
    BY <1>4, <2>1, FilesType DEF UnwornChanged
  <2>3. WornAs(o, n) = WornAs(player, n) /\ x.serial = 0
    BY <2>1, <2>2 DEF WornAs, Renewal
  <2>4. CASE n = m
    <3>1. WornAs(o, n) = {}
      BY <1>1, <2>2, <2>3, <2>4 DEF Backed
    <3> QED
      BY <1>1, <1>2, <2>2, <2>3, <2>4, <3>1, BackedNothing
  <2>5. CASE n # m
    <3>1. HeldAlike(player, o, n)
      BY <2>2, <2>3, <2>5 DEF HeldAlike
    <3> QED
      BY <1>1, <1>2, <1>3, <2>5, <3>1, BackedCarried
  <2> QED
    BY <2>4, <2>5
<1>6. CASE \E w \in WornHere(m) : \E x :
             /\ m \notin DOMAIN player.unworn
             /\ WornChanged(player, o, w, x) /\ Renewal(player.worn[w], x)
  <2>1. PICK w, x : /\ w \in WornHere(m) /\ m \notin DOMAIN player.unworn
                    /\ WornChanged(player, o, w, x) /\ Renewal(player.worn[w], x)
    BY <1>6
  <2>2. /\ w \in DOMAIN player.worn /\ player.worn[w].serial = m
        /\ DOMAIN o.worn = DOMAIN player.worn /\ o.worn[w] = x
        /\ \A z \in DOMAIN player.worn \ {w} : o.worn[z] = player.worn[z]
        /\ o.unworn = player.unworn /\ x.serial = 0
    BY <1>4, <2>1, FilesType DEF WornChanged, WornHere, Renewal
  <2>3. CASE n = m
    <3>1. w \in WornAs(player, n)
      BY <2>2, <2>3 DEF WornAs
    <3>2. WornAs(o, n) = {}
      BY <1>1, <2>2, <3>1 DEF Backed, WornAs
    <3> QED
      BY <1>2, <2>1, <2>2, <2>3, <3>2, BackedNothing
  <2>4. CASE n # m
    <3>1. WornAs(o, n) = WornAs(player, n)
          /\ \A z \in WornAs(player, n) : o.worn[z] = player.worn[z]
      BY <1>1, <2>2, <2>4 DEF WornAs
    <3>2. HeldAlike(player, o, n)
      BY <2>2, <3>1 DEF HeldAlike
    <3> QED
      BY <1>1, <1>2, <1>3, <2>4, <3>2, BackedCarried
  <2> QED
    BY <2>3, <2>4
<1> QED
  BY <1>5, <1>6, ReplacedFields DEF o, r

\* Energy is worth nothing.
LEMMA EnergyBacked ==
  ASSUME player \in Player, table \in Seq(Row), BackedAll(player, table),
         player.battery >= 1, NEW m \in 1 .. MaxNumber, Held(m)
  PROVE  BackedAll(EnergyAdded(m), table)
<1> DEFINE o == EnergyAdded(m)
<1> SUFFICES ASSUME NEW n \in 1 .. MaxNumber
             PROVE  Backed(o, table, n)
  BY DEF BackedAll
<1>1. Backed(player, table, n) /\ Unique(table, n)
  BY DEF BackedAll, Backed
<1>2. player.unworn \in Files(Numbers) /\ player.worn \in Files(Characters \X Slots)
  BY DEF Player
<1> HIDE DEF o
<1>3. CASE \E x : UnwornChanged(player, o, m, x) /\ Filling(player.unworn[m], x)
  <2>1. PICK x : UnwornChanged(player, o, m, x) /\ Filling(player.unworn[m], x)
    BY <1>3
  <2>2. /\ m \in DOMAIN player.unworn
        /\ DOMAIN o.unworn = DOMAIN player.unworn /\ o.unworn[m] = x
        /\ \A k \in DOMAIN player.unworn \ {m} : o.unworn[k] = player.unworn[k]
        /\ o.worn = player.worn
    BY <1>2, <2>1, FilesType DEF UnwornChanged
  <2>3. WornAs(o, n) = WornAs(player, n)
    BY <2>2 DEF WornAs
  <2>4. x.serial = player.unworn[m].serial /\ Value(x) = Value(player.unworn[m])
    BY <2>1 DEF Filling, Value
  <2>5. HeldAlike(player, o, n)
    BY <2>2, <2>3, <2>4 DEF HeldAlike
  <2> QED
    BY <1>1, <2>5, BackedCarried
<1>4. CASE \E w \in WornHere(m) : \E x :
             WornChanged(player, o, w, x) /\ Filling(player.worn[w], x)
  <2>1. PICK w, x : /\ w \in WornHere(m)
                    /\ WornChanged(player, o, w, x) /\ Filling(player.worn[w], x)
    BY <1>4
  <2>2. /\ w \in DOMAIN player.worn
        /\ DOMAIN o.worn = DOMAIN player.worn /\ o.worn[w] = x
        /\ \A z \in DOMAIN player.worn \ {w} : o.worn[z] = player.worn[z]
        /\ o.unworn = player.unworn
    BY <1>2, <2>1, FilesType DEF WornChanged, WornHere
  <2>3. x.serial = player.worn[w].serial /\ Value(x) = Value(player.worn[w])
    BY <2>1 DEF Filling, Value
  <2>4. \A z \in DOMAIN player.worn :
          o.worn[z].serial = player.worn[z].serial /\ Value(o.worn[z]) = Value(player.worn[z])
    BY <2>2, <2>3
  <2>5. WornAs(o, n) = WornAs(player, n)
    BY <2>2, <2>4 DEF WornAs
  <2>6. HeldAlike(player, o, n)
    BY <2>2, <2>4, <2>5 DEF HeldAlike, WornAs
  <2> QED
    BY <1>1, <2>6, BackedCarried
<1> QED
  BY <1>3, <1>4, EnergyFields DEF o

\* After the login every number has one row, and one item at most.
LEMMA LoadedBacked ==
  ASSUME NEW p, NEW rows \in Seq(Row), InOrder(rows), FromRows(p, rows)
  PROVE  BackedAll(p, rows)
<1> SUFFICES ASSUME NEW n \in 1 .. MaxNumber
             PROVE  Backed(p, rows, n)
  BY DEF BackedAll
<1>1. \A i \in DOMAIN rows : rows[i].number = i
  BY DEF InOrder
<1>2. Unique(rows, n)
  BY <1>1 DEF Unique
<1>3. ASSUME NEW i \in DOMAIN rows
      PROVE  /\ AsItem(rows[i]).serial = i /\ Value(AsItem(rows[i])) = Value(rows[i])
             /\ Value(rows[i]) \in Values(rows, i)
  <2>1. AsItem(rows[i]).serial = i /\ Value(AsItem(rows[i])) = Value(rows[i])
    BY <1>1 DEF AsItem, Value
  <2>2. rows[i] \in RowsOf(rows, i)
    BY <1>1 DEF RowsOf
  <2> QED
    BY <2>1, <2>2 DEF Values
<1>4. n \in DOMAIN p.unworn =>
        n \in DOMAIN rows /\ rows[n].place = 0 /\ Value(p.unworn[n]) \in Values(rows, n)
  BY <1>3 DEF FromRows, Off
<1>5. ASSUME NEW w \in WornAs(p, n)
      PROVE  /\ Top(rows, w) = n /\ n \in DOMAIN rows /\ w = Home(rows, n)
             /\ rows[n].place = w[1] /\ w[1] \in Characters
             /\ Value(p.worn[w]) \in Values(rows, n)
  <2>1. w \in Taken(rows) /\ p.worn[w] = AsItem(rows[Top(rows, w)]) /\ p.worn[w].serial = n
    BY DEF WornAs, FromRows
  <2>2. /\ Top(rows, w) \in DOMAIN rows
        /\ rows[Top(rows, w)].place = w[1] /\ Slot(rows[Top(rows, w)].id) = w[2]
    BY <2>1, TopRow
  <2>3. Top(rows, w) = n
    BY <1>3, <2>1, <2>2
  <2>4. w = <<w[1], w[2]>> /\ w[1] \in Characters
    BY <2>1 DEF Taken
  <2>5. w = Home(rows, n)
    BY <2>2, <2>3, <2>4 DEF Home
  <2> QED
    BY <1>3, <2>1, <2>2, <2>3, <2>4, <2>5
<1>6. n \in DOMAIN p.unworn => WornAs(p, n) = {}
  <2>1. 0 \notin Characters
    BY ConstantsAssumption
  <2> QED
    BY <1>4, <1>5, <2>1
<1>7. \A w, z \in WornAs(p, n) : w = z
  BY <1>5
<1> QED
  BY <1>2, <1>4, <1>5, <1>6, <1>7 DEF Backed

----------------------------------------------------------------------------
(* The wealth of the account *)

\* Until the account has got something for nothing, it is not richer than at first, and what the
\* session holds is worth what the rows say.
RichInv ==
  \/ enriched
  \/ Wealth <= StartingMoney + 1 /\ (online => BackedAll(player, table))

LEMMA BackedElsewhere ==
  ASSUME NEW p, NEW o, NEW rows, BackedAll(p, rows), o.unworn = p.unworn, o.worn = p.worn
  PROVE  BackedAll(o, rows)
<1>1. \A n : WornAs(o, n) = WornAs(p, n)
  BY DEF WornAs
<1> QED
  BY <1>1 DEF BackedAll, Backed

\* The wealth is a number.
LEMMA Fortune ==
  ASSUME SafeInv
  PROVE  /\ purse.mp \in Nat /\ Cardinality(Units(table)) \in Nat /\ Wealth \in Nat
         /\ StartingMoney \in Nat /\ player.mp \in 0 .. Money - 1 /\ Money \in Nat
         /\ Wealth = purse.mp + Cardinality(Units(table))
<1>1. TypeInv
  BY DEF SafeInv
<1>2. purse.mp \in Nat /\ player.mp \in 0 .. Money - 1
  BY <1>1, Amounts DEF TypeInv, PurseType, Player
<1>3. Cardinality(Units(table)) \in Nat
  BY <1>1, UnitsFinite DEF TypeInv
<1> QED
  BY <1>2, <1>3, ConstantsAssumption DEF Wealth

\* A handler that settles makes nobody richer, if what it leaves is backed and no more.
LEMMA SettledRich ==
  ASSUME SafeInv, Handled, RichInv, NEW v, v.p \in Player, v.rows \in Seq(Row), Settles(v),
         enriched => enriched',
         ~enriched /\ ~enriched' =>
           BackedAll(v.p, v.rows) /\ purse'.mp + Cardinality(Units(v.rows)) <= Wealth
  PROVE  RichInv'
<1>1. CASE enriched'
  BY <1>1 DEF RichInv
<1>2. CASE ~enriched'
  <2>1. TypeInv /\ Serving /\ Wealth <= StartingMoney + 1
    BY <1>2, ServedRequest DEF RichInv
  <2>2. /\ table' = v.rows /\ player'.unworn = v.p.unworn /\ player'.worn = v.p.worn
        /\ purse' \in PurseType
    BY <2>1, Paid DEF TypeInv, Serving
  <2>3. BackedAll(v.p, v.rows) /\ purse'.mp + Cardinality(Units(v.rows)) <= Wealth
    BY <1>2
  <2>4. BackedAll(player', table')
    BY <2>2, <2>3, BackedElsewhere
  <2>5. Wealth' = purse'.mp + Cardinality(Units(v.rows))
    BY <2>2 DEF Wealth
  <2>6. purse'.mp \in Nat /\ Cardinality(Units(v.rows)) \in Nat
    <3>1. purse'.mp \in 0 .. Money - 1 /\ Money \in Nat
      BY <2>2, Amounts DEF PurseType
    <3>2. Cardinality(Units(v.rows)) \in Nat
      BY UnitsFinite
    <3> QED
      BY <3>1, <3>2
  <2>7. Wealth' <= StartingMoney + 1
    BY <2>1, <2>3, <2>5, <2>6, Fortune
  <2> QED
    BY <2>4, <2>7 DEF RichInv
<1> QED
  BY <1>1, <1>2

\* What the unsigned balance is after a payment that it covers
LEMMA PaidLess ==
  ASSUME SafeInv, Handled, NEW v, NEW cost \in Nat, cost <= player.mp,
         SetMicroPoints(v, After(cost))
  PROVE  purse'.mp = purse.mp - cost
<1>1. purse \in PurseType /\ purse.mp = player.mp
  BY ServedRequest DEF TypeInv, Serving
<1>2. player.mp \in 0 .. Money - 1 /\ Money \in Nat
  BY Fortune
<1>3. After(cost) = player.mp - cost
  <2>1. \A x, m \in Nat : x < m => (x + m) % m = x
    OBVIOUS
  <2>2. player.mp - cost \in Nat /\ player.mp - cost < Money
    BY <1>2
  <2>3. player.mp + Money - cost = (player.mp - cost) + Money
    BY <1>2
  <2> QED
    BY <1>2, <2>1, <2>2, <2>3 DEF After
<1>4. purse' = [purse EXCEPT !.mp = After(cost)]
  BY DEF SetMicroPoints, CurrencyUpdated
<1> QED
  BY <1>1, <1>3, <1>4 DEF PurseType

LEMMA PaidAny ==
  ASSUME SafeInv, Handled, NEW v, NEW cost \in Nat, SetMicroPoints(v, After(cost))
  PROVE  Settles(v)
<1>1. After(cost) \in 0 .. Money - 1
  BY ServedRequest, AfterType DEF TypeInv
<1> QED
  BY <1>1 DEF Settles

\* Items with new numbers are backed, and add a unit each.
LEMMA GivenBacked ==
  ASSUME SafeInv, Handled, NEW items, NEW u, Given(u, items)
  PROVE  /\ BackedAll(player, table) => BackedAll(u.p, u.rows)
         /\ u.rows = Extended(table, items) /\ table \in Seq(Row) /\ Listed(items)
<1>1. /\ TypeInv /\ Sound(Now, energy, excused, Cardinality(hidden))
      /\ Now.p = player /\ Now.rows = table
  BY ServedRequest
<1>2. player.latest \in Nat /\ player \in Player /\ table \in Seq(Row)
  BY <1>1 DEF TypeInv, Player, Numbers
<1>3. /\ Listed(items) /\ Joined(Now, items, u.p.unworn, u.rows) /\ u.p.worn = player.worn
      /\ \A n \in Serials(items) : n \in player.latest + 1 .. u.p.latest
      /\ u.p.latest \in Nat
  BY DEF Given, Player, Numbers
<1>4. ASSUME NEW n \in Serials(items)
      PROVE  Unused(Now, n)
  <2>1. n \in Nat /\ ~(n <= player.latest)
    BY <1>2, <1>3
  <2>2. n \notin DOMAIN player.unworn
    BY <1>1, <2>1 DEF Sound, Filed
  <2>3. WornAs(player, n) = {}
    BY <1>1, <2>1 DEF Sound, Filed, WornAs
  <2>4. RowsOf(table, n) = {}
    <3>1. \A i \in DOMAIN table : table[i].number \in 1 .. player.latest
      BY <1>1 DEF Sound
    <3> QED
      BY <1>2, <2>1, <3>1 DEF RowsOf
  <2> QED
    BY <1>1, <2>2, <2>3, <2>4 DEF Unused
<1>5. BackedAll(player, table) => BackedAll(u.p, u.rows)
  BY <1>1, <1>2, <1>3, <1>4, JoinedBacked
<1> QED
  BY <1>1, <1>2, <1>3, <1>5 DEF Joined

LEMMA GivenRich ==
  ASSUME SafeInv, Handled, RichInv, NEW ids, NEW u, NEW k \in Nat,
         Given(u, Numbered(ids, player.latest)), Len(Numbered(ids, player.latest)) = k,
         SetMicroPoints(u, After(k)), enriched => enriched',
         enriched' \/ k <= player.mp
  PROVE  RichInv'
<1> DEFINE items == Numbered(ids, player.latest)
<1>1. ASSUME NEW i \in DOMAIN items
      PROVE  items[i].level = 0 /\ items[i].fresh = TRUE
  BY DEF Numbered, NewItem
<1> HIDE DEF items
<1>2. /\ BackedAll(player, table) => BackedAll(u.p, u.rows)
      /\ u.rows = Extended(table, items) /\ table \in Seq(Row) /\ Listed(items)
  BY GivenBacked DEF items
<1>3. Cardinality(Units(u.rows)) = Cardinality(Units(table)) + k
  <2>1. Cardinality(Units(Extended(table, items))) = Cardinality(Units(table)) + Len(items)
    BY <1>1, <1>2, UnitsExtended
  <2> QED
    BY <1>2, <2>1 DEF items
<1>4. u.p \in Player /\ u.rows \in Seq(Row) /\ Settles(u)
  BY PaidAny DEF Given
<1>5. ~enriched /\ ~enriched' => BackedAll(u.p, u.rows)
        /\ purse'.mp + Cardinality(Units(u.rows)) <= Wealth
  <2> SUFFICES ASSUME ~enriched, ~enriched'
               PROVE  /\ BackedAll(u.p, u.rows)
                      /\ purse'.mp + Cardinality(Units(u.rows)) <= Wealth
    OBVIOUS
  <2>1. purse'.mp = purse.mp - k
    BY PaidLess
  <2>2. BackedAll(player, table)
    BY DEF RichInv, Handled
  <2>3. purse'.mp + Cardinality(Units(u.rows)) <= Wealth
    BY <1>3, <2>1, Fortune
  <2> QED
    BY <1>2, <2>2, <2>3
<1> QED
  BY <1>4, <1>5, SettledRich

LEMMA BuyRich ==
  ASSUME SafeInv, RichInv, NEW ids \in Seq(Ids), BuyItems(ids)
  PROVE  RichInv'
<1>1. Handled /\ Len(ids) <= player.mp /\ enriched' = enriched /\ Len(ids) \in Nat
  BY DEF BuyItems, Unharmed, history
<1> QED
  BY <1>1, BuyGiven, GivenRich

LEMMA SpinRich ==
  ASSUME SafeInv, RichInv, NEW k \in Nat \ {0}, NEW id \in Ids, SpinCapsule(k, id)
  PROVE  RichInv'
<1> DEFINE spun == SpunItems(k, player.lucky)
<1>1. Handled /\ Unchecked(spun > player.mp)
  BY DEF SpinCapsule
<1>2. /\ Given(Spun(spun, id), Numbered([i \in 1 .. spun |-> id], player.latest))
      /\ Len(Numbered([i \in 1 .. spun |-> id], player.latest)) = spun /\ spun \in Nat
      /\ SetMicroPoints(Spun(spun, id), After(spun))
  BY SpinGiven
<1> HIDE DEF spun
<1>3. (enriched => enriched') /\ (enriched' \/ ~(spun > player.mp))
  BY <1>1, Zenon DEF Unchecked
<1>4. enriched' \/ spun <= player.mp
  BY <1>2, <1>3, Fortune
<1> QED
  BY <1>1, <1>2, <1>3, <1>4, GivenRich

LEMMA SpawnRich ==
  ASSUME NEW id, SpawnItem(id)
  PROVE  RichInv'
<1>1. enriched'
  BY Zenon DEF SpawnItem, Unchecked
<1> QED
  BY <1>1 DEF RichInv

LEMMA RenewRich ==
  ASSUME SafeInv, RichInv, NEW n \in 1 .. MaxNumber, RenewItem(n)
  PROVE  RichInv'
<1> DEFINE u == ReplaceItem(n)
<1>1. Handled /\ Held(n)
  BY DEF RenewItem
<1>2. CASE player.mp >= 1
  <2>1. SetMicroPoints(u, After(1)) /\ enriched' = enriched
    BY <1>2 DEF RenewItem
  <2>2. /\ TypeInv /\ Sound(Now, energy, excused, Cardinality(hidden))
        /\ Cardinality(hidden) \in Nat /\ energy \in EnergyUpdate \cup {None}
    BY <1>1, ServedRequest
  <2>3. u.p \in Player /\ u.rows \in Seq(Row)
    BY <1>1, <2>2, ReplaceSound DEF Sound
  <2>4. u.p = Replaced(n) /\ u.rows = Renewed(table, n)
    BY DEF ReplaceItem
  <2> HIDE DEF u
  <2>5. Settles(u)
    BY <1>1, <2>1, PaidAny
  <2>6. ~enriched => BackedAll(u.p, u.rows) /\ purse'.mp + Cardinality(Units(u.rows)) <= Wealth
    <3> SUFFICES ASSUME ~enriched
                 PROVE  /\ BackedAll(u.p, u.rows)
                        /\ purse'.mp + Cardinality(Units(u.rows)) <= Wealth
      OBVIOUS
    <3>1. BackedAll(player, table) /\ player \in Player /\ table \in Seq(Row)
      BY <1>1, <2>2 DEF RichInv, Handled, TypeInv
    <3>2. Unique(table, n)
      BY <3>1 DEF BackedAll, Backed
    <3>3. BackedAll(u.p, u.rows)
      BY <1>1, <2>4, <3>1, ReplaceBacked
    <3>4. Cardinality(Units(u.rows)) <= Cardinality(Units(table)) + 1
      BY <2>4, <3>1, <3>2, UnitsRenewed
    <3>5. Cardinality(Units(u.rows)) \in Nat
      BY <2>3, UnitsFinite
    <3>6. purse'.mp = purse.mp - 1
      BY <1>1, <1>2, <2>1, Fortune, PaidLess
    <3>7. purse'.mp + Cardinality(Units(u.rows)) <= Wealth
      BY <3>4, <3>5, <3>6, Fortune
    <3> QED
      BY <3>3, <3>7
  <2> QED
    BY <1>1, <2>1, <2>3, <2>5, <2>6, SettledRich
<1>3. CASE ~(player.mp >= 1)
  BY <1>3 DEF RenewItem, RichInv
<1> QED
  BY <1>2, <1>3

\* What a deletion leaves
LEMMA DeletedWorth ==
  ASSUME SafeInv, Handled, RichInv, ~enriched, NEW n \in 1 .. MaxNumber
  PROVE  LET u == Delete(Now, n) IN
         /\ BackedAll(u.p, u.rows)
         /\ Cardinality(Units(u.rows)) \in Nat
         /\ Cardinality(Units(u.rows)) <= Cardinality(Units(table))
         /\ Deletable(Now, n) =>
              /\ Unused(u, n) /\ Find(n) = player.unworn[n]
              /\ Cardinality(Units(u.rows)) + Value(Find(n)) <= Cardinality(Units(table))
<1> DEFINE u == Delete(Now, n)
<1>1. Now.p = player /\ Now.rows = table /\ player \in Player /\ table \in Seq(Row)
  BY ServedRequest DEF TypeInv
<1>2. BackedAll(player, table)
  BY DEF RichInv, Handled
<1>3. /\ BackedAll(u.p, u.rows)
      /\ Cardinality(Units(u.rows)) <= Cardinality(Units(table))
      /\ Deletable(Now, n) =>
           /\ Unused(u, n)
           /\ Cardinality(Units(u.rows)) + Value(player.unworn[n]) <= Cardinality(Units(table))
  BY <1>1, <1>2, DeleteBacked
<1>4. Cardinality(Units(u.rows)) \in Nat
  BY DeletedSound, UnitsFinite DEF Sound
<1>5. Deletable(Now, n) => Find(n) = player.unworn[n]
  BY DEF Find
<1> QED
  BY <1>3, <1>4, <1>5

LEMMA DeleteRich ==
  ASSUME SafeInv, RichInv, NEW n \in 1 .. MaxNumber, DeleteItems(n)
  PROVE  RichInv'
<1> DEFINE u == Delete(Now, n)
<1>1. Handled /\ FreeOfCharge(u) /\ enriched' = enriched
  BY DEF DeleteItems, Unharmed, history
<1>2. u.p \in Player /\ u.rows \in Seq(Row) /\ Steady(Now, u) /\ Now.p = player
  BY <1>1, DeletedSound, ServedRequest DEF Sound
<1>3. ~enriched => /\ BackedAll(u.p, u.rows)
                   /\ Cardinality(Units(u.rows)) <= Cardinality(Units(table))
                   /\ Cardinality(Units(u.rows)) \in Nat
  BY <1>1, DeletedWorth
<1> HIDE DEF u
<1>4. Settles(u) /\ purse'.mp = purse.mp
  BY <1>1, <1>2 DEF Settles, Steady, FreeOfCharge
<1>5. ~enriched => purse'.mp + Cardinality(Units(u.rows)) <= Wealth
  BY <1>3, <1>4, Fortune
<1> QED
  BY <1>1, <1>2, <1>3, <1>4, <1>5, SettledRich

LEMMA ValueType ==
  ASSUME NEW item \in Item
  PROVE  Value(item) \in Nat
  BY DEF Value, Item, MaxLevel

LEMMA RefundRich ==
  ASSUME SafeInv, RichInv, NEW n \in 1 .. MaxNumber, RefundItem(n)
  PROVE  RichInv'
<1> DEFINE u == Delete(Now, n)
           amount == player.mp + Value(Find(n))
<1>1. Handled /\ Held(n) /\ SetMicroPoints(u, amount) /\ amount < Money
  BY DEF RefundItem
<1>2. (enriched => enriched') /\ (~enriched' => Deletable(Now, n))
  BY Zenon DEF RefundItem
<1>3. /\ u.p \in Player /\ u.rows \in Seq(Row) /\ purse \in PurseType /\ purse.mp = player.mp
  BY <1>1, DeletedSound, ServedRequest DEF Sound, TypeInv, Serving
<1>4. Value(Find(n)) \in Nat
  BY <1>1, FoundItem, ValueType
<1>5. ~enriched /\ Deletable(Now, n) =>
        /\ BackedAll(u.p, u.rows) /\ Cardinality(Units(u.rows)) \in Nat
        /\ Cardinality(Units(u.rows)) + Value(Find(n)) <= Cardinality(Units(table))
  BY <1>1, DeletedWorth
<1> HIDE DEF u
<1>6. purse'.mp = purse.mp + Value(Find(n))
  BY <1>1, <1>3 DEF SetMicroPoints, CurrencyUpdated, PurseType
<1>7. Settles(u)
  BY <1>1, <1>4, Fortune DEF Settles
<1>8. ~enriched /\ Deletable(Now, n) => purse'.mp + Cardinality(Units(u.rows)) <= Wealth
  BY <1>4, <1>5, <1>6, Fortune
<1> QED
  BY <1>1, <1>2, <1>3, <1>5, <1>7, <1>8, SettledRich

\* An item that takes the number of another, and costs what it is worth more
LEMMA RespawnedRich ==
  ASSUME SafeInv, Handled, RichInv, NEW n \in 1 .. MaxNumber, Held(n),
         NEW item \in Item, item.id \in Ids, item.serial = n,
         Settles(Respawned(n, item)), Excuse(n), purse'.mp \in Nat,
         purse'.mp + Value(item) <= purse.mp + Value(Find(n))
  PROVE  RichInv'
<1> DEFINE v == Delete(Now, n)
           u == Add(v, item)
<1>1. (enriched => enriched') /\ (~enriched' => Deletable(Now, n))
  BY Zenon DEF Excuse, Unchecked
<1>2. v.p \in Player /\ v.rows \in Seq(Row)
  BY DeletedSound DEF Sound
<1>3. ~enriched /\ Deletable(Now, n) =>
        /\ BackedAll(v.p, v.rows) /\ Unused(v, n) /\ Cardinality(Units(v.rows)) \in Nat
        /\ Cardinality(Units(v.rows)) + Value(Find(n)) <= Cardinality(Units(table))
  BY DeletedWorth
<1>4. Value(Find(n)) \in Nat /\ Value(item) \in Nat
  BY FoundItem, ValueType
<1> HIDE DEF v
<1>5. Listed(<<item>>) /\ Serials(<<item>>) = {n}
  BY <1>2, AddFields
<1>6. PICK U \in Files(Numbers), R \in Seq(Row) :
        u = [p |-> [v.p EXCEPT !.unworn = U], rows |-> R] /\ Joined(v, <<item>>, U, R)
  BY <1>2, AddFields
<1>7. u.rows = Inserted(v.rows, item)
  BY DEF Add
<1> HIDE DEF u
<1>8. /\ u.p \in Player /\ u.rows = R /\ u.p.unworn = U /\ u.p.worn = v.p.worn
  BY <1>2, <1>6 DEF Player
<1>9. Cardinality(Units(u.rows)) = Cardinality(Units(v.rows)) + Value(item)
  BY <1>2, <1>7, UnitsInserted
<1>10. BackedAll(v.p, v.rows) /\ Unused(v, n) => BackedAll(u.p, u.rows)
  <2>1. Joined(v, <<item>>, u.p.unworn, u.rows)
    BY <1>6, <1>8
  <2>2. Unused(v, n) => \A m \in Serials(<<item>>) : Unused(v, m)
    BY <1>5
  <2> QED
    BY <1>2, <1>5, <1>8, <2>1, <2>2, JoinedBacked
<1>11. ~enriched /\ Deletable(Now, n) => purse'.mp + Cardinality(Units(u.rows)) <= Wealth
  <2> SUFFICES ASSUME ~enriched, Deletable(Now, n)
               PROVE  purse'.mp + Cardinality(Units(u.rows)) <= Wealth
    OBVIOUS
  <2>1. /\ Cardinality(Units(v.rows)) \in Nat
        /\ Cardinality(Units(v.rows)) + Value(Find(n)) <= Cardinality(Units(table))
    BY <1>3
  <2>2. purse'.mp + Value(item) <= purse.mp + Value(Find(n)) /\ purse'.mp \in Nat
    OBVIOUS
  <2>3. /\ purse.mp \in Nat /\ Cardinality(Units(table)) \in Nat
        /\ Wealth = purse.mp + Cardinality(Units(table))
    BY Fortune
  <2>4. \A m, new, mp, old, left, all \in Nat :
          m + new <= mp + old /\ left + old <= all => m + (left + new) <= mp + all
    OBVIOUS
  <2> QED
    BY <1>4, <1>9, <2>1, <2>2, <2>3, <2>4
<1>12. u = Respawned(n, item)
  BY DEF u, v, Respawned
<1> QED
  BY <1>1, <1>3, <1>6, <1>8, <1>10, <1>11, <1>12, SettledRich

LEMMA FailUpgradeRich ==
  ASSUME SafeInv, RichInv, NEW n \in 1 .. MaxNumber, FailUpgrade(n)
  PROVE  RichInv'
<1> DEFINE item == NewItem(Find(n).id, Find(n).level, n)
<1>1. /\ Handled /\ Held(n) /\ FreeOfCharge(Respawned(n, item)) /\ Excuse(n) /\ Find(n).fresh
  BY DEF FailUpgrade, Upgradable
<1>2. Find(n) \in Item /\ Find(n).id \in Ids /\ n \in Numbers
  BY <1>1, FoundItem, ConstantsAssumption DEF Numbers
<1>3. item \in Item /\ item.id \in Ids /\ item.serial = n
  BY <1>2 DEF NewItem, Item
<1>4. Value(item) = Value(Find(n))
  BY <1>1 DEF NewItem, Value
<1> HIDE DEF item
<1>5. Steady(Now, Respawned(n, item)) /\ Now.p = player
  BY <1>1, <1>3, RespawnedSound, ServedRequest
<1>6. Settles(Respawned(n, item)) /\ purse'.mp = purse.mp
  BY <1>1, <1>5 DEF Settles, Steady, FreeOfCharge
<1>7. purse'.mp \in Nat /\ purse'.mp + Value(item) <= purse.mp + Value(Find(n))
  BY <1>2, <1>4, <1>6, ValueType, Fortune
<1> QED
  BY <1>1, <1>3, <1>6, <1>7, RespawnedRich

LEMMA UpgradeRich ==
  ASSUME SafeInv, RichInv, NEW n \in 1 .. MaxNumber, UpgradeItem(n)
  PROVE  RichInv'
<1> DEFINE item == NewItem(Find(n).id, Find(n).level + 1, n)
<1>1. /\ Handled /\ Held(n) /\ Find(n).level < MaxLevel /\ Excuse(n) /\ Find(n).fresh
      /\ SetMicroPoints(Respawned(n, item), After(1)) /\ player.mp >= 1
  BY DEF UpgradeItem, Upgradable
<1>2. Find(n) \in Item /\ Find(n).id \in Ids /\ n \in Numbers
  BY <1>1, FoundItem, ConstantsAssumption DEF Numbers
<1>3. item \in Item /\ item.id \in Ids /\ item.serial = n
  BY <1>1, <1>2 DEF NewItem, Item, MaxLevel
<1>4. Value(item) = Value(Find(n)) + 1 /\ Value(Find(n)) \in Nat
  BY <1>1, <1>2 DEF NewItem, Value, Item, MaxLevel
<1> HIDE DEF item
<1>5. Settles(Respawned(n, item))
  BY <1>1, PaidAfter
<1>6. purse'.mp = purse.mp - 1 /\ purse.mp = player.mp
  BY <1>1, Fortune, PaidLess, ServedRequest DEF Serving
<1>7. purse'.mp \in Nat /\ purse'.mp + Value(item) <= purse.mp + Value(Find(n))
  BY <1>1, <1>4, <1>6, Fortune
<1> QED
  BY <1>1, <1>3, <1>5, <1>7, RespawnedRich

LEMMA GambleRich ==
  ASSUME SafeInv, RichInv, NEW n \in 1 .. MaxNumber, GambleItem(n)
  PROVE  RichInv'
<1> DEFINE item == NewItem(Find(n).id, 0, n)
<1>1. /\ Handled /\ Held(n) /\ Excuse(n)
      /\ SetMicroPoints(Respawned(n, item), After(1)) /\ player.mp >= 1
  BY DEF GambleItem, Held
<1>2. Find(n) \in Item /\ Find(n).id \in Ids /\ n \in Numbers
  BY <1>1, FoundItem, ConstantsAssumption DEF Numbers
<1>3. item \in Item /\ item.id \in Ids /\ item.serial = n
  BY <1>2 DEF NewItem, Item, MaxLevel
<1>4. Value(item) = 1 /\ Value(Find(n)) \in Nat
  BY <1>2, ValueType DEF NewItem, Value
<1> HIDE DEF item
<1>5. Settles(Respawned(n, item))
  BY <1>1, PaidAfter
<1>6. purse'.mp = purse.mp - 1 /\ purse.mp = player.mp
  BY <1>1, Fortune, PaidLess, ServedRequest DEF Serving
<1>7. purse'.mp \in Nat /\ purse'.mp + Value(item) <= purse.mp + Value(Find(n))
  BY <1>1, <1>4, <1>6, Fortune
<1> QED
  BY <1>1, <1>3, <1>5, <1>7, RespawnedRich

LEMMA AddEnergyRich ==
  ASSUME SafeInv, RichInv, NEW n \in 1 .. MaxNumber, AddEnergy(n)
  PROVE  RichInv'
<1>1. /\ Handled /\ Held(n) /\ player.battery >= 1 /\ player' = EnergyAdded(n)
      /\ UNCHANGED <<table, purse, enriched>>
  BY DEF AddEnergy
<1>2. player \in Player /\ table \in Seq(Row)
  BY <1>1, ServedRequest DEF TypeInv
<1>3. Wealth' = Wealth
  BY <1>1 DEF Wealth
<1>4. ~enriched => BackedAll(player', table')
  BY <1>1, <1>2, EnergyBacked DEF RichInv, Handled
<1> QED
  BY <1>1, <1>3, <1>4 DEF RichInv

\* A handler that only moves the items
LEMMA MovedRich ==
  ASSUME SafeInv, Handled, RichInv, NEW u, u.p \in Player, u.rows \in Seq(Row),
         u.p.mp = player.mp, FreeOfCharge(u), enriched' = enriched,
         BackedAll(player, table) => BackedAll(u.p, u.rows) /\ Twin(table, u.rows)
  PROVE  RichInv'
<1>1. Settles(u) /\ purse'.mp = purse.mp
  BY DEF Settles, FreeOfCharge
<1>2. ~enriched => BackedAll(u.p, u.rows) /\ Twin(table, u.rows)
  BY DEF RichInv, Handled
<1>3. ~enriched => Units(u.rows) = Units(table)
  BY <1>2, UnitsAlike DEF Twin
<1>4. ~enriched => purse'.mp + Cardinality(Units(u.rows)) <= Wealth
  BY <1>1, <1>3, Fortune
<1> QED
  BY <1>1, <1>2, <1>4, SettledRich

LEMMA EquipRich ==
  ASSUME SafeInv, RichInv, NEW n \in 1 .. MaxNumber, EquipItem(n)
  PROVE  RichInv'
<1> DEFINE u == Equip(Now, n)
<1>1. /\ Handled /\ n \in (DOMAIN player.unworn \ {0}) \cup renewed /\ FreeOfCharge(u)
      /\ IF n \in DOMAIN player.unworn THEN UNCHANGED <<enriched, overfilled>> ELSE Unchecked(FALSE)
  BY DEF EquipItem
<1>2. /\ Sound(Now, energy, excused, Cardinality(hidden)) /\ Cardinality(hidden) \in Nat
      /\ Now.p = player /\ Now.rows = table /\ energy \in EnergyUpdate \cup {None}
      /\ renewed \in SUBSET excused /\ enriched \in BOOLEAN
  BY <1>1, ServedRequest DEF TypeInv
<1>3. n \in DOMAIN player.unworn \/ n \in excused
  BY <1>1, <1>2
<1>4. Sound(u, energy, excused, Cardinality(hidden)) /\ Steady(Now, u)
  BY <1>2, <1>3, EquipSound
<1>5. BackedAll(player, table) => BackedAll(u.p, u.rows) /\ Twin(table, u.rows)
  BY <1>2, EquipBacked
<1>6. enriched' = enriched
  BY <1>1, <1>2, Zenon DEF Unchecked
<1> HIDE DEF u
<1>7. u.p \in Player /\ u.rows \in Seq(Row) /\ u.p.mp = player.mp
  BY <1>2, <1>4 DEF Sound, Steady
<1> QED
  BY <1>1, <1>5, <1>6, <1>7, MovedRich

LEMMA UnequipRich ==
  ASSUME SafeInv, RichInv, NEW slot \in Slots, UnequipItem(slot)
  PROVE  RichInv'
<1> DEFINE u == Unequip(Now, slot)
<1>1. Handled /\ FreeOfCharge(u) /\ enriched' = enriched
  BY DEF UnequipItem, Unharmed, history
<1>2. /\ Sound(Now, energy, excused, Cardinality(hidden)) /\ Cardinality(hidden) \in Nat
      /\ Now.p = player /\ Now.rows = table /\ energy \in EnergyUpdate \cup {None}
      /\ player \in Player /\ table \in Seq(Row)
  BY <1>1, ServedRequest DEF TypeInv
<1>3. Sound(u, energy, excused, Cardinality(hidden)) /\ Steady(Now, u)
  BY <1>2, UnequipSound
<1>4. BackedAll(player, table) => BackedAll(u.p, u.rows) /\ Twin(table, u.rows)
  BY <1>2, UnequipBacked
<1> HIDE DEF u
<1>5. u.p \in Player /\ u.rows \in Seq(Row) /\ u.p.mp = player.mp
  BY <1>2, <1>3 DEF Sound, Steady
<1> QED
  BY <1>1, <1>4, <1>5, MovedRich

LEMMA SelectRich ==
  ASSUME SafeInv, RichInv, NEW c \in Characters, SelectCharacter(c)
  PROVE  RichInv'
<1>1. /\ Handled /\ player' = [player EXCEPT !.character = c]
      /\ purse' = [purse EXCEPT !.character = c]
      /\ table' = table /\ enriched' = enriched
  BY DEF SelectCharacter, SetLatestCharacterSelected, CharacterUpdated, Unharmed, history
<1>2. player \in Player /\ purse \in PurseType
  BY <1>1, ServedRequest DEF TypeInv
<1>3. player'.unworn = player.unworn /\ player'.worn = player.worn /\ purse'.mp = purse.mp
  BY <1>1, <1>2 DEF Player, PurseType
<1>4. BackedAll(player, table) => BackedAll(player', table')
  BY <1>1, <1>3, BackedElsewhere
<1>5. Wealth' = Wealth
  BY <1>1, <1>3 DEF Wealth
<1> QED
  BY <1>1, <1>4, <1>5 DEF RichInv, Handled

\* A flush writes energy, which is worth nothing.
LEMMA FlushedWealth ==
  ASSUME SafeInv, Flushed
  PROVE  Twin(table, table') /\ Wealth' = Wealth
<1>1. TypeInv
  BY DEF SafeInv
<1>2. Twin(table, table')
  BY <1>1, EnergisedTwin DEF Flushed, PendingRows, TypeInv
<1>3. purse'.mp = purse.mp
  BY <1>1, FlushedTypes
<1>4. Units(table') = Units(table)
  BY <1>2, UnitsAlike DEF Twin
<1>5. Wealth' = purse'.mp + Cardinality(Units(table'))
  BY DEF Wealth
<1> QED
  BY <1>2, <1>3, <1>4, <1>5 DEF Wealth

LEMMA PersistRich ==
  ASSUME SafeInv, RichInv, Persist
  PROVE  RichInv'
<1>1. Flushed /\ UNCHANGED <<online, player, enriched>>
  BY DEF Persist, history
<1>2. Twin(table, table') /\ Wealth' = Wealth
  BY <1>1, FlushedWealth
<1>3. ASSUME BackedAll(player, table), NEW n \in 1 .. MaxNumber
      PROVE  Backed(player', table', n)
  <2>1. Backed(player, table, n) /\ HeldAlike(player, player, n)
    BY <1>3 DEF BackedAll, HeldAlike
  <2>2. Values(table', n) = Values(table, n) /\ Unique(table', n)
    BY <1>2, <2>1, TwinValues DEF Backed
  <2> QED
    BY <1>1, <2>1, <2>2, BackedCarried
<1>4. BackedAll(player, table) => BackedAll(player', table')
  BY <1>3 DEF BackedAll
<1> QED
  BY <1>1, <1>2, <1>4 DEF RichInv

LEMMA LogoutRich ==
  ASSUME SafeInv, RichInv, Logout
  PROVE  RichInv'
<1>1. Flushed /\ online' = FALSE /\ enriched' = enriched
  BY DEF Logout
<1>2. Wealth' = Wealth
  BY <1>1, FlushedWealth
<1> QED
  BY <1>1, <1>2 DEF RichInv

LEMMA LoginRich ==
  ASSUME SafeInv, RichInv, Login
  PROVE  RichInv'
<1>1. TypeInv
  BY DEF SafeInv
<1>2. /\ table' = Renumbered /\ player' = Loaded(Renumbered, PlayerInfo)
      /\ purse' = purse /\ enriched' = enriched
  BY DEF Login
<1>3. table \in Seq(Row) /\ Len(table) <= MaxNumber
  BY <1>1, ConstantsAssumption DEF TypeInv
<1>4. Renumbered \in Seq(Row) /\ Len(Renumbered) <= MaxNumber /\ InOrder(Renumbered)
  BY <1>3, LoginRows
<1>5. FromRows(player', Renumbered)
  <2>1. /\ PlayerInfo.character \in Characters /\ PlayerInfo.mp \in 0 .. Money - 1
        /\ PlayerInfo.battery \in Nat /\ PlayerInfo.lucky \in Nat
    BY <1>1 DEF TypeInv, PurseType, PlayerInfo
  <2> QED
    BY <1>2, <1>4, <2>1, LoadedFields
<1>6. BackedAll(player', table')
  BY <1>2, <1>4, <1>5, LoadedBacked
<1>7. Alike(table, Renumbered)
  <2>1. ASSUME NEW i \in DOMAIN table
        PROVE  /\ Renumbered[i].level = table[i].level
               /\ Renumbered[i].fresh = table[i].fresh
    <3>1. table[i] \in Row /\ Renumbered[i] = [table[i] EXCEPT !.number = i]
      BY <1>3 DEF Renumbered
    <3> QED
      BY <3>1 DEF Row
  <2>2. DOMAIN Renumbered = DOMAIN table
    BY DEF Renumbered
  <2> QED
    BY <2>1, <2>2 DEF Alike
<1>8. Units(Renumbered) = Units(table)
  BY <1>7, UnitsAlike
<1>9. Wealth' = Wealth
  BY <1>2, <1>8 DEF Wealth
<1> QED
  BY <1>2, <1>6, <1>9 DEF RichInv

\* At first the account has its money and one item that has not expired.
LEMMA InitRich ==
  ASSUME Init
  PROVE  RichInv
<1>1. /\ online = FALSE /\ purse.mp = StartingMoney /\ DOMAIN table = {1, 2}
      /\ table[1].level = 0 /\ table[1].fresh = FALSE
      /\ table[2].level = 0 /\ table[2].fresh = TRUE
  BY DEF Init
<1>2. Units(table) = {<<2, 0>>}
  <2>1. ASSUME NEW u \in Units(table)
        PROVE  u = <<2, 0>>
    <3>1. /\ u[1] \in {1, 2} /\ u[2] \in {0, 1} /\ u = <<u[1], u[2]>>
          /\ IF u[2] = 0 THEN table[u[1]].fresh ELSE u[2] <= table[u[1]].level
      BY <1>1 DEF Units, MaxLevel
    <3> QED
      BY <1>1, <3>1
  <2>2. <<2, 0>> \in Units(table)
    BY <1>1 DEF Units, MaxLevel
  <2> QED
    BY <2>1, <2>2
<1>3. Cardinality(Units(table)) = 1
  BY <1>2, FS_Singleton
<1>4. StartingMoney \in Nat
  BY ConstantsAssumption
<1>5. Wealth = StartingMoney + 1
  BY <1>1, <1>3 DEF Wealth
<1> QED
  BY <1>1, <1>4, <1>5 DEF RichInv

----------------------------------------------------------------------------
(* Theorems *)

LEMMA StepSafe ==
  ASSUME SafeInv, [Next]_vars
  PROVE  SafeInv'
<1>1. CASE UNCHANGED vars
  <2>1. /\ online' = online /\ player' = player /\ table' = table /\ purse' = purse
        /\ energy' = energy /\ excused' = excused /\ renewed' = renewed /\ hidden' = hidden
        /\ enriched' = enriched /\ overfilled' = overfilled
    BY <1>1 DEF vars, history
  <2>2. TypeInv'
    BY <2>1 DEF SafeInv, TypeInv
  <2>3. Serving => Serving'
    <3>1. Now' = Now
      BY <2>1 DEF Now
    <3>2. Sound(Now, energy, excused, Cardinality(hidden))
            => Sound(Now, energy, excused, Cardinality(hidden))'
      BY <2>1, <3>1
    <3> QED
      BY <2>1, <3>2 DEF Serving
  <2>4. Resting => Resting'
    BY <2>1 DEF Resting
  <2> QED
    BY <2>1, <2>2, <2>3, <2>4 DEF SafeInv
<1>2. CASE Next
  <2>1. Sold \subseteq Ids
    BY ConstantsAssumption
  <2>2. CASE Login
    BY <2>2, LoginSafe
  <2>3. CASE Logout
    BY <2>3, LogoutSafe
  <2>4. CASE Persist
    BY <2>4, PersistSafe
  <2>5. CASE \E id \in Sold : BuyItems(<<id>>) \/ BuyItems(<<id, id>>) \/ SpawnItem(id)
    <3>1. PICK id \in Sold : BuyItems(<<id>>) \/ BuyItems(<<id, id>>) \/ SpawnItem(id)
      BY <2>5
    <3>2. id \in Ids /\ <<id>> \in Seq(Ids) /\ <<id, id>> \in Seq(Ids)
      BY <2>1
    <3> QED
      BY <3>1, <3>2, BuySafe, SpawnSafe
  <2>6. CASE \E k \in 1 .. 2, id \in Sold : SpinCapsule(k, id)
    <3>1. PICK k \in 1 .. 2, id \in Sold : SpinCapsule(k, id)
      BY <2>6
    <3>2. k \in Nat \ {0} /\ id \in Ids
      BY <2>1
    <3> QED
      BY <3>1, <3>2, SpinSafe
  <2>7. CASE \E n \in 1 .. MaxNumber :
               \/ RenewItem(n) \/ DeleteItems(n) \/ RefundItem(n)
               \/ FailUpgrade(n) \/ UpgradeItem(n) \/ GambleItem(n)
               \/ AddEnergy(n) \/ EquipItem(n)
    BY <2>7, RenewSafe, DeleteSafe, RefundSafe, FailUpgradeSafe, UpgradeSafe, GambleSafe,
       AddEnergySafe, EquipSafe
  <2>8. CASE \E slot \in Slots : UnequipItem(slot)
    BY <2>8, UnequipSafe
  <2>9. CASE \E c \in Characters : SelectCharacter(c)
    BY <2>9, SelectSafe
  <2> QED
    BY <1>2, <2>2, <2>3, <2>4, <2>5, <2>6, <2>7, <2>8, <2>9 DEF Next
<1> QED
  BY <1>1, <1>2

LEMMA AlwaysSafe == Spec => []SafeInv
<1>1. Init => SafeInv
  BY InitSafe
<1>2. SafeInv /\ [Next]_vars => SafeInv'
  BY StepSafe
<1> QED
  BY <1>1, <1>2, PTL DEF Spec

LEMMA StepRich ==
  ASSUME SafeInv, RichInv, [Next]_vars
  PROVE  RichInv'
<1>1. CASE UNCHANGED vars
  <2>1. /\ online' = online /\ player' = player /\ table' = table /\ purse' = purse
        /\ enriched' = enriched
    BY <1>1 DEF vars, history
  <2> QED
    BY <2>1 DEF RichInv, Wealth
<1>2. CASE Next
  <2>1. Sold \subseteq Ids
    BY ConstantsAssumption
  <2>2. CASE Login
    BY <2>2, LoginRich
  <2>3. CASE Logout
    BY <2>3, LogoutRich
  <2>4. CASE Persist
    BY <2>4, PersistRich
  <2>5. CASE \E id \in Sold : BuyItems(<<id>>) \/ BuyItems(<<id, id>>) \/ SpawnItem(id)
    <3>1. PICK id \in Sold : BuyItems(<<id>>) \/ BuyItems(<<id, id>>) \/ SpawnItem(id)
      BY <2>5
    <3>2. <<id>> \in Seq(Ids) /\ <<id, id>> \in Seq(Ids)
      BY <2>1
    <3> QED
      BY <3>1, <3>2, BuyRich, SpawnRich
  <2>6. CASE \E k \in 1 .. 2, id \in Sold : SpinCapsule(k, id)
    <3>1. PICK k \in 1 .. 2, id \in Sold : SpinCapsule(k, id)
      BY <2>6
    <3>2. k \in Nat \ {0} /\ id \in Ids
      BY <2>1
    <3> QED
      BY <3>1, <3>2, SpinRich
  <2>7. CASE \E n \in 1 .. MaxNumber :
               \/ RenewItem(n) \/ DeleteItems(n) \/ RefundItem(n)
               \/ FailUpgrade(n) \/ UpgradeItem(n) \/ GambleItem(n)
               \/ AddEnergy(n) \/ EquipItem(n)
    BY <2>7, RenewRich, DeleteRich, RefundRich, FailUpgradeRich, UpgradeRich, GambleRich,
       AddEnergyRich, EquipRich
  <2>8. CASE \E slot \in Slots : UnequipItem(slot)
    BY <2>8, UnequipRich
  <2>9. CASE \E c \in Characters : SelectCharacter(c)
    BY <2>9, SelectRich
  <2> QED
    BY <1>2, <2>2, <2>3, <2>4, <2>5, <2>6, <2>7, <2>8, <2>9 DEF Next
<1> QED
  BY <1>1, <1>2

\* The types of the variables, in every reachable state
THEOREM InventoryTypes == Spec => []TypeOK
<1>1. SafeInv => TypeOK
  <2>1. SUFFICES ASSUME TypeInv
                 PROVE  TypeOK
    BY DEF SafeInv
  <2>2. /\ online \in BOOLEAN /\ player \in Player /\ table \in Seq(Row) /\ purse \in PurseType
        /\ excused \in SUBSET Numbers /\ renewed \in SUBSET excused /\ hidden \in SUBSET Numbers
    BY <2>1 DEF TypeInv
  <2>3. /\ player.unworn \in Files(Numbers) /\ player.worn \in Files(Characters \X Slots)
        /\ player.total \in Nat /\ player.latest \in Numbers
        /\ player.character \in Characters /\ player.mp \in 0 .. Money - 1
    BY <2>2 DEF Player
  <2>4. \A n \in DOMAIN player.unworn : n \in Numbers /\ player.unworn[n] \in Item
    BY <2>3, FileItems
  <2>5. \A w \in DOMAIN player.worn : w \in Characters \X Slots /\ player.worn[w] \in Item
    BY <2>3, FileItems
  <2>6. purse.mp \in 0 .. Money - 1 /\ purse.character \in Characters
    BY <2>2 DEF PurseType
  <2>7. \A i \in DOMAIN table : table[i] \in Row
    BY <2>2
  <2>8. excused \cup renewed \cup hidden \subseteq Numbers
    BY <2>2
  <2> QED
    BY <2>2, <2>3, <2>4, <2>5, <2>6, <2>7, <2>8 DEF TypeOK
<1> QED
  BY <1>1, AlwaysSafe, PTL

\* What the next flush leaves in the database is what the session holds, number by number, but for
\* the numbers that a mishap has touched; and every other number names one row.  For every number
\* of characters, items and requests, and through any sequence of purchases, renewals, deletions,
\* refunds, upgrades, gambles, spins, equipping, flushes and relogins.
THEOREM InventoryStored == Spec => []ItemsAsStored
<1>1. SafeInv => ItemsAsStored
  <2>1. SUFFICES ASSUME TypeInv, Serving
                 PROVE  /\ \A n \in (1 .. MaxNumber) \ excused :
                             Agree(player, RowsOf(PendingRows, n), n)
                        /\ \A i \in DOMAIN table :
                             /\ table[i].number <= player.latest
                             /\ \A j \in DOMAIN table \ {i} :
                                  table[i].number = table[j].number => table[i].number \in excused
    BY DEF SafeInv, ItemsAsStored, HeldAsStored, NumbersUnique
  <2>2. /\ \A n \in (1 .. MaxNumber) \ excused : Accord(player, table, energy, n)
        /\ \A i \in DOMAIN table : table[i].number \in 1 .. player.latest
    BY <2>1 DEF Serving, Sound, Now
  <2>3. \A n \in (1 .. MaxNumber) \ excused : Agree(player, RowsOf(PendingRows, n), n)
    BY <2>2 DEF Accord, Stored, PendingRows
  <2>4. player.latest \in Nat /\ player.latest <= MaxNumber /\ MaxNumber \in Nat
    BY <2>1, ConstantsAssumption DEF TypeInv, Player, Numbers
  <2>5. ASSUME NEW i \in DOMAIN table
        PROVE  /\ table[i].number <= player.latest
               /\ \A j \in DOMAIN table \ {i} :
                    table[i].number = table[j].number => table[i].number \in excused
    <3>1. table[i].number \in 1 .. player.latest /\ table[i].number \in 1 .. MaxNumber
      BY <2>2, <2>4
    <3>2. table[i].number \notin excused => Unique(table, table[i].number)
      BY <2>2, <3>1 DEF Accord
    <3> QED
      BY <3>1, <3>2 DEF Unique
  <2> QED
    BY <2>3, <2>5
<1> QED
  BY <1>1, AlwaysSafe, PTL

\* m_totalEquippedItems counts what is worn and what was covered at login; so the bound that
\* hasEnoughInventorySpace puts on the space in use is a bound on the items, until it was exceeded
\* by a way that is not checked.
THEOREM InventorySpace == Spec => []SpaceRespected
<1>1. SafeInv => SpaceRespected
  <2>1. SUFFICES ASSUME SafeInv
                 PROVE  WithinSpace /\ WornCounted
    BY DEF SpaceRespected
  <2>2. CASE online
    <3>1. Serving
      BY <2>1, <2>2 DEF SafeInv
    <3>2. Counted(player, Cardinality(hidden)) /\ (Room(player) <= Space \/ overfilled)
      BY <3>1 DEF Serving, Sound, Now
    <3> QED
      BY <3>2 DEF WithinSpace, WornCounted, Used, Room, Counted
  <2>3. CASE ~online
    <3>1. player = NoPlayer /\ hidden = {}
      BY <2>1, <2>3 DEF SafeInv, Resting
    <3>2. player.total = Cardinality(DOMAIN player.worn) + Cardinality(hidden)
      BY <3>1, NoPlayerType, FS_EmptySet
    <3> QED
      BY <2>3, <3>2 DEF WithinSpace, WornCounted
  <2> QED
    BY <2>2, <2>3
<1> QED
  BY <1>1, AlwaysSafe, PTL

\* No sequence of purchases, spins, upgrades, refunds and relogins makes an account richer than it
\* was, but for the ways that are known: what is paid covers what enters, a refund pays no more
\* than what leaves the database, and every number names one row, so that what is taken out of it
\* is what the session holds.
THEOREM InventoryWealth == Spec => []WealthNeverGrows
<1>1. SafeInv /\ RichInv => WealthNeverGrows
  BY DEF RichInv, WealthNeverGrows
<1>2. Init => RichInv
  BY InitRich
<1>3. SafeInv /\ RichInv /\ [Next]_vars => RichInv'
  BY StepRich
<1>4. Spec => []SafeInv
  BY AlwaysSafe
<1> QED
  BY <1>1, <1>2, <1>3, <1>4, PTL DEF Spec

=============================================================================
