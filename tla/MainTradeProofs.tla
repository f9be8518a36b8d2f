-------------------------- MODULE MainTradeProofs --------------------------
(***************************************************************************)
(* Trades, for any number of players and things and any limits: nothing is *)
(* lost; nothing is duplicated by players who offer only what they do not  *)
(* wear and have not offered; and both sides of a trade that nothing       *)
(* interferes with agree on it.                                            *)
(*                                                                         *)
(* Three invariants build on each other.  TradeInv: no number is used      *)
(* twice by a player, none lies above the latest one, and everything is    *)
(* with somebody; then the numbers that an exchange gives out are free.    *)
(* AgreeInv: partners are each other's.  UniqueInv: every thing has one    *)
(* place, and an offer holds different items that are not worn; then an    *)
(* exchange deletes exactly what it spawns.                                *)
(***************************************************************************)
EXTENDS MainTrade, Integers, SequencesExt, Vectors, SequenceTheorems, FiniteSetTheorems,
        WellFoundedInduction, TLAPS

----------------------------------------------------------------------------
(* Sequences: those that stand in a std::vector *)

\* push_back adds one member, and no duplicate when it was not there.
LEMMA SeatsAfterAppend ==
  ASSUME NEW S, NEW s \in Seq(S), NEW p \in S
  PROVE  /\ Append(s, p) \in Seq(S)
         /\ ToSet(Append(s, p)) = ToSet(s) \cup {p}
         /\ IsInjective(s) /\ p \notin ToSet(s) => IsInjective(Append(s, p))
<1>1. DOMAIN s = 1 .. Len(s) /\ DOMAIN Append(s, p) = 1 .. Len(s) + 1
  BY AppendProperties
<1>2. \A i \in 1 .. Len(s) : Append(s, p)[i] = s[i]
  BY AppendProperties
<1>3. Append(s, p)[Len(s) + 1] = p /\ Len(s) \in Nat
  BY AppendProperties
<1>4. ToSet(Append(s, p)) = ToSet(s) \cup {p}
  BY <1>1, <1>2, <1>3 DEF ToSet
<1>5. IsInjective(s) /\ p \notin ToSet(s) => IsInjective(Append(s, p))
  BY <1>1, <1>2, <1>3 DEF ToSet, IsInjective
<1> QED
  BY <1>4, <1>5, AppendProperties

\* The elements left by an erase: those behind the gap move up by one.
LEMMA RemoveAtElements ==
  ASSUME NEW S, NEW s \in Seq(S), NEW i \in DOMAIN s
  PROVE  /\ RemoveAt(s, i) \in Seq(S)
         /\ Len(RemoveAt(s, i)) = Len(s) - 1
         /\ \A j \in 1 .. Len(s) - 1 : RemoveAt(s, i)[j] = IF j < i THEN s[j] ELSE s[j + 1]
<1> DEFINE before == SubSeq(s, 1, i - 1)
           after == SubSeq(s, i + 1, Len(s))
<1>1. before \in Seq(S) /\ Len(before) = i - 1 /\ \A j \in 1 .. i - 1 : before[j] = s[j]
  OBVIOUS
<1>2. after \in Seq(S) /\ Len(after) = Len(s) - i
      /\ \A j \in 1 .. Len(s) - i : after[j] = s[i + j]
  OBVIOUS
<1>3. RemoveAt(s, i) = before \o after
  BY DEF RemoveAt
<1> HIDE DEF before, after
<1> QED
  BY SMTT(30), <1>1, <1>2, <1>3, ConcatProperties

\* erase takes exactly the erased member off a sequence without duplicates.
LEMMA SeatsAfterRemove ==
  ASSUME NEW S, NEW s \in Seq(S), NEW i \in DOMAIN s, IsInjective(s)
  PROVE  /\ RemoveAt(s, i) \in Seq(S)
         /\ ToSet(RemoveAt(s, i)) = ToSet(s) \ {s[i]}
         /\ IsInjective(RemoveAt(s, i))
<1> DEFINE t == RemoveAt(s, i)
<1>1. /\ t \in Seq(S) /\ DOMAIN t = 1 .. Len(s) - 1
      /\ DOMAIN s = 1 .. Len(s) /\ Len(s) \in Nat
      /\ \A j \in 1 .. Len(s) - 1 : t[j] = IF j < i THEN s[j] ELSE s[j + 1]
  BY RemoveAtElements
<1> HIDE DEF t
<1>2. IsInjective(t)
  <2> SUFFICES ASSUME NEW j \in DOMAIN t, NEW k \in DOMAIN t, t[j] = t[k]
               PROVE  j = k
    BY DEF IsInjective
  <2>1. j \in 1 .. Len(s) - 1 /\ k \in 1 .. Len(s) - 1 /\ i \in 1 .. Len(s)
    BY <1>1
  <2>2. \A a, b \in 1 .. Len(s) : s[a] = s[b] => a = b
    BY <1>1 DEF IsInjective
  <2>3. CASE j < i /\ k < i
    BY <1>1, <2>1, <2>2, <2>3
  <2>4. CASE ~(j < i) /\ ~(k < i)
    BY <1>1, <2>1, <2>2, <2>4
  <2>5. CASE ~(j < i <=> k < i)
    BY <1>1, <2>1, <2>2, <2>5
  <2> QED
    BY <2>3, <2>4, <2>5
<1>3. ToSet(t) \subseteq ToSet(s) \ {s[i]}
  BY <1>1 DEF ToSet, IsInjective
<1>4. ASSUME NEW x \in ToSet(s), x # s[i]
      PROVE  x \in ToSet(t)
  <2>1. PICK k \in DOMAIN s : s[k] = x
    BY DEF ToSet
  <2>2. CASE k < i
    BY <1>1, <1>4, <2>1, <2>2 DEF ToSet
  <2>3. CASE k > i
    <3>1. k - 1 \in DOMAIN t /\ t[k - 1] = x
      BY <1>1, <2>1, <2>3
    <3> QED
      BY <3>1 DEF ToSet
  <2> QED
    BY <1>1, <1>4, <2>1, <2>2, <2>3
<1> QED
  BY <1>1, <1>2, <1>3, <1>4 DEF t

----------------------------------------------------------------------------
(* Numbers and counting *)

\* A non-empty set of natural numbers has a least element.
LEMMA LeastNumber ==
  ASSUME NEW S \in SUBSET Nat, S # {}
  PROVE  \E k \in S : \A j \in S : k <= j
<1> DEFINE R == {ss \in Nat \X Nat : ss[1] < ss[2]}
<1>1. OpToRel(<, Nat) = R
  BY DEF OpToRel
<1>2. PICK k \in S : \A j \in S : ~ (<<j, k>> \in R)
  BY ZenonT(30), <1>1, NatLessThanWellFounded, WFMin
<1>3. \A j \in S : k <= j
  <2> TAKE j \in S
  <2>1. j \in Nat /\ k \in Nat
    OBVIOUS
  <2>2. <<j, k>> \notin R
    BY <1>2
  <2> QED
    BY <2>1, <2>2
<1> QED
  BY <1>3

\* A bounded one has a greatest element.
LEMMA GreatestNumber ==
  ASSUME NEW S \in SUBSET Nat, S # {}, NEW n \in Nat, \A j \in S : j <= n
  PROVE  \E k \in S : \A j \in S : j <= k
<1> DEFINE bounds == {m \in Nat : \A j \in S : j <= m}
<1>1. PICK k \in bounds : \A m \in bounds : k <= m
  <2>1. bounds \in SUBSET Nat /\ bounds # {}
    OBVIOUS
  <2> QED
    BY <2>1, LeastNumber
<1>2. CASE k \in S
  BY <1>1, <1>2
<1>3. CASE k \notin S
  <2>1. k \in Nat /\ \A j \in S : j \in Nat /\ j < k
    BY <1>1, <1>3
  <2>2. PICK j \in S : TRUE
    OBVIOUS
  <2>3. k - 1 \in bounds
    BY <2>1, <2>2
  <2> QED
    BY <1>1, <2>3
<1> QED
  BY <1>2, <1>3

\* Player p has thing t under number n.
At(p, n, t) ==
  \/ n \in DOMAIN items[p] /\ items[p][n] = t
  \/ n \in DOMAIN worn[p] /\ worn[p][n] = t

SessionTypes ==
  /\ online \subseteq Accounts
  /\ state \in [Accounts -> {"lobby", "trade", "away"}]
  /\ partner \in [Accounts -> Accounts \cup {None}]
  /\ offer \in [Accounts -> Seq(Serial)]
  /\ \A p \in Accounts : Len(offer[p]) <= MaxTraded + 1
  /\ locked \in [Accounts -> Accounts \cup {None}]
  /\ asked \subseteq Accounts \X Accounts
  /\ careless \in 0 .. MaxMishaps /\ disturbances \in 0 .. MaxMishaps

ItemTypes ==
  /\ items \in [Accounts -> Inventory]
  /\ worn \in [Accounts -> Inventory]
  /\ latest \in [Accounts -> 0 .. MaxNumber]

\* A player's numbers are used once, and those of a connected player are not above the latest.
NumbersInUse ==
  /\ \A p \in Accounts : DOMAIN items[p] \cap DOMAIN worn[p] = {}
  /\ \A p \in online : \A n \in DOMAIN items[p] \cup DOMAIN worn[p] : n <= latest[p]

\* Nobody trades with itself, or without a connection.
Partners ==
  /\ \A p, q \in Accounts : <<p, q>> \in asked => p # q /\ q \in online
  /\ \A p \in Accounts : partner[p] # p
  /\ \A p \in Accounts \ online : state[p] # "trade" /\ locked[p] = None

SomebodyHas == \A t \in Things : \E p \in Accounts, n \in Numbers : At(p, n, t)

TradeInv == SessionTypes /\ ItemTypes /\ NumbersInUse /\ Partners /\ SomebodyHas

AgreeInv ==
  disturbances = 0 => \A p \in Accounts :
    /\ state[p] = "trade" => /\ partner[p] \in online
                             /\ state[partner[p]] = "trade"
                             /\ partner[partner[p]] = p
    /\ locked[p] # None => state[p] = "trade" /\ locked[p] = partner[p]

OnePlace ==
  \A t \in Things : \A p, q \in Accounts, m, n \in Numbers :
    At(p, m, t) /\ At(q, n, t) => p = q /\ m = n

UniqueInv == careless = 0 => OnePlace /\ \A p \in Accounts : Deletable(p, Len(offer[p]))

----------------------------------------------------------------------------
(* Inventories *)

LEMMA InventoryForm ==
  ASSUME NEW f
  PROVE  f \in Inventory <=> DOMAIN f \subseteq Numbers /\ f \in [DOMAIN f -> Things]
BY DEF Inventory

\* Things stay where they are, under their numbers; so do the histories' counts of mishaps.
SameHoldings ==
  \A p \in Accounts : /\ DOMAIN items'[p] \cup DOMAIN worn'[p] = DOMAIN items[p] \cup DOMAIN worn[p]
                      /\ \A n, t : At(p, n, t)' <=> At(p, n, t)

\* handleEquipItem moves a thing from one map to the other, and others back.
LEMMA EquipKeepsHoldings ==
  ASSUME TradeInv, NEW p \in Accounts, NEW n \in Numbers, NEW off \in SUBSET DOMAIN worn[p],
         EquipItem(p, n, off)
  PROVE  /\ ItemTypes' /\ SameHoldings
         /\ \A q \in Accounts : DOMAIN items'[q] \cap DOMAIN worn'[q] = {}
         /\ \A q \in Accounts : \A m : m \in DOMAIN items[q] /\ ~(q = p /\ m = n)
                                   => m \in DOMAIN items'[q] /\ items'[q][m] = items[q][m]
<1> DEFINE unworn == Over(Restrict(worn[p], off), Restrict(items[p], DOMAIN items[p] \ {n}))
           dressed == Over(Restrict(items[p], {n}), Restrict(worn[p], DOMAIN worn[p] \ off))
<1>1. /\ n \in DOMAIN items[p]
      /\ items' = [items EXCEPT ![p] = unworn] /\ worn' = [worn EXCEPT ![p] = dressed]
      /\ latest' = latest
  BY DEF EquipItem
<1>2. /\ items \in [Accounts -> Inventory] /\ worn \in [Accounts -> Inventory]
      /\ DOMAIN items[p] \cap DOMAIN worn[p] = {}
  BY DEF TradeInv, ItemTypes, NumbersInUse
<1>3. unworn = [m \in off \cup (DOMAIN items[p] \ {n}) |->
                  IF m \in off THEN worn[p][m] ELSE items[p][m]]
  BY DEF Over, Restrict
<1>4. dressed = [m \in {n} \cup (DOMAIN worn[p] \ off) |->
                   IF m = n THEN items[p][n] ELSE worn[p][m]]
  BY DEF Over, Restrict
<1> HIDE DEF unworn, dressed
<1>5. unworn \in Inventory /\ dressed \in Inventory
  <2>1. /\ DOMAIN items[p] \subseteq Numbers /\ items[p] \in [DOMAIN items[p] -> Things]
        /\ DOMAIN worn[p] \subseteq Numbers /\ worn[p] \in [DOMAIN worn[p] -> Things]
    BY <1>2, InventoryForm
  <2>2. DOMAIN unworn \subseteq Numbers /\ unworn \in [DOMAIN unworn -> Things]
    BY <1>3, <2>1
  <2>3. DOMAIN dressed \subseteq Numbers /\ dressed \in [DOMAIN dressed -> Things]
    BY <1>1, <1>4, <2>1
  <2> QED
    BY <2>2, <2>3, InventoryForm
<1>6. ItemTypes'
  BY <1>1, <1>2, <1>5 DEF TradeInv, ItemTypes
<1>7. /\ items'[p] = unworn /\ worn'[p] = dressed
      /\ \A q \in Accounts \ {p} : items'[q] = items[q] /\ worn'[q] = worn[q]
  BY <1>1, <1>2
<1>8. ASSUME NEW q \in Accounts
      PROVE  /\ DOMAIN items'[q] \cup DOMAIN worn'[q] = DOMAIN items[q] \cup DOMAIN worn[q]
             /\ \A m, t : At(q, m, t)' <=> At(q, m, t)
             /\ DOMAIN items'[q] \cap DOMAIN worn'[q] = {}
  <2>1. CASE q = p
    BY <1>1, <1>2, <1>3, <1>4, <1>7, <2>1 DEF At
  <2>2. CASE q # p
    BY <1>7, <2>2 DEF At, TradeInv, NumbersInUse
  <2> QED
    BY <2>1, <2>2
<1>9. \A q \in Accounts : \A m : m \in DOMAIN items[q] /\ ~(q = p /\ m = n)
                             => m \in DOMAIN items'[q] /\ items'[q][m] = items[q][m]
  BY <1>2, <1>3, <1>7
<1> QED
  BY <1>6, <1>8, <1>9 DEF SameHoldings

\* handleUnequipItem moves a thing back.
LEMMA UnequipKeepsHoldings ==
  ASSUME TradeInv, NEW p \in Accounts, NEW n \in Numbers, UnequipItem(p, n)
  PROVE  /\ ItemTypes' /\ SameHoldings
         /\ \A q \in Accounts : DOMAIN items'[q] \cap DOMAIN worn'[q] = {}
         /\ \A q \in Accounts : \A m : m \in DOMAIN items[q]
                                   => m \in DOMAIN items'[q] /\ items'[q][m] = items[q][m]
<1> DEFINE unworn == Over(Restrict(worn[p], {n}), items[p])
           dressed == Restrict(worn[p], DOMAIN worn[p] \ {n})
<1>1. /\ n \in DOMAIN worn[p]
      /\ items' = [items EXCEPT ![p] = unworn] /\ worn' = [worn EXCEPT ![p] = dressed]
      /\ latest' = latest
  BY DEF UnequipItem
<1>2. /\ items \in [Accounts -> Inventory] /\ worn \in [Accounts -> Inventory]
      /\ DOMAIN items[p] \cap DOMAIN worn[p] = {}
  BY DEF TradeInv, ItemTypes, NumbersInUse
<1>3. unworn = [m \in {n} \cup DOMAIN items[p] |-> IF m = n THEN worn[p][n] ELSE items[p][m]]
  BY DEF Over, Restrict
<1>4. dressed = [m \in DOMAIN worn[p] \ {n} |-> worn[p][m]]
  BY DEF Restrict
<1> HIDE DEF unworn, dressed
<1>5. unworn \in Inventory /\ dressed \in Inventory
  <2>1. /\ DOMAIN items[p] \subseteq Numbers /\ items[p] \in [DOMAIN items[p] -> Things]
        /\ DOMAIN worn[p] \subseteq Numbers /\ worn[p] \in [DOMAIN worn[p] -> Things]
    BY <1>2, InventoryForm
  <2>2. DOMAIN unworn \subseteq Numbers /\ unworn \in [DOMAIN unworn -> Things]
    BY <1>1, <1>3, <2>1
  <2>3. DOMAIN dressed \subseteq Numbers /\ dressed \in [DOMAIN dressed -> Things]
    BY <1>4, <2>1
  <2> QED
    BY <2>2, <2>3, InventoryForm
<1>6. ItemTypes'
  BY <1>1, <1>2, <1>5 DEF TradeInv, ItemTypes
<1>7. /\ items'[p] = unworn /\ worn'[p] = dressed
      /\ \A q \in Accounts \ {p} : items'[q] = items[q] /\ worn'[q] = worn[q]
  BY <1>1, <1>2
<1>8. ASSUME NEW q \in Accounts
      PROVE  /\ DOMAIN items'[q] \cup DOMAIN worn'[q] = DOMAIN items[q] \cup DOMAIN worn[q]
             /\ \A m, t : At(q, m, t)' <=> At(q, m, t)
             /\ DOMAIN items'[q] \cap DOMAIN worn'[q] = {}
  <2>1. CASE q = p
    BY <1>1, <1>2, <1>3, <1>4, <1>7, <2>1 DEF At
  <2>2. CASE q # p
    BY <1>7, <2>2 DEF At, TradeInv, NumbersInUse
  <2> QED
    BY <2>1, <2>2
<1>9. \A q \in Accounts : \A m : m \in DOMAIN items[q]
                             => m \in DOMAIN items'[q] /\ items'[q][m] = items[q][m]
  BY <1>1, <1>2, <1>3, <1>7
<1> QED
  BY <1>6, <1>8, <1>9 DEF SameHoldings

----------------------------------------------------------------------------
(* The exchange *)

\* deleteItems removes the items of the longest deletable part of the offer.
LEMMA DeletedForm ==
  ASSUME SessionTypes, NEW p \in Accounts
  PROVE  \E k \in 0 .. Len(offer[p]) :
           /\ Deletable(p, k)
           /\ Deletable(p, Len(offer[p])) => k = Len(offer[p])
           /\ DeletedItems(p) = Restrict(items[p],
                                  DOMAIN items[p] \ {offer[p][i].number : i \in 1 .. k})
<1> DEFINE ends == {i \in 0 .. Len(offer[p]) : Deletable(p, i)}
<1>1. Len(offer[p]) \in Nat /\ ends \in SUBSET Nat /\ \A i \in ends : i <= Len(offer[p])
  BY DEF SessionTypes
<1>2. 0 \in ends
  BY <1>1 DEF Deletable
<1>3. \E k \in ends : \A j \in ends : j <= k
  BY <1>1, <1>2, GreatestNumber
<1>4. Max(ends) \in ends /\ \A j \in ends : j <= Max(ends)
  BY <1>1, <1>3 DEF Max
<1>5. DeletedItems(p) = Restrict(items[p],
        DOMAIN items[p] \ {offer[p][i].number : i \in 1 .. Max(ends)})
  BY DEF DeletedItems
<1>6. Deletable(p, Len(offer[p])) => Max(ends) = Len(offer[p])
  BY <1>1, <1>4
<1> QED
  BY <1>4, <1>5, <1>6

\* What p has after deleting k items and spawning q's: what was not deleted, and above it
\* what was spawned.
LeftAndSpawned(p, q, k) ==
  LET kept == DOMAIN items[p] \ {offer[p][i].number : i \in 1 .. k}
      spawned == latest[p] + 1 .. latest[p] + Len(offer[q])
  IN  /\ DOMAIN Traded(p, q) = spawned \cup kept
      /\ \A n \in spawned : Traded(p, q)[n] = offer[q][n - latest[p]].thing
      /\ \A n \in kept : Traded(p, q)[n] = items[p][n] /\ n <= latest[p]
      /\ Traded(p, q) \in Inventory

LEMMA TradedForm ==
  ASSUME TradeInv, NEW p \in online, NEW q \in Accounts,
         latest[p] + Len(offer[q]) <= MaxNumber
  PROVE  \E k \in 0 .. Len(offer[p]) :
           /\ Deletable(p, k)
           /\ Deletable(p, Len(offer[p])) => k = Len(offer[p])
           /\ LeftAndSpawned(p, q, k)
<1>1. PICK k \in 0 .. Len(offer[p]) :
           /\ Deletable(p, k)
           /\ Deletable(p, Len(offer[p])) => k = Len(offer[p])
           /\ DeletedItems(p) = Restrict(items[p],
                                  DOMAIN items[p] \ {offer[p][i].number : i \in 1 .. k})
  BY DeletedForm DEF TradeInv, SessionTypes
<1> DEFINE kept == DOMAIN items[p] \ {offer[p][i].number : i \in 1 .. k}
           spawned == latest[p] + 1 .. latest[p] + Len(offer[q])
<1>2. /\ p \in Accounts /\ latest[p] \in 0 .. MaxNumber
      /\ offer[q] \in Seq(Serial) /\ Len(offer[q]) \in Nat
      /\ items[p] \in Inventory
  BY DEF TradeInv, SessionTypes, ItemTypes
<1>3. \A n \in DOMAIN items[p] : n <= latest[p] /\ n \in Numbers
  BY <1>2, InventoryForm DEF TradeInv, NumbersInUse
<1>4. Traded(p, q) = [n \in spawned \cup kept |->
        IF n \in spawned THEN offer[q][n - latest[p]].thing ELSE items[p][n]]
  BY <1>1 DEF Traded, Over, Renumbered, Restrict
<1>5. \A n \in kept : n \notin spawned
  BY <1>2, <1>3 DEF Numbers
<1>6. spawned \subseteq Numbers
  BY <1>2, ConstantsAssumption DEF Numbers
<1>7. \A n \in spawned : offer[q][n - latest[p]].thing \in Things
  <2> TAKE n \in spawned
  <2>1. n - latest[p] \in 1 .. Len(offer[q])
    BY <1>2
  <2>2. offer[q][n - latest[p]] \in Serial
    BY <1>2, <2>1, ElementOfSeq
  <2> QED
    BY <2>2 DEF Serial
<1>8. \A n \in kept : items[p][n] \in Things
  BY <1>2, InventoryForm
<1>9. Traded(p, q) \in Inventory
  <2> HIDE DEF spawned, kept
  <2>1. Traded(p, q) \in [spawned \cup kept -> Things] /\ DOMAIN Traded(p, q) = spawned \cup kept
    BY <1>4, <1>7, <1>8
  <2>2. kept \subseteq Numbers
    BY <1>3 DEF kept
  <2> QED
    BY <1>6, <2>1, <2>2, InventoryForm
<1> HIDE DEF spawned
<1> QED
  BY <1>1, <1>3, <1>4, <1>5, <1>9 DEF spawned, LeftAndSpawned

\* An exchange as either of the two sees it.
Swapped(p, q) ==
  /\ p \in online /\ q \in online /\ p # q
  /\ items'[p] = Traded(p, q) /\ items'[q] = Traded(q, p)
  /\ \A r \in Accounts \ {p, q} : items'[r] = items[r]
  /\ latest'[p] = latest[p] + Len(offer[q]) /\ latest'[q] = latest[q] + Len(offer[p])
  /\ latest'[p] <= MaxNumber /\ latest'[q] <= MaxNumber
  /\ \A r \in Accounts \ {p, q} : latest'[r] = latest[r]
  /\ worn' = worn /\ online' = online

LEMMA ExchangeSwaps ==
  ASSUME TradeInv, NEW p \in online, NEW q \in online, p # q, Exchange(p, q)
  PROVE  Swapped(p, q) /\ Swapped(q, p) /\ DOMAIN items' = Accounts /\ DOMAIN latest' = Accounts
BY DEF TradeInv, SessionTypes, ItemTypes, Exchange, Swapped

\* What p had is still with p, or now with q.
LEMMA SwappedAwayFrom ==
  ASSUME TradeInv, NEW p \in Accounts, NEW q \in Accounts, Swapped(p, q),
         NEW n \in Numbers, NEW t, At(p, n, t)
  PROVE  \E r \in {p, q}, m \in Numbers : At(r, m, t)'
<1>1. CASE n \in DOMAIN worn[p] /\ worn[p][n] = t
  BY <1>1 DEF At, Swapped
<1>2. CASE n \in DOMAIN items[p] /\ items[p][n] = t
  <2>1. PICK k \in 0 .. Len(offer[p]) : Deletable(p, k) /\ LeftAndSpawned(p, q, k)
    BY TradedForm DEF Swapped
  <2>2. CASE n \notin {offer[p][i].number : i \in 1 .. k}
    BY <1>2, <2>1, <2>2 DEF At, Swapped, LeftAndSpawned
  <2>3. ASSUME NEW i \in 1 .. k, n = offer[p][i].number PROVE \E m \in Numbers : At(q, m, t)'
    <3>1. HoldsUnworn(p, offer[p][i])
      BY <2>1 DEF Deletable
    <3>2. offer[p][i].thing = t
      BY <1>2, <2>3, <3>1 DEF HoldsUnworn
    <3>3. /\ latest[q] \in Nat /\ Len(offer[p]) \in Nat
          /\ latest[q] + i \in latest[q] + 1 .. latest[q] + Len(offer[p])
      BY DEF TradeInv, SessionTypes, ItemTypes
    <3>4. PICK j : LeftAndSpawned(q, p, j)
      BY TradedForm DEF Swapped
    <3>5. (latest[q] + i) - latest[q] = i
      BY <3>3
    <3>6. latest[q] + i \in DOMAIN Traded(q, p) /\ Traded(q, p)[latest[q] + i] = t
      BY <3>2, <3>3, <3>4, <3>5 DEF LeftAndSpawned
    <3>7. latest[q] + i \in Numbers
      <4>1. MaxNumber \in Nat /\ latest[q] + Len(offer[p]) <= MaxNumber
        BY ConstantsAssumption DEF Swapped
      <4> QED
        BY <3>3, <4>1 DEF Numbers
    <3> QED
      BY <3>6, <3>7 DEF At, Swapped
  <2> QED
    BY <2>2, <2>3
<1> QED
  BY <1>1, <1>2 DEF At

\* What a player has after the exchange it had before, or the partner offered it.
LEMMA SwappedTo ==
  ASSUME TradeInv, NEW p \in Accounts, NEW q \in Accounts, Swapped(p, q),
         NEW n \in Numbers, NEW t, At(p, n, t)'
  PROVE  \/ /\ At(p, n, t) /\ n <= latest[p]
            /\ Deletable(p, Len(offer[p])) => \A i \in 1 .. Len(offer[p]) : offer[p][i].number # n
         \/ \E i \in 1 .. Len(offer[q]) : n = latest[p] + i /\ offer[q][i].thing = t
<1>1. CASE n \in DOMAIN worn[p] /\ worn[p][n] = t
  <2>1. n <= latest[p] /\ n \notin DOMAIN items[p]
    BY <1>1 DEF TradeInv, NumbersInUse, Swapped
  <2> QED
    BY <1>1, <2>1 DEF At, Deletable, HoldsUnworn
<1>2. CASE n \in DOMAIN items'[p] /\ items'[p][n] = t
  <2>1. PICK k \in 0 .. Len(offer[p]) :
           /\ Deletable(p, Len(offer[p])) => k = Len(offer[p])
           /\ LeftAndSpawned(p, q, k)
    BY TradedForm DEF Swapped
  <2>2. CASE n \in DOMAIN items[p] \ {offer[p][i].number : i \in 1 .. k}
    BY <1>2, <2>1, <2>2 DEF At, Swapped, LeftAndSpawned
  <2>3. CASE n \in latest[p] + 1 .. latest[p] + Len(offer[q])
    <3>1. latest[p] \in Nat /\ Len(offer[q]) \in Nat
      BY DEF TradeInv, SessionTypes, ItemTypes
    <3>2. n - latest[p] \in 1 .. Len(offer[q]) /\ n = latest[p] + (n - latest[p])
      BY <2>3, <3>1
    <3>3. offer[q][n - latest[p]].thing = t
      BY <1>2, <2>1, <2>3 DEF Swapped, LeftAndSpawned
    <3> QED
      BY <3>2, <3>3
  <2> QED
    BY <1>2, <2>1, <2>2, <2>3 DEF Swapped, LeftAndSpawned
<1> QED
  BY <1>1, <1>2 DEF At, Swapped

----------------------------------------------------------------------------
(* Sessions: types and partners *)

\* resetTradeInfo of the players in S
LEMMA ResetEffect ==
  ASSUME SessionTypes, NEW S, ResetTradeInfo(S)
  PROVE  /\ state' \in [Accounts -> {"lobby", "trade", "away"}]
         /\ partner' \in [Accounts -> Accounts \cup {None}]
         /\ locked' \in [Accounts -> Accounts \cup {None}]
         /\ offer' \in [Accounts -> Seq(Serial)]
         /\ \A p \in Accounts : p \in S => /\ state'[p] = "away" /\ partner'[p] = None
                                           /\ locked'[p] = None /\ offer'[p] = << >>
         /\ \A p \in Accounts : p \notin S => /\ state'[p] = state[p] /\ partner'[p] = partner[p]
                                              /\ locked'[p] = locked[p] /\ offer'[p] = offer[p]
<1>1. << >> \in Seq(Serial)
  OBVIOUS
<1> QED
  BY <1>1 DEF SessionTypes, ResetTradeInfo

LEMMA ResetKeepsSessions ==
  ASSUME TradeInv, NEW S, ResetTradeInfo(S), UNCHANGED <<online, asked, careless, disturbances>>
  PROVE  SessionTypes' /\ Partners'
<1> USE ConstantsAssumption
<1>1. SessionTypes /\ Partners
  BY DEF TradeInv
<1>2. SessionTypes'
  <2>1. \A p \in Accounts : Len(offer'[p]) <= MaxTraded + 1
    <3>1. Len(<< >>) = 0
      OBVIOUS
    <3> QED
      BY <1>1, <3>1, ResetEffect DEF SessionTypes
  <2> QED
    BY <1>1, <2>1, ResetEffect DEF SessionTypes
<1>3. Partners'
  BY <1>1, ResetEffect DEF Partners, SessionTypes
<1> QED
  BY <1>2, <1>3

LEMMA PlayersKeepSessions ==
  ASSUME TradeInv, NEW p \in Accounts,
         \/ Connect(p) \/ Disconnect(p) \/ LeaveRoom(p)
         \/ \E s \in {"lobby", "away"} : PlayerState(p, s)
         \/ \E n \in Numbers, off \in SUBSET DOMAIN worn[p] : EquipItem(p, n, off)
         \/ \E n \in Numbers : UnequipItem(p, n)
  PROVE  SessionTypes' /\ Partners'
<1> USE ConstantsAssumption
<1>1. SessionTypes /\ Partners
  BY DEF TradeInv
<1>2. CASE Connect(p)
  BY <1>1, <1>2 DEF Connect, SessionTypes, Partners
<1>3. CASE Disconnect(p)
  <2>1. << >> \in Seq(Serial) /\ Len(<< >>) = 0
    OBVIOUS
  <2>2. disturbances' \in 0 .. MaxMishaps
    BY <1>1, <1>3 DEF Disconnect, Disturbs, SessionTypes
  <2>3. SessionTypes'
    BY <1>1, <1>3, <2>1, <2>2 DEF Disconnect, SessionTypes
  <2>4. Partners'
    BY <1>1, <1>3 DEF Disconnect, SessionTypes, Partners
  <2> QED
    BY <2>3, <2>4
<1>4. CASE LeaveRoom(p)
  <2>1. disturbances' \in 0 .. MaxMishaps
    BY <1>1, <1>4 DEF LeaveRoom, Disturbs, SessionTypes
  <2> QED
    BY <1>1, <1>4, <2>1 DEF LeaveRoom, SessionTypes, Partners
<1>5. CASE \E s \in {"lobby", "away"} : PlayerState(p, s)
  BY <1>1, <1>5 DEF PlayerState, SessionTypes, Partners
<1>6. CASE \E n \in Numbers, off \in SUBSET DOMAIN worn[p] : EquipItem(p, n, off)
  <2>1. PICK n \in Numbers, off \in SUBSET DOMAIN worn[p] : EquipItem(p, n, off)
    BY <1>6
  <2>2. careless' \in 0 .. MaxMishaps
    BY <1>1, <2>1 DEF EquipItem, Careless, SessionTypes
  <2> QED
    BY <1>1, <2>1, <2>2 DEF EquipItem, SessionTypes, Partners
<1>7. CASE \E n \in Numbers : UnequipItem(p, n)
  BY <1>1, <1>7 DEF UnequipItem, SessionTypes, Partners
<1> QED
  BY <1>2, <1>3, <1>4, <1>5, <1>6, <1>7

LEMMA RequestsKeepSessions ==
  ASSUME TradeInv, NEW p \in Accounts, NEW q \in Accounts,
         TradeAck(p, q) \/ TradeAccept(p, q) \/ TradeDecline(p, q)
  PROVE  SessionTypes' /\ Partners'
<1> USE ConstantsAssumption
<1>1. SessionTypes /\ Partners
  BY DEF TradeInv
<1>2. CASE TradeAck(p, q)
  BY <1>1, <1>2 DEF TradeAck, SessionTypes, Partners
<1>3. CASE TradeAccept(p, q)
  <2>1. disturbances' \in 0 .. MaxMishaps
    BY SMTT(30), <1>1, <1>3 DEF TradeAccept, Disturbs, SessionTypes
  <2>2. SessionTypes'
    BY <1>1, <1>3, <2>1 DEF TradeAccept, SessionTypes
  <2>3. ASSUME UNCHANGED <<state, partner>> PROVE Partners'
    BY <1>1, <1>3, <2>3 DEF TradeAccept, SessionTypes, Partners
  <2>4. ASSUME p \in online,
               state' = [state EXCEPT ![p] = "trade", ![q] = "trade"],
               partner' = [partner EXCEPT ![p] = q, ![q] = p]
        PROVE  Partners'
    <3>1. p # q /\ q \in online /\ UNCHANGED <<online, locked>> /\ asked' \subseteq asked
      BY <1>1, <1>3 DEF TradeAccept, Partners
    <3>2. \A r \in Accounts : partner'[r] # r
      BY <1>1, <2>4, <3>1 DEF SessionTypes, Partners
    <3>3. \A r \in Accounts \ online : state'[r] = state[r]
      BY <1>1, <2>4, <3>1 DEF SessionTypes
    <3> QED
      BY <1>1, <3>1, <3>2, <3>3 DEF Partners
  <2>5. Partners'
    BY <1>3, <2>3, <2>4 DEF TradeAccept
  <2> QED
    BY <2>2, <2>5
<1>4. CASE TradeDecline(p, q)
  <2>1. disturbances' \in 0 .. MaxMishaps
    BY <1>1, <1>4 DEF TradeDecline, Disturbs, SessionTypes
  <2>2. SessionTypes'
    BY <1>1, <1>4, <2>1 DEF TradeDecline, SessionTypes
  <2>3. Partners'
    BY <1>1, <1>4 DEF TradeDecline, SessionTypes, Partners
  <2> QED
    BY <2>2, <2>3
<1> QED
  BY <1>2, <1>3, <1>4

\* RemoveFirst takes one entry out of an offer without duplicates, or none.
LEMMA OfferAfterRemoval ==
  ASSUME NEW S, NEW s \in Seq(S), NEW e
  PROVE  /\ RemoveFirst(s, e) \in Seq(S)
         /\ Len(RemoveFirst(s, e)) <= Len(s)
         /\ ToSet(RemoveFirst(s, e)) \subseteq ToSet(s)
         /\ IsInjective(s) => IsInjective(RemoveFirst(s, e))
<1> DEFINE I == {i \in 1 .. Len(s) : s[i] = e}
<1>1. CASE \E i \in 1 .. Len(s) : s[i] = e
  <2>1. I \in SUBSET Nat /\ I # {}
    BY <1>1
  <2>2. \E k \in I : \A j \in I : k <= j
    BY <2>1, LeastNumber
  <2>3. Min(I) \in I
    BY <2>2 DEF Min
  <2>4. PICK i \in DOMAIN s : RemoveFirst(s, e) = RemoveAt(s, i)
    <3>1. RemoveFirst(s, e) = RemoveAt(s, Min(I))
      BY <1>1, <2>1 DEF RemoveFirst, SelectInSeq
    <3> QED
      BY <2>3, <3>1
  <2>5. /\ RemoveAt(s, i) \in Seq(S)
        /\ Len(RemoveAt(s, i)) = Len(s) - 1
        /\ \A j \in 1 .. Len(s) - 1 : RemoveAt(s, i)[j] = IF j < i THEN s[j] ELSE s[j + 1]
    BY RemoveAtElements
  <2>6. ToSet(RemoveAt(s, i)) \subseteq ToSet(s)
    BY SMTT(30), <2>5 DEF ToSet
  <2>7. IsInjective(s) => IsInjective(RemoveAt(s, i))
    BY SeatsAfterRemove
  <2> QED
    BY <2>4, <2>5, <2>6, <2>7
<1>2. CASE ~\E i \in 1 .. Len(s) : s[i] = e
  BY <1>2 DEF RemoveFirst
<1> QED
  BY <1>1, <1>2

LEMMA TradingKeepsSessions ==
  ASSUME TradeInv, NEW p \in Accounts,
         \/ \E s \in Serial : TradeAddItem(p, s) \/ TradeItemRemoval(p, s)
         \/ TradeLock(p) \/ TradeFinalization(p) \/ TradeCancellation(p)
  PROVE  SessionTypes' /\ Partners'
<1> USE ConstantsAssumption
<1>1. SessionTypes /\ Partners
  BY DEF TradeInv
<1>2. CASE PartnerGone(p)
  BY <1>2, ResetKeepsSessions DEF PartnerGone
<1>3. CASE \E s \in Serial : TradeAddItem(p, s)
  <2> SUFFICES ASSUME NEW s \in Serial, TradeAddItem(p, s), ~PartnerGone(p)
               PROVE  SessionTypes' /\ Partners'
    BY <1>2, <1>3
  <2>1. /\ offer' = [offer EXCEPT ![p] = Append(@, s)] /\ Len(offer[p]) <= MaxTraded
        /\ Careless(~HoldsUnworn(p, s) \/ s \in ToSet(offer[p]))
        /\ UNCHANGED <<online, state, partner, locked, asked, disturbances>>
    BY DEF TradeAddItem
  <2>2. Append(offer[p], s) \in Seq(Serial) /\ Len(Append(offer[p], s)) <= MaxTraded + 1
    BY <1>1, <2>1 DEF SessionTypes
  <2>3. careless' \in 0 .. MaxMishaps
    BY <1>1, <2>1 DEF Careless, SessionTypes
  <2> QED
    BY <1>1, <2>1, <2>2, <2>3 DEF SessionTypes, Partners
<1>4. CASE \E s \in Serial : TradeItemRemoval(p, s)
  <2> SUFFICES ASSUME NEW s \in Serial, TradeItemRemoval(p, s), ~PartnerGone(p)
               PROVE  SessionTypes' /\ Partners'
    BY <1>2, <1>4
  <2>1. /\ offer' = [offer EXCEPT ![p] = RemoveFirst(@, s)]
        /\ UNCHANGED <<online, state, partner, locked, asked, careless, disturbances>>
    BY DEF TradeItemRemoval
  <2>2. RemoveFirst(offer[p], s) \in Seq(Serial) /\ Len(RemoveFirst(offer[p], s)) <= MaxTraded + 1
    <3>1. offer[p] \in Seq(Serial) /\ Len(offer[p]) <= MaxTraded + 1
      BY <1>1 DEF SessionTypes
    <3>2. RemoveFirst(offer[p], s) \in Seq(Serial) /\ Len(RemoveFirst(offer[p], s)) <= Len(offer[p])
      BY <3>1, OfferAfterRemoval
    <3> QED
      BY <3>1, <3>2
  <2> QED
    BY <1>1, <2>1, <2>2 DEF SessionTypes, Partners
<1>5. CASE TradeLock(p)
  BY <1>2, <1>5 DEF TradeLock
<1>6. CASE TradeCancellation(p)
  BY <1>2, <1>6, ResetKeepsSessions DEF TradeCancellation
<1>7. CASE TradeFinalization(p)
  <2>1. CASE Exchange(p, partner[p])
    BY <2>1, ResetKeepsSessions DEF Exchange
  <2>2. CASE /\ Trading(p) /\ PartnerFound(p)
             /\ locked' = [locked EXCEPT ![p] = partner[p]]
             /\ UNCHANGED <<online, state, partner, offer, asked, careless, disturbances>>
    BY <1>1, <2>2 DEF Trading, PartnerFound, SessionTypes, Partners
  <2> QED
    BY <1>2, <1>7, <2>1, <2>2 DEF TradeFinalization
<1> QED
  BY <1>3, <1>4, <1>5, <1>6, <1>7

----------------------------------------------------------------------------
(* Items: numbers, and that everything is with somebody *)

LEMMA SameItems ==
  ASSUME TradeInv, UNCHANGED <<items, worn, latest, online>>
  PROVE  ItemTypes' /\ NumbersInUse' /\ SomebodyHas'
BY DEF TradeInv, ItemTypes, NumbersInUse, SomebodyHas, At

\* Nothing is lost when a player takes something on or off.
LEMMA SameHoldingsKeepItems ==
  ASSUME TradeInv, ItemTypes', SameHoldings, UNCHANGED <<online, latest>>,
         \A q \in Accounts : DOMAIN items'[q] \cap DOMAIN worn'[q] = {}
  PROVE  NumbersInUse' /\ SomebodyHas'
<1>1. NumbersInUse'
  BY DEF TradeInv, SessionTypes, NumbersInUse, SameHoldings
<1>2. SomebodyHas'
  BY DEF TradeInv, SomebodyHas, SameHoldings
<1> QED
  BY <1>1, <1>2

\* A player who connects gets the greatest number in use as the latest.
LEMMA ConnectKeepsItems ==
  ASSUME TradeInv, NEW p \in Accounts, Connect(p)
  PROVE  ItemTypes' /\ NumbersInUse' /\ SomebodyHas'
<1> DEFINE used == {0} \cup DOMAIN items[p] \cup DOMAIN worn[p]
<1>1. /\ latest' = [latest EXCEPT ![p] = Max(used)] /\ online' = online \cup {p}
      /\ UNCHANGED <<items, worn>>
  BY DEF Connect
<1>2. DOMAIN items[p] \subseteq Numbers /\ DOMAIN worn[p] \subseteq Numbers
  BY InventoryForm DEF TradeInv, ItemTypes
<1>3. /\ used \in SUBSET Nat /\ used # {} /\ MaxNumber \in Nat
      /\ \A n \in used : n <= MaxNumber
  BY <1>2, ConstantsAssumption DEF Numbers
<1> HIDE DEF used
<1>4. \E k \in used : \A j \in used : j <= k
  BY <1>3, GreatestNumber
<1>5. PICK k \in used : Max(used) = k /\ \A n \in used : n <= k
  <2>1. \E k \in used : \A j \in used : k >= j
    BY <1>3, <1>4
  <2>2. Max(used) \in used /\ \A n \in used : Max(used) >= n
    BY <2>1 DEF Max
  <2> QED
    BY <1>3, <2>2
<1>6. k \in 0 .. MaxNumber
  BY <1>3, <1>5
<1>7. ItemTypes'
  BY <1>1, <1>5, <1>6 DEF TradeInv, ItemTypes
<1>8. NumbersInUse'
  <2>1. latest' = [latest EXCEPT ![p] = k] /\ \A n \in DOMAIN items[p] \cup DOMAIN worn[p] : n <= k
    BY <1>1, <1>5 DEF used
  <2> QED
    BY <1>1, <2>1 DEF TradeInv, ItemTypes, NumbersInUse
<1>9. SomebodyHas'
  BY <1>1 DEF TradeInv, SomebodyHas, At
<1> QED
  BY <1>7, <1>8, <1>9

\* What is deleted on one side is spawned on the other, under numbers that are free.
LEMMA ExchangeKeepsItems ==
  ASSUME TradeInv, NEW p \in Accounts, Trading(p), PartnerFound(p), Exchange(p, partner[p])
  PROVE  ItemTypes' /\ NumbersInUse' /\ SomebodyHas'
<1> DEFINE q == partner[p]
<1>1. /\ p \in online /\ q \in online /\ q \in Accounts /\ p # q
  BY DEF TradeInv, SessionTypes, Partners, Trading, PartnerFound
<1> HIDE DEF q
<1>2. Swapped(p, q) /\ Swapped(q, p) /\ DOMAIN items' = Accounts /\ DOMAIN latest' = Accounts
  BY <1>1, ExchangeSwaps DEF q
<1>3. PICK k : LeftAndSpawned(p, q, k)
  BY <1>1, <1>2, TradedForm DEF Swapped
<1>4. PICK j : LeftAndSpawned(q, p, j)
  BY <1>1, <1>2, TradedForm DEF Swapped
<1>5. \A r \in Accounts : items'[r] \in Inventory /\ latest'[r] \in 0 .. MaxNumber
  <2>1. \A r \in Accounts \ {p, q} : items'[r] \in Inventory /\ latest'[r] \in 0 .. MaxNumber
    BY <1>2 DEF TradeInv, ItemTypes, Swapped
  <2>2. items'[p] \in Inventory /\ items'[q] \in Inventory
    BY <1>2, <1>3, <1>4 DEF Swapped, LeftAndSpawned
  <2>3. latest'[p] \in 0 .. MaxNumber /\ latest'[q] \in 0 .. MaxNumber
    BY <1>1, <1>2, ConstantsAssumption DEF TradeInv, ItemTypes, SessionTypes, Swapped
  <2> QED
    BY <2>1, <2>2, <2>3
<1>6. ItemTypes'
  <2>1. items' = [r \in Accounts |-> items'[r]] /\ latest' = [r \in Accounts |-> latest'[r]]
    BY DEF TradeInv, ItemTypes, Exchange
  <2> QED
    BY <1>2, <1>5, <2>1 DEF TradeInv, ItemTypes, Swapped
\* The numbers of one of the two after the exchange
<1>7. ASSUME NEW x \in Accounts, NEW y \in Accounts, Swapped(x, y), NEW i, LeftAndSpawned(x, y, i)
      PROVE  /\ DOMAIN items'[x] \cap DOMAIN worn'[x] = {}
             /\ \A n \in DOMAIN items'[x] \cup DOMAIN worn'[x] : n <= latest'[x]
  <2>1. /\ latest[x] \in Nat /\ Len(offer[y]) \in Nat /\ latest'[x] = latest[x] + Len(offer[y])
        /\ DOMAIN items'[x] = (latest[x] + 1 .. latest[x] + Len(offer[y]))
                              \cup (DOMAIN items[x] \ {offer[x][m].number : m \in 1 .. i})
        /\ x \in online /\ worn' = worn
    BY <1>7 DEF TradeInv, SessionTypes, ItemTypes, Swapped, LeftAndSpawned
  <2>2. /\ DOMAIN items[x] \cap DOMAIN worn[x] = {}
        /\ \A n \in DOMAIN items[x] \cup DOMAIN worn[x] : n <= latest[x]
    BY <2>1 DEF TradeInv, NumbersInUse
  <2>3. DOMAIN items[x] \subseteq Nat /\ DOMAIN worn[x] \subseteq Nat
    BY InventoryForm DEF TradeInv, ItemTypes, Numbers
  <2> QED
    BY <2>1, <2>2, <2>3
<1>8. NumbersInUse'
  <2>1. \A r \in Accounts \ {p, q} : UNCHANGED <<items[r], worn[r], latest[r]>>
    BY <1>2 DEF Swapped
  <2>2. online' = online /\ online \subseteq Accounts
    BY <1>2 DEF TradeInv, SessionTypes, Swapped
  <2> QED
    BY <1>1, <1>2, <1>3, <1>4, <1>7, <2>1, <2>2 DEF TradeInv, NumbersInUse
<1>9. SomebodyHas'
  <2> SUFFICES ASSUME NEW t \in Things PROVE \E r \in Accounts, n \in Numbers : At(r, n, t)'
    BY DEF SomebodyHas
  <2>1. PICK r \in Accounts, n \in Numbers : At(r, n, t)
    BY DEF TradeInv, SomebodyHas
  <2>2. CASE r \notin {p, q}
    BY <1>2, <2>1, <2>2 DEF At, Swapped
  <2>3. CASE r = p
    BY <1>1, <1>2, <2>1, <2>3, SwappedAwayFrom
  <2>4. CASE r = q
    BY <1>1, <1>2, <2>1, <2>4, SwappedAwayFrom
  <2> QED
    BY <2>2, <2>3, <2>4
<1> QED
  BY <1>6, <1>8, <1>9

LEMMA TradeInvInit == Init => TradeInv
<1> SUFFICES ASSUME Init PROVE TradeInv
  OBVIOUS
<1> USE ConstantsAssumption
<1>1. << >> \in Seq(Serial) /\ Len(<< >>) = 0
  OBVIOUS
<1>2. << >> \in Inventory /\ DOMAIN << >> = {}
  <2>1. DOMAIN << >> = {} /\ << >> \in [DOMAIN << >> -> Things]
    OBVIOUS
  <2> QED
    BY <2>1, InventoryForm
<1>3. SessionTypes
  BY <1>1 DEF Init, SessionTypes
<1>4. ItemTypes
  BY <1>2 DEF Init, ItemTypes
<1>5. NumbersInUse /\ Partners
  BY <1>2 DEF Init, NumbersInUse, Partners
<1>6. SomebodyHas
  <2> SUFFICES ASSUME NEW t \in Things PROVE \E p \in Accounts, n \in Numbers : At(p, n, t)
    BY DEF SomebodyHas
  <2> DEFINE owners == {p \in Accounts : t \in Range(items[p])}
  <2>1. Cardinality(owners) = 1
    BY DEF Init
  <2> HIDE DEF owners
  <2>2. owners # {}
    BY <2>1, FS_EmptySet
  <2>3. PICK p \in Accounts : t \in Range(items[p])
    BY <2>2 DEF owners
  <2>4. PICK n \in DOMAIN items[p] : items[p][n] = t
    BY <2>3 DEF Range
  <2>5. n \in Numbers
    BY <1>4, InventoryForm DEF ItemTypes
  <2> QED
    BY <2>4, <2>5 DEF At
<1> QED
  BY <1>3, <1>4, <1>5, <1>6 DEF TradeInv

LEMMA TradeInvStep == TradeInv /\ [Next]_vars => TradeInv'
<1> SUFFICES ASSUME TradeInv, [Next]_vars PROVE TradeInv'
  OBVIOUS
<1>1. ASSUME NEW p \in Accounts,
             \/ Connect(p) \/ Disconnect(p) \/ LeaveRoom(p)
             \/ \E s \in {"lobby", "away"} : PlayerState(p, s)
             \/ \E n \in Numbers, off \in SUBSET DOMAIN worn[p] : EquipItem(p, n, off)
             \/ \E n \in Numbers : UnequipItem(p, n)
      PROVE  TradeInv'
  <2>1. SessionTypes' /\ Partners'
    BY <1>1, PlayersKeepSessions
  <2>2. ItemTypes' /\ NumbersInUse' /\ SomebodyHas'
    <3>1. CASE Connect(p)
      BY <3>1, ConnectKeepsItems
    <3>2. CASE Disconnect(p)
      BY <3>2, ConstantsAssumption
         DEF Disconnect, TradeInv, ItemTypes, NumbersInUse, SessionTypes, SomebodyHas, At
    <3>3. CASE LeaveRoom(p) \/ \E s \in {"lobby", "away"} : PlayerState(p, s)
      BY <3>3, SameItems DEF LeaveRoom, PlayerState, inventory
    <3>4. ASSUME NEW n \in Numbers, NEW off \in SUBSET DOMAIN worn[p], EquipItem(p, n, off)
          PROVE  ItemTypes' /\ NumbersInUse' /\ SomebodyHas'
      BY <3>4, EquipKeepsHoldings, SameHoldingsKeepItems DEF EquipItem
    <3>5. ASSUME NEW n \in Numbers, UnequipItem(p, n)
          PROVE  ItemTypes' /\ NumbersInUse' /\ SomebodyHas'
      BY <3>5, UnequipKeepsHoldings, SameHoldingsKeepItems DEF UnequipItem
    <3> QED
      BY <1>1, <3>1, <3>2, <3>3, <3>4, <3>5
  <2> QED
    BY <2>1, <2>2 DEF TradeInv
<1>2. ASSUME NEW p \in Accounts, NEW q \in Accounts,
             TradeAck(p, q) \/ TradeAccept(p, q) \/ TradeDecline(p, q)
      PROVE  TradeInv'
  <2>1. SessionTypes' /\ Partners'
    BY <1>2, RequestsKeepSessions
  <2>2. ItemTypes' /\ NumbersInUse' /\ SomebodyHas'
    BY <1>2, SameItems DEF TradeAck, TradeAccept, TradeDecline, inventory
  <2> QED
    BY <2>1, <2>2 DEF TradeInv
<1>3. ASSUME NEW p \in Accounts,
             \/ \E s \in Serial : TradeAddItem(p, s) \/ TradeItemRemoval(p, s)
             \/ TradeLock(p) \/ TradeFinalization(p) \/ TradeCancellation(p)
      PROVE  TradeInv'
  <2>1. SessionTypes' /\ Partners'
    BY <1>3, TradingKeepsSessions
  <2>2. ItemTypes' /\ NumbersInUse' /\ SomebodyHas'
    <3>1. CASE Trading(p) /\ PartnerFound(p) /\ Exchange(p, partner[p])
      BY <3>1, ExchangeKeepsItems
    <3>2. CASE UNCHANGED <<items, worn, latest, online>>
      BY <3>2, SameItems
    <3> QED
      BY <1>3, <3>1, <3>2 DEF TradeAddItem, TradeItemRemoval, TradeLock, TradeFinalization,
                              TradeCancellation, PartnerGone, inventory
  <2> QED
    BY <2>1, <2>2 DEF TradeInv
<1>4. CASE UNCHANGED vars
  <2>1. ItemTypes' /\ NumbersInUse' /\ SomebodyHas'
    BY <1>4, SameItems DEF vars, inventory
  <2>2. SessionTypes' /\ Partners'
    BY <1>4 DEF vars, TradeInv, SessionTypes, Partners
  <2> QED
    BY <2>1, <2>2 DEF TradeInv
<1> QED
  BY <1>1, <1>2, <1>3, <1>4 DEF Next

\* The numbers, types and partners of a trade stay in order, and nothing is ever lost.
THEOREM TradeInvHolds == Spec => []TradeInv
<1> QED
  BY TradeInvInit, TradeInvStep, PTL DEF Spec

----------------------------------------------------------------------------
(* Both sides of a trade *)

\* A trade that nothing interferes with ends for both sides at once.
LEMMA ResetKeepsAgreement ==
  ASSUME TradeInv, AgreeInv, NEW p \in Accounts, Trading(p), disturbances = 0,
         ResetTradeInfo({p, partner[p]}), UNCHANGED <<online, disturbances>>
  PROVE  AgreeInv'
<1> DEFINE q == partner[p]
<1>1. /\ q \in Accounts /\ state[p] = "trade" /\ q # p
      /\ \A r \in Accounts : state[r] = "trade" /\ partner[r] \in {p, q} => r \in {p, q}
  BY DEF AgreeInv, Trading, TradeInv, SessionTypes, Partners
<1> HIDE DEF q
<1>2. /\ \A r \in {p, q} : state'[r] = "away" /\ locked'[r] = None
      /\ \A r \in Accounts \ {p, q} : /\ state'[r] = state[r] /\ partner'[r] = partner[r]
                                      /\ locked'[r] = locked[r]
  BY <1>1, ResetEffect DEF q, TradeInv
<1>3. ASSUME NEW r \in Accounts, state'[r] = "trade" \/ locked'[r] # None
      PROVE  /\ r \notin {p, q} /\ UNCHANGED <<state[r], partner[r], locked[r]>>
             /\ state[r] = "trade" /\ partner[r] \in Accounts \ {p, q}
  <2>1. r \notin {p, q} /\ UNCHANGED <<state[r], partner[r], locked[r]>>
    BY <1>2, <1>3
  <2>2. state[r] = "trade" /\ partner[r] \in online
    BY <1>3, <2>1 DEF AgreeInv
  <2> QED
    BY <1>1, <2>1, <2>2 DEF TradeInv, SessionTypes
<1> QED
  BY <1>2, <1>3 DEF AgreeInv

LEMMA AgreeStep == TradeInv /\ AgreeInv /\ [Next]_vars => AgreeInv'
<1> SUFFICES ASSUME TradeInv, AgreeInv, [Next]_vars, disturbances' = 0 PROVE AgreeInv'
  BY DEF AgreeInv
<1>1. SessionTypes /\ Partners
  BY DEF TradeInv
<1>2. ASSUME UNCHANGED <<online, state, partner, locked, disturbances>> PROVE AgreeInv'
  BY <1>2 DEF AgreeInv
<1>3. ASSUME NEW p \in Accounts,
             \/ Connect(p) \/ Disconnect(p) \/ LeaveRoom(p)
             \/ \E s \in {"lobby", "away"} : PlayerState(p, s)
             \/ \E n \in Numbers, off \in SUBSET DOMAIN worn[p] : EquipItem(p, n, off)
             \/ \E n \in Numbers : UnequipItem(p, n)
      PROVE  AgreeInv'
  <2>1. CASE Connect(p)
    BY <1>1, <2>1 DEF Connect, AgreeInv
  <2>2. CASE Disconnect(p)
    <3>1. disturbances = 0 /\ state[p] # "trade"
      BY <1>1, <2>2 DEF Disconnect, Disturbs, SessionTypes
    <3> QED
      BY <1>1, <2>2, <3>1 DEF Disconnect, AgreeInv, SessionTypes
  <2>3. CASE LeaveRoom(p)
    <3>1. disturbances = 0 /\ state[p] # "trade"
      BY <1>1, <2>3 DEF LeaveRoom, Disturbs, SessionTypes
    <3> QED
      BY <1>1, <2>3, <3>1 DEF LeaveRoom, AgreeInv, SessionTypes
  <2>4. CASE \E s \in {"lobby", "away"} : PlayerState(p, s)
    BY <1>1, <2>4 DEF PlayerState, AgreeInv, SessionTypes
  <2>5. CASE \/ \E n \in Numbers, off \in SUBSET DOMAIN worn[p] : EquipItem(p, n, off)
             \/ \E n \in Numbers : UnequipItem(p, n)
    BY <1>2, <2>5 DEF EquipItem, UnequipItem
  <2> QED
    BY <1>3, <2>1, <2>2, <2>3, <2>4, <2>5
<1>4. ASSUME NEW p \in Accounts, NEW q \in Accounts,
             TradeAck(p, q) \/ TradeAccept(p, q) \/ TradeDecline(p, q)
      PROVE  AgreeInv'
  <2>1. CASE TradeAck(p, q)
    BY <1>2, <2>1 DEF TradeAck
  <2>2. CASE UNCHANGED <<state, partner, disturbances>>
    BY <1>2, <1>4, <2>2 DEF TradeAck, TradeAccept, TradeDecline
  <2>3. CASE TradeAccept(p, q) /\ p \in online /\ state[p] = "lobby"
    <3>1. disturbances = 0 /\ state[q] # "trade"
      BY <1>1, <2>3 DEF TradeAccept, Disturbs, SessionTypes
    <3>2. /\ state' = [state EXCEPT ![p] = "trade", ![q] = "trade"]
          /\ partner' = [partner EXCEPT ![p] = q, ![q] = p]
          /\ UNCHANGED <<online, locked>> /\ p # q /\ q \in online
      BY <1>1, <2>3 DEF TradeAccept, Partners
    <3>3. /\ \A r \in {p, q} : state[r] # "trade" /\ locked[r] = None
          /\ \A r \in Accounts : state[r] = "trade" => partner[r] \notin {p, q}
      BY <2>3, <3>1 DEF AgreeInv
    <3>4. /\ state'[p] = "trade" /\ state'[q] = "trade" /\ partner'[p] = q /\ partner'[q] = p
          /\ \A r \in Accounts \ {p, q} : state'[r] = state[r] /\ partner'[r] = partner[r]
      BY <1>1, <3>2 DEF SessionTypes
    <3> QED
      BY <1>1, <2>3, <3>1, <3>2, <3>3, <3>4 DEF AgreeInv, SessionTypes
  <2>4. CASE TradeDecline(p, q) /\ p \in online
    <3>1. disturbances = 0 /\ state[p] # "trade"
      BY <1>1, <2>4 DEF TradeDecline, Disturbs, SessionTypes
    <3> QED
      BY <1>1, <2>4, <3>1 DEF TradeDecline, AgreeInv, SessionTypes
  <2> QED
    BY <1>4, <2>1, <2>2, <2>3, <2>4 DEF TradeAccept, TradeDecline
<1>5. ASSUME NEW p \in Accounts,
             \/ \E s \in Serial : TradeAddItem(p, s) \/ TradeItemRemoval(p, s)
             \/ TradeLock(p) \/ TradeFinalization(p) \/ TradeCancellation(p)
      PROVE  AgreeInv'
  <2>1. Trading(p) /\ disturbances = 0
    BY <1>5 DEF TradeAddItem, TradeItemRemoval, TradeLock, TradeFinalization,
                TradeCancellation, PartnerGone, Exchange
  <2>2. PartnerFound(p)
    BY <2>1 DEF AgreeInv, Trading, PartnerFound
  <2>3. CASE ResetTradeInfo({p, partner[p]}) /\ UNCHANGED <<online, disturbances>>
    BY <2>1, <2>3, ResetKeepsAgreement
  <2>4. CASE UNCHANGED <<online, state, partner, locked, disturbances>>
    BY <1>2, <2>4
  <2>5. CASE /\ locked' = [locked EXCEPT ![p] = partner[p]]
             /\ UNCHANGED <<online, state, partner, disturbances>>
    BY <1>1, <2>1, <2>5 DEF AgreeInv, Trading, SessionTypes
  <2> QED
    BY <1>5, <2>2, <2>3, <2>4, <2>5
       DEF TradeAddItem, TradeItemRemoval, TradeLock, TradeFinalization, TradeCancellation,
           PartnerGone, Exchange
<1>6. CASE UNCHANGED vars
  BY <1>2, <1>6 DEF vars
<1> QED
  BY <1>3, <1>4, <1>5, <1>6 DEF Next

----------------------------------------------------------------------------
(* One place for each thing *)

\* An offer can be deleted to the end when its entries differ and are all held.
LEMMA DeletableOffer ==
  ASSUME SessionTypes, NEW p \in Accounts
  PROVE  Deletable(p, Len(offer[p])) <=>
           IsInjective(offer[p]) /\ \A s \in ToSet(offer[p]) : HoldsUnworn(p, s)
<1>1. DOMAIN offer[p] = 1 .. Len(offer[p])
  BY DEF SessionTypes
<1> QED
  BY <1>1 DEF Deletable, IsInjective, ToSet

\* Where the things of an exchange come from.
LEMMA SwappedPlaces ==
  ASSUME TradeInv, NEW p \in Accounts, NEW q \in Accounts, Swapped(p, q), Swapped(q, p),
         Deletable(p, Len(offer[p])), Deletable(q, Len(offer[q])),
         NEW r \in Accounts, NEW n \in Numbers, NEW t, At(r, n, t)'
  PROVE  \/ /\ At(r, n, t)
            /\ r \in {p, q} => \A i \in 1 .. Len(offer[r]) : offer[r][i].number # n
         \/ \E o \in {p, q} : \E i \in 1 .. Len(offer[o]) :
              /\ r \in {p, q} \ {o} /\ n = latest[r] + i
              /\ offer[o][i].thing = t /\ At(o, offer[o][i].number, t)
<1>1. \A o \in {p, q} : \A i \in 1 .. Len(offer[o]) :
        offer[o][i].thing = t => At(o, offer[o][i].number, t)
  BY DEF Deletable, HoldsUnworn, At
<1>2. CASE r \notin {p, q}
  BY <1>2 DEF At, Swapped
<1>3. CASE r = p
  BY <1>1, <1>3, SwappedTo DEF Swapped
<1>4. CASE r = q
  BY <1>1, <1>4, SwappedTo DEF Swapped
<1> QED
  BY <1>2, <1>3, <1>4

\* What an exchange spawns has been deleted on the other side, once.
LEMMA ExchangeKeepsPlaces ==
  ASSUME TradeInv, OnePlace, NEW p \in Accounts, NEW q \in Accounts, Swapped(p, q), Swapped(q, p),
         Deletable(p, Len(offer[p])), Deletable(q, Len(offer[q]))
  PROVE  OnePlace'
<1> SUFFICES ASSUME NEW t \in Things, NEW r \in Accounts, NEW s \in Accounts,
                    NEW m \in Numbers, NEW n \in Numbers, At(r, m, t)', At(s, n, t)'
             PROVE  r = s /\ m = n
  BY DEF OnePlace
<1> DEFINE Stayed(x, k) == /\ At(x, k, t)
                           /\ x \in {p, q} => \A i \in 1 .. Len(offer[x]) : offer[x][i].number # k
           Came(x, k, o, i) == /\ x \in {p, q} \ {o} /\ k = latest[x] + i
                               /\ offer[o][i].thing = t /\ At(o, offer[o][i].number, t)
<1>1. Stayed(r, m) \/ \E o \in {p, q} : \E i \in 1 .. Len(offer[o]) : Came(r, m, o, i)
  BY SwappedPlaces
<1>2. Stayed(s, n) \/ \E o \in {p, q} : \E i \in 1 .. Len(offer[o]) : Came(s, n, o, i)
  BY SwappedPlaces
<1>3. \A o \in {p, q} : \A i \in 1 .. Len(offer[o]) : offer[o][i] \in Serial
  <2> TAKE o \in {p, q}
  <2> TAKE i \in 1 .. Len(offer[o])
  <2>1. offer[o] \in Seq(Serial)
    BY DEF TradeInv, SessionTypes
  <2> QED
    BY <2>1, ElementOfSeq
<1>4. ASSUME Stayed(r, m), Stayed(s, n) PROVE r = s /\ m = n
  BY <1>4 DEF OnePlace
<1>5. ASSUME NEW x \in Accounts, NEW k \in Numbers, Stayed(x, k),
             NEW o \in {p, q}, NEW i \in 1 .. Len(offer[o]), At(o, offer[o][i].number, t)
      PROVE  FALSE
  <2>1. offer[o][i].number \in Numbers /\ o \in Accounts
    BY <1>3 DEF Serial
  <2>2. x = o /\ k = offer[o][i].number
    BY <1>5, <2>1 DEF OnePlace
  <2> QED
    BY <1>5, <2>2
<1>6. ASSUME NEW o \in {p, q}, NEW i \in 1 .. Len(offer[o]), Came(r, m, o, i),
             NEW u \in {p, q}, NEW j \in 1 .. Len(offer[u]), Came(s, n, u, j)
      PROVE  r = s /\ m = n
  <2>1. /\ offer[o][i] \in Serial /\ offer[u][j] \in Serial
        /\ offer[o][i].number \in Numbers /\ offer[u][j].number \in Numbers
        /\ o \in Accounts /\ u \in Accounts
    BY <1>3 DEF Serial
  <2>2. o = u /\ offer[o][i].number = offer[u][j].number
    <3>1. At(o, offer[o][i].number, t) /\ At(u, offer[u][j].number, t)
      BY <1>6
    <3> HIDE DEF Stayed, Came
    <3> QED
      BY <2>1, <3>1 DEF OnePlace
  <2>3. offer[o][i] = offer[o][j]
    BY <1>6, <2>1, <2>2 DEF Serial
  <2>4. i = j
    BY <2>2, <2>3 DEF Deletable
  <2> QED
    BY <1>6, <2>2, <2>4
<1> QED
  BY <1>1, <1>2, <1>4, <1>5, <1>6

LEMMA UniqueStep == TradeInv /\ TradeInv' /\ UniqueInv /\ [Next]_vars => UniqueInv'
<1> SUFFICES ASSUME TradeInv, TradeInv', UniqueInv, [Next]_vars, careless' = 0
             PROVE  OnePlace' /\ \A r \in Accounts : Deletable(r, Len(offer[r]))'
  BY DEF UniqueInv
<1>1. SessionTypes /\ SessionTypes'
  BY DEF TradeInv
<1>2. \A r \in Accounts : offer'[r] = << >> => Deletable(r, Len(offer[r]))'
  BY DEF Deletable
\* The items stay, and an offer that changes is forgotten
<1>3. ASSUME UNCHANGED <<items, worn, careless>>,
             \A r \in Accounts : offer'[r] \in {offer[r], << >>}
      PROVE  OnePlace' /\ \A r \in Accounts : Deletable(r, Len(offer[r]))'
  <2>1. careless = 0 /\ OnePlace /\ \A r \in Accounts : Deletable(r, Len(offer[r]))
    BY <1>3 DEF UniqueInv
  <2>2. OnePlace'
    BY <1>3, <2>1 DEF OnePlace, At
  <2>3. \A r \in Accounts : offer'[r] = offer[r] => Deletable(r, Len(offer[r]))'
    BY <1>3, <2>1 DEF Deletable, HoldsUnworn
  <2> QED
    BY <1>2, <1>3, <2>2, <2>3
\* Something is taken on or off, but nothing that is offered taken on
<1>4. ASSUME UNCHANGED <<offer>>, careless = 0, SameHoldings,
             \A r \in Accounts : \A s \in ToSet(offer[r]) : HoldsUnworn(r, s) =>
               s.number \in DOMAIN items'[r] /\ items'[r][s.number] = items[r][s.number]
      PROVE  OnePlace' /\ \A r \in Accounts : Deletable(r, Len(offer[r]))'
  <2>1. OnePlace /\ \A r \in Accounts : Deletable(r, Len(offer[r]))
    BY <1>4 DEF UniqueInv
  <2>2. OnePlace'
    BY <1>4, <2>1 DEF OnePlace, SameHoldings
  <2>3. ASSUME NEW r \in Accounts PROVE Deletable(r, Len(offer[r]))'
    <3>1. IsInjective(offer[r]) /\ \A s \in ToSet(offer[r]) : HoldsUnworn(r, s)
      BY <1>1, <2>1, DeletableOffer
    <3>2. offer'[r] = offer[r] /\ DOMAIN offer[r] = 1 .. Len(offer[r])
      BY <1>1, <1>4 DEF SessionTypes
    <3>3. \A s \in ToSet(offer[r]) : HoldsUnworn(r, s)'
      BY <1>4, <3>1 DEF HoldsUnworn
    <3> QED
      BY <3>1, <3>2, <3>3 DEF Deletable, IsInjective, ToSet
  <2> QED
    BY <2>2, <2>3
<1>5. ASSUME NEW p \in Accounts,
             \/ Connect(p) \/ Disconnect(p) \/ LeaveRoom(p)
             \/ \E s \in {"lobby", "away"} : PlayerState(p, s)
             \/ \E n \in Numbers, off \in SUBSET DOMAIN worn[p] : EquipItem(p, n, off)
             \/ \E n \in Numbers : UnequipItem(p, n)
      PROVE  OnePlace' /\ \A r \in Accounts : Deletable(r, Len(offer[r]))'
  <2>1. CASE Connect(p) \/ LeaveRoom(p) \/ \E s \in {"lobby", "away"} : PlayerState(p, s)
    BY <1>3, <2>1 DEF Connect, LeaveRoom, PlayerState, inventory
  <2>2. CASE Disconnect(p)
    <3>1. \A r \in Accounts : offer'[r] \in {offer[r], << >>}
      BY <1>1, <2>2 DEF Disconnect, SessionTypes
    <3> QED
      BY <1>3, <2>2, <3>1 DEF Disconnect
  <2>3. ASSUME NEW n \in Numbers, NEW off \in SUBSET DOMAIN worn[p], EquipItem(p, n, off)
        PROVE  OnePlace' /\ \A r \in Accounts : Deletable(r, Len(offer[r]))'
    <3>1. careless = 0 /\ ~\E s \in ToSet(offer[p]) : s.number = n
      BY <1>1, <2>3 DEF EquipItem, Careless, SessionTypes
    <3>2. /\ SameHoldings /\ UNCHANGED offer
          /\ \A r \in Accounts : \A m : m \in DOMAIN items[r] /\ ~(r = p /\ m = n)
               => m \in DOMAIN items'[r] /\ items'[r][m] = items[r][m]
      <4>1. UNCHANGED offer
        BY <2>3 DEF EquipItem
      <4> QED
        BY <2>3, <4>1, EquipKeepsHoldings
    <3>3. \A r \in Accounts : \A s \in ToSet(offer[r]) : HoldsUnworn(r, s) =>
            s.number \in DOMAIN items'[r] /\ items'[r][s.number] = items[r][s.number]
      BY <3>1, <3>2 DEF HoldsUnworn
    <3> QED
      BY <1>4, <3>1, <3>2, <3>3
  <2>4. ASSUME NEW n \in Numbers, UnequipItem(p, n)
        PROVE  OnePlace' /\ \A r \in Accounts : Deletable(r, Len(offer[r]))'
    <3>1. /\ SameHoldings /\ UNCHANGED <<offer, careless>>
          /\ \A r \in Accounts : \A m : m \in DOMAIN items[r]
               => m \in DOMAIN items'[r] /\ items'[r][m] = items[r][m]
      BY <2>4, UnequipKeepsHoldings DEF UnequipItem
    <3> QED
      BY <1>4, <3>1 DEF HoldsUnworn
  <2> QED
    BY <1>5, <2>1, <2>2, <2>3, <2>4
<1>6. ASSUME NEW p \in Accounts, NEW q \in Accounts,
             TradeAck(p, q) \/ TradeAccept(p, q) \/ TradeDecline(p, q)
      PROVE  OnePlace' /\ \A r \in Accounts : Deletable(r, Len(offer[r]))'
  BY <1>3, <1>6 DEF TradeAck, TradeAccept, TradeDecline, inventory
<1>7. ASSUME NEW p \in Accounts,
             \/ \E s \in Serial : TradeAddItem(p, s) \/ TradeItemRemoval(p, s)
             \/ TradeLock(p) \/ TradeFinalization(p) \/ TradeCancellation(p)
      PROVE  OnePlace' /\ \A r \in Accounts : Deletable(r, Len(offer[r]))'
  <2>1. ASSUME NEW S, ResetTradeInfo(S), UNCHANGED <<items, worn, careless>>
        PROVE  OnePlace' /\ \A r \in Accounts : Deletable(r, Len(offer[r]))'
    <3>1. \A r \in Accounts : offer'[r] \in {offer[r], << >>}
      BY <1>1, <2>1, ResetEffect
    <3> QED
      BY <1>3, <2>1, <3>1
  <2>2. CASE PartnerGone(p)
    BY <2>1, <2>2 DEF PartnerGone, inventory
  \* An offer of p that changes, while the items stay
  <2>3. ASSUME NEW s \in Seq(Serial), offer' = [offer EXCEPT ![p] = s],
               UNCHANGED <<items, worn>>, careless = 0,
               IsInjective(s), \A e \in ToSet(s) : HoldsUnworn(p, e)
        PROVE  OnePlace' /\ \A r \in Accounts : Deletable(r, Len(offer[r]))'
    <3>1. OnePlace /\ \A r \in Accounts : Deletable(r, Len(offer[r]))
      BY <2>3 DEF UniqueInv
    <3>2. OnePlace'
      BY <2>3, <3>1 DEF OnePlace, At
    <3>3. offer'[p] = s /\ DOMAIN s = 1 .. Len(s)
      BY <1>1, <2>3 DEF SessionTypes
    <3>4. Deletable(p, Len(offer[p]))'
      BY <2>3, <3>3 DEF Deletable, HoldsUnworn, IsInjective, ToSet
    <3>5. ASSUME NEW r \in Accounts \ {p} PROVE Deletable(r, Len(offer[r]))'
      <4>1. offer'[r] = offer[r] /\ Deletable(r, Len(offer[r]))
        BY <1>1, <2>3, <3>1 DEF SessionTypes
      <4> QED
        BY <2>3, <4>1 DEF Deletable, HoldsUnworn
    <3> QED
      BY <3>2, <3>4, <3>5
  <2>4. ASSUME NEW s \in Serial, TradeAddItem(p, s), ~PartnerGone(p)
        PROVE  OnePlace' /\ \A r \in Accounts : Deletable(r, Len(offer[r]))'
    <3>1. /\ offer' = [offer EXCEPT ![p] = Append(offer[p], s)] /\ UNCHANGED <<items, worn>>
          /\ Careless(~HoldsUnworn(p, s) \/ s \in ToSet(offer[p]))
      BY <2>4 DEF TradeAddItem, inventory
    <3>2. careless = 0 /\ HoldsUnworn(p, s) /\ s \notin ToSet(offer[p])
      BY <1>1, <3>1 DEF Careless, SessionTypes
    <3>3. offer[p] \in Seq(Serial) /\ Deletable(p, Len(offer[p]))
      BY <1>1, <3>2 DEF SessionTypes, UniqueInv
    <3>4. IsInjective(offer[p]) /\ \A e \in ToSet(offer[p]) : HoldsUnworn(p, e)
      BY <1>1, <3>3, DeletableOffer
    <3>5. /\ Append(offer[p], s) \in Seq(Serial) /\ IsInjective(Append(offer[p], s))
          /\ ToSet(Append(offer[p], s)) = ToSet(offer[p]) \cup {s}
      BY <3>2, <3>3, <3>4, SeatsAfterAppend
    <3> QED
      BY <2>3, <3>1, <3>2, <3>4, <3>5
  <2>5. ASSUME NEW s \in Serial, TradeItemRemoval(p, s), ~PartnerGone(p)
        PROVE  OnePlace' /\ \A r \in Accounts : Deletable(r, Len(offer[r]))'
    <3>1. /\ offer' = [offer EXCEPT ![p] = RemoveFirst(offer[p], s)]
          /\ UNCHANGED <<items, worn>> /\ careless = 0
      BY <2>5 DEF TradeItemRemoval, inventory
    <3>2. offer[p] \in Seq(Serial) /\ Deletable(p, Len(offer[p]))
      BY <1>1, <3>1 DEF SessionTypes, UniqueInv
    <3>3. IsInjective(offer[p]) /\ \A e \in ToSet(offer[p]) : HoldsUnworn(p, e)
      BY <1>1, <3>2, DeletableOffer
    <3>4. /\ RemoveFirst(offer[p], s) \in Seq(Serial) /\ IsInjective(RemoveFirst(offer[p], s))
          /\ ToSet(RemoveFirst(offer[p], s)) \subseteq ToSet(offer[p])
      BY <3>2, <3>3, OfferAfterRemoval
    <3> QED
      BY <2>3, <3>1, <3>3, <3>4
  <2>6. CASE UNCHANGED <<items, worn, careless, offer>>
    BY <1>3, <2>6
  <2>7. CASE Trading(p) /\ PartnerFound(p) /\ Exchange(p, partner[p])
    <3> DEFINE q == partner[p]
    <3>1. p \in online /\ q \in online /\ q \in Accounts /\ p # q
      BY <1>1, <2>7 DEF TradeInv, SessionTypes, Partners, Trading, PartnerFound
    <3>2. Exchange(p, q) /\ ResetTradeInfo({p, q}) /\ UNCHANGED <<worn, careless>>
      BY <2>7 DEF Exchange
    <3> HIDE DEF q
    <3>3. Swapped(p, q) /\ Swapped(q, p)
      BY <3>1, <3>2, ExchangeSwaps
    <3>4. OnePlace /\ \A r \in Accounts : Deletable(r, Len(offer[r]))
      BY <3>2 DEF UniqueInv
    <3>5. OnePlace'
      BY <3>1, <3>3, <3>4, ExchangeKeepsPlaces
    <3>6. \A r \in {p, q} : Deletable(r, Len(offer[r]))'
      BY <1>1, <1>2, <3>1, <3>2, ResetEffect
    <3>7. ASSUME NEW r \in Accounts \ {p, q} PROVE Deletable(r, Len(offer[r]))'
      <4>1. /\ offer'[r] = offer[r] /\ items'[r] = items[r]
            /\ Deletable(r, Len(offer[r]))
        BY <1>1, <3>2, <3>3, <3>4, ResetEffect DEF Swapped
      <4> QED
        BY <4>1 DEF Deletable, HoldsUnworn
    <3> QED
      BY <3>5, <3>6, <3>7
  <2>8. CASE \E s \in Serial : TradeAddItem(p, s) \/ TradeItemRemoval(p, s)
    BY <2>2, <2>4, <2>5, <2>8
  <2>9. CASE TradeLock(p) \/ TradeCancellation(p)
    BY <2>1, <2>2, <2>9 DEF TradeLock, TradeCancellation, inventory
  <2>10. CASE TradeFinalization(p)
    BY <2>2, <2>6, <2>7, <2>10 DEF TradeFinalization, inventory
  <2> QED
    BY <1>7, <2>8, <2>9, <2>10
<1>8. CASE UNCHANGED vars
  BY <1>3, <1>8 DEF vars, inventory
<1> QED
  BY <1>5, <1>6, <1>7, <1>8 DEF Next

----------------------------------------------------------------------------
(* Theorems *)

LEMMA AgreeInit == Init => AgreeInv
BY DEF Init, AgreeInv

LEMMA UniqueInit == Init => UniqueInv
<1> SUFFICES ASSUME Init PROVE OnePlace /\ \A p \in Accounts : Deletable(p, Len(offer[p]))
  BY DEF UniqueInv
<1>1. ASSUME NEW p \in Accounts PROVE Deletable(p, Len(offer[p]))
  <2>1. offer[p] = << >>
    BY DEF Init
  <2> QED
    BY <2>1 DEF Deletable
<1>2. ASSUME NEW t \in Things, NEW p \in Accounts, NEW q \in Accounts,
             NEW m \in Numbers, NEW n \in Numbers, At(p, m, t), At(q, n, t)
      PROVE  p = q /\ m = n
  <2> DEFINE owners == {r \in Accounts : t \in Range(items[r])}
  <2>1. /\ m \in DOMAIN items[p] /\ items[p][m] = t
        /\ n \in DOMAIN items[q] /\ items[q][n] = t
    BY <1>2 DEF Init, At
  <2>2. p \in owners /\ q \in owners
    BY <2>1 DEF Range
  <2>3. Cardinality(owners) = 1
    BY DEF Init
  <2>4. IsFiniteSet(owners)
    BY ConstantsAssumption, FS_Subset
  <2> HIDE DEF owners
  <2>5. p = q
    BY <2>2, <2>3, <2>4, FS_Singleton
  <2>6. IsInjective(items[p])
    BY DEF Init
  <2> QED
    BY <2>1, <2>5, <2>6 DEF IsInjective
<1> QED
  BY <1>1, <1>2 DEF OnePlace

\* All three hold, together.
THEOREM IInvHolds == Spec => [](TradeInv /\ AgreeInv /\ UniqueInv)
<1>1. TradeInv /\ [Next]_vars => TradeInv'
  BY TradeInvStep
<1>2. TradeInv /\ AgreeInv /\ [Next]_vars => AgreeInv'
  BY AgreeStep
<1>3. TradeInv /\ TradeInv' /\ UniqueInv /\ [Next]_vars => UniqueInv'
  BY UniqueStep
<1> QED
  BY <1>1, <1>2, <1>3, TradeInvInit, AgreeInit, UniqueInit, PTL DEF Spec

\* The variables keep their types, and offers their limit.
THEOREM TypeCorrect == Spec => []TypeOK
<1>1. TradeInv => TypeOK
  <2> SUFFICES ASSUME TradeInv PROVE TypeOK
    OBVIOUS
  <2>1. \A p \in Accounts : ToSet(offer[p]) \subseteq Serial
    <3> TAKE p \in Accounts
    <3>1. offer[p] \in Seq(Serial)
      BY DEF TradeInv, SessionTypes
    <3> QED
      BY <3>1, ElementOfSeq DEF ToSet
  <2>2. \A p \in Accounts : items[p] \in Inventory /\ worn[p] \in Inventory
    BY DEF TradeInv, ItemTypes
  <2> QED
    BY <2>1, <2>2 DEF TypeOK, TradeInv, SessionTypes, ItemTypes
<1> QED
  BY <1>1, IInvHolds, PTL

\* Whatever the players do, whoever loses the connection, nothing disappears.
THEOREM TradesLoseNothing == Spec => []NothingLost
<1>1. TradeInv => NothingLost
  BY DEF TradeInv, SomebodyHas, NothingLost, At, Held, Range
<1> QED
  BY <1>1, IInvHolds, PTL

\* Careful players' things have one place each.
THEOREM TradesDuplicateNothing == Spec => []NothingDuplicated
<1>1. TradeInv /\ UniqueInv => NothingDuplicated
  <2> SUFFICES ASSUME TradeInv, UniqueInv, careless = 0, NEW t \in Things
               PROVE  Cardinality({h \in Accounts \X Numbers :
                        Owns(h[1], [number |-> h[2], thing |-> t])}) = 1
    BY DEF NothingDuplicated
  <2> DEFINE places == {h \in Accounts \X Numbers : Owns(h[1], [number |-> h[2], thing |-> t])}
  <2>1. \A p \in Accounts, n \in Numbers : <<p, n>> \in places <=> At(p, n, t)
    BY DEF Owns, HoldsUnworn, At
  <2>2. PICK p \in Accounts, n \in Numbers : At(p, n, t)
    BY DEF TradeInv, SomebodyHas
  <2>3. \A q \in Accounts, m \in Numbers : At(q, m, t) => q = p /\ m = n
    BY <2>2 DEF UniqueInv, OnePlace
  <2>4. places \subseteq Accounts \X Numbers
    OBVIOUS
  <2> HIDE DEF places
  <2>5. places = {<<p, n>>}
    BY <2>1, <2>2, <2>3, <2>4
  <2>6. Cardinality(places) = 1
    BY <2>5, FS_Singleton
  <2> QED
    BY <2>6 DEF places
<1> QED
  BY <1>1, IInvHolds, PTL

\* Careful players' offers can be deleted to the last item.
THEOREM OffersCanBeGiven == Spec => []OffersAreHeld
<1>1. UniqueInv => OffersAreHeld
  BY DEF UniqueInv, OffersAreHeld
<1> QED
  BY <1>1, IInvHolds, PTL

\* Both sides of a trade that nothing interferes with agree on it.
THEOREM TradersAgree == Spec => []PartnersAgree
<1>1. TradeInv /\ AgreeInv => PartnersAgree
  BY ConstantsAssumption DEF TradeInv, SessionTypes, AgreeInv, PartnersAgree, Trading
<1> QED
  BY <1>1, IInvHolds, PTL

LEMMA HoldingsStay ==
  ASSUME NEW p \in Accounts, SameHoldings
  PROVE  Held(p)' = Held(p)
<1>1. \A t : t \in Held(p) <=> \E n : At(p, n, t)
  BY DEF Held, Range, At
<1>2. \A t : t \in Held(p)' <=> \E n : At(p, n, t)'
  BY DEF Held, Range, At
<1> QED
  BY <1>1, <1>2 DEF SameHoldings

\* Only the end of a trade that both have confirmed moves things between players.
THEOREM TradesAreConfirmed == Spec => ConfirmedUnlessDisturbed
<1>1. TradeInv /\ AgreeInv /\ [Next]_vars =>
        (disturbances = 0 => \A p \in Accounts : HoldingsChange(p) =>
           \E q \in Accounts : Concludes(p, q) \/ Concludes(q, p))
  <2> SUFFICES ASSUME TradeInv, AgreeInv, [Next]_vars, disturbances = 0,
                      NEW r \in Accounts, HoldingsChange(r)
               PROVE  \E q \in Accounts : Concludes(r, q) \/ Concludes(q, r)
    OBVIOUS
  <2>1. ~UNCHANGED <<items[r], worn[r]>>
    BY DEF HoldingsChange, Held
  <2>2. PICK p \in Accounts :
          \/ \E n \in Numbers, off \in SUBSET DOMAIN worn[p] : EquipItem(p, n, off)
          \/ \E n \in Numbers : UnequipItem(p, n)
          \/ TradeFinalization(p) /\ PartnerFound(p) /\ locked[partner[p]] # None
             /\ Exchange(p, partner[p])
    BY <2>1 DEF Next, vars, inventory, Connect, Disconnect, LeaveRoom, PlayerState, TradeAck,
                TradeAccept, TradeDecline, TradeAddItem, TradeItemRemoval, TradeLock,
                TradeCancellation, TradeFinalization, PartnerGone
  <2>3. ~SameHoldings
    BY HoldingsStay DEF HoldingsChange
  <2>4. TradeFinalization(p) /\ PartnerFound(p) /\ locked[partner[p]] # None
        /\ Exchange(p, partner[p])
    BY <2>2, <2>3, EquipKeepsHoldings, UnequipKeepsHoldings
  <2> DEFINE q == partner[p]
  <2>5. Trading(p) /\ q \in Accounts /\ locked[q] # None
    BY <2>4 DEF TradeFinalization, PartnerFound, TradeInv, SessionTypes
  <2>6. Concludes(p, q)
    BY <2>5 DEF AgreeInv, Concludes, Trading
  <2>7. r \in {p, q}
    BY <2>1, <2>4, <2>5 DEF Exchange, TradeInv, ItemTypes
  <2> QED
    BY <2>5, <2>6, <2>7
<1> QED
  BY <1>1, IInvHolds, PTL DEF Spec, ConfirmedUnlessDisturbed

\* What the players have is conserved, for any number of players and things.
THEOREM TradesConserveThings == Spec => []ThingsConserved
<1>1. ThingsConserved <=> NothingLost /\ NothingDuplicated /\ OffersAreHeld
  BY DEF ThingsConserved
<1> QED
  BY <1>1, TradesLoseNothing, TradesDuplicateNothing, OffersCanBeGiven, PTL

=============================================================================
