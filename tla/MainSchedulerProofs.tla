------------------------ MODULE MainSchedulerProofs ------------------------
(***************************************************************************)
(* The write-behind queue, for any number of accounts and transactions:    *)
(* what is queued is stored, in order, before its price, and what a player *)
(* has paid is what the next flush charges.                                *)
(*                                                                         *)
(* The heart of the inductive invariant is that an entry whose key lies    *)
(* beyond the counter, which the next calls may overwrite, holds only      *)
(* items that are recorded as exposed (KeysInUse).  While the mutex is     *)
(* held, this is already so for the accounts that are not being written    *)
(* (FlushedOrExposed), because the counter restarts at the end.            *)
(***************************************************************************)
EXTENDS MainScheduler, Integers, SequencesExt, Vectors, SequenceTheorems, FiniteSetTheorems,
        WellFoundedInduction, TLAPS

----------------------------------------------------------------------------
(* Numbers and counting *)

\* A non-empty set of natural numbers has a least element.
LEMMA LeastNumber ==
  ASSUME NEW S \in SUBSET Nat, S # {}
  PROVE  \E k \in S : \A j \in S : k <= j
<1> DEFINE R == {ss \in Nat \X Nat : ss[1] < ss[2]}
<1>1. OpToRel(<, Nat) = R
  BY DEF OpToRel
<1>2. PICK k \in S : \A j \in S : ~ (<<j, k>> \in R)
  BY ZenonT(30), <1>1, NatLessThanWellFounded, WFMin
<1>3. \A j \in S : k <= j
  <2> TAKE j \in S
  <2>1. j \in Nat /\ k \in Nat
    OBVIOUS
  <2>2. <<j, k>> \notin R
    BY <1>2
  <2> QED
    BY <2>1, <2>2
<1> QED
  BY <1>3

\* A bounded one has a greatest element.
LEMMA GreatestNumber ==
  ASSUME NEW S \in SUBSET Nat, S # {}, NEW n \in Nat, \A j \in S : j <= n
  PROVE  \E k \in S : \A j \in S : j <= k
<1> DEFINE bounds == {m \in Nat : \A j \in S : j <= m}
<1>1. PICK k \in bounds : \A m \in bounds : k <= m
  <2>1. bounds \in SUBSET Nat /\ bounds # {}
    OBVIOUS
  <2> QED
    BY <2>1, LeastNumber
<1>2. CASE k \in S
  BY <1>1, <1>2
<1>3. CASE k \notin S
  <2>1. k \in Nat /\ \A j \in S : j \in Nat /\ j < k
    BY <1>1, <1>3
  <2>2. PICK j \in S : TRUE
    OBVIOUS
  <2>3. k - 1 \in bounds
    BY <2>1, <2>2
  <2> QED
    BY <1>1, <2>3
<1> QED
  BY <1>2, <1>3

Entries(a) == DOMAIN incremental[a]

\* The item of purchase t waits in the queue of account a.
Queued(a, t) == \E k \in Entries(a) : t \in incremental[a][k].items

Shapes ==
  /\ DOMAIN incremental = Accounts
  /\ keyed \in [Accounts -> (SUBSET Transactions) \cup {None}]
  /\ balance \in [Accounts -> SUBSET Transactions]
  /\ charged \in [Accounts -> SUBSET Transactions]

\* Transactions of account a that have been made
MadeBy(a) == {t \in Transactions : t.by = a /\ t.number <= made}

\* Queues and balances of an account are about its own transactions, made so far.
Owned ==
  /\ \A a \in Accounts :
       /\ \A k \in Entries(a) :
            /\ incremental[a][k].items \subseteq MadeBy(a)
            /\ incremental[a][k].balance \in (SUBSET MadeBy(a)) \cup {None}
       /\ keyed[a] \in (SUBSET MadeBy(a)) \cup {None}
       /\ balance[a] \subseteq MadeBy(a)
       /\ charged[a] \subseteq MadeBy(a)
  /\ \A t \in items : t.number <= made
  /\ busy \in online => made > 0

KeysInUse ==
  \A a \in Accounts : \A k \in Entries(a) :
    k > lastKey => incremental[a][k].items \subseteq exposed

FlushedOrExposed ==
  flushing # {} => \A a \in Accounts \ flushing : \A k \in Entries(a) :
    incremental[a][k].items \subseteq exposed

\* LostItemsWereExposed and StoredInOrder, in the terms of single entries
Kept == \A t \in issued : t \in items \cup exposed \/ Queued(t.by, t)
InOrder ==
  \A p, q \in issued :
    p.by = q.by /\ p.number < q.number /\ q \in items /\ Queued(p.by, p) => p \in exposed

\* The issued purchases of a queued total are stored, exposed or queued before it.
TotalsFollowItems ==
  \A a \in Accounts : \A k \in Entries(a) :
    incremental[a][k].balance # None =>
      \A t \in incremental[a][k].balance \cap issued :
        t \in items \cup exposed
          \/ \E j \in Entries(a) : j < k /\ t \in incremental[a][j].items

\* Items of an account are queued under keys in the order of the purchases.
QueuedInOrder ==
  \A a \in Accounts : \A j, k \in Entries(a) :
    \A p \in incremental[a][j].items \ exposed, q \in incremental[a][k].items :
      p.number < q.number => j < k

IInv ==
  /\ TypeOK /\ Shapes /\ Owned
  /\ KeysInUse /\ FlushedOrExposed /\ Kept
  /\ TotalsFollowItems /\ ChargeFollowsItem
  /\ QueuedInOrder /\ InOrder

----------------------------------------------------------------------------
(* Lemmas about keys and entries *)

\* A function is the empty sequence when its domain is empty.
LEMMA EmptyFunction ==
  ASSUME NEW U, NEW f, f \in [DOMAIN f -> U]
  PROVE  f = << >> <=> DOMAIN f = {}
<1>1. ASSUME DOMAIN f = {} PROVE f = << >>
  <2>1. f \in [1 .. 0 -> U]
    BY <1>1
  <2>2. f \in Seq(U) /\ Len(f) = 0
    BY <2>1, SeqDef
  <2> QED
    BY <2>2, EmptySeq
<1> QED
  BY <1>1

\* What addRepetitiveCallback does to the entries.
LEMMA AddedEntry ==
  ASSUME TypeOK, Shapes, NEW a \in Accounts, NEW update \in Update,
         AddRepetitiveCallback(a, update)
  PROVE  /\ lastKey \in Nat /\ lastKey' = lastKey + 1
         /\ DOMAIN incremental' = Accounts
         /\ \A b \in Accounts \ {a} : incremental'[b] = incremental[b]
         /\ Entries(a)' = Entries(a) \cup {lastKey + 1}
         /\ incremental'[a][lastKey + 1] = update
         /\ \A k \in Entries(a) \ {lastKey + 1} : incremental'[a][k] = incremental[a][k]
         /\ \A b \in Accounts : /\ Entries(b)' \subseteq Nat
                                /\ incremental'[b] \in [Entries(b)' -> Update]
<1> DEFINE added == [k \in Entries(a) \cup {lastKey + 1} |->
                       IF k = lastKey + 1 THEN update ELSE incremental[a][k]]
<1>1. lastKey \in Nat /\ lastKey' = lastKey + 1
  BY DEF TypeOK, AddRepetitiveCallback
<1>2. incremental' = [incremental EXCEPT ![a] = added]
  BY DEF AddRepetitiveCallback, Entries
<1>3. /\ DOMAIN incremental' = Accounts /\ incremental'[a] = added
      /\ \A b \in Accounts \ {a} : incremental'[b] = incremental[b]
  BY <1>2 DEF Shapes
<1>4. \A b \in Accounts : Entries(b) \subseteq Nat /\ incremental[b] \in [Entries(b) -> Update]
  BY DEF TypeOK, Entries
<1>5. added \in [Entries(a) \cup {lastKey + 1} -> Update]
  BY <1>4
<1> HIDE DEF added
<1>6. \A b \in Accounts : /\ Entries(b)' \subseteq Nat
                          /\ incremental'[b] \in [Entries(b)' -> Update]
  <2> TAKE b \in Accounts
  <2>1. CASE b = a
    BY <1>1, <1>3, <1>4, <1>5, <2>1 DEF Entries
  <2>2. CASE b # a
    BY <1>3, <1>4, <2>2 DEF Entries
  <2> QED
    BY <2>1, <2>2
<1> QED
  BY <1>1, <1>3, <1>6 DEF Entries, added

\* What writing the first entry of an account takes out of the queues.
LEMMA WrittenEntry ==
  ASSUME TypeOK, Shapes, NEW a \in Accounts, WriteIncremental(a)
  PROVE  LET k == FirstKey(incremental[a]) IN
         /\ k \in Entries(a) /\ \A j \in Entries(a) : k <= j
         /\ DOMAIN incremental' = Accounts
         /\ \A b \in Accounts \ {a} : incremental'[b] = incremental[b]
         /\ Entries(a)' = Entries(a) \ {k}
         /\ \A j \in Entries(a) \ {k} : incremental'[a][j] = incremental[a][j]
         /\ \A b \in Accounts : /\ Entries(b)' \subseteq Nat
                                /\ incremental'[b] \in [Entries(b)' -> Update]
<1> DEFINE k == FirstKey(incremental[a])
           left == Restrict(incremental[a], Entries(a) \ {k})
<1>1. \A b \in Accounts : Entries(b) \subseteq Nat /\ incremental[b] \in [Entries(b) -> Update]
  BY DEF TypeOK, Entries
<1>2. Entries(a) # {}
  BY <1>1, EmptyFunction DEF WriteIncremental, Entries
<1>3. \E i \in Entries(a) : \A j \in Entries(a) : i <= j
  BY <1>1, <1>2, LeastNumber
<1>4. k \in Entries(a) /\ \A j \in Entries(a) : k <= j
  BY <1>3 DEF FirstKey, Entries
<1>5. incremental' = [incremental EXCEPT ![a] = left]
  BY DEF WriteIncremental, Entries
<1>6. left = [j \in Entries(a) \ {k} |-> incremental[a][j]]
  BY DEF Restrict
<1> HIDE DEF k, left
<1>7. /\ DOMAIN incremental' = Accounts /\ incremental'[a] = left
      /\ \A b \in Accounts \ {a} : incremental'[b] = incremental[b]
  BY <1>5 DEF Shapes
<1>8. left \in [Entries(a) \ {k} -> Update]
  BY <1>1, <1>6
<1>9. \A b \in Accounts : /\ Entries(b)' \subseteq Nat
                          /\ incremental'[b] \in [Entries(b)' -> Update]
  <2> TAKE b \in Accounts
  <2>1. CASE b = a
    BY <1>1, <1>7, <1>8, <2>1 DEF Entries
  <2>2. CASE b # a
    BY <1>1, <1>7, <2>2 DEF Entries
  <2> QED
    BY <2>1, <2>2
<1>10. /\ Entries(a)' = Entries(a) \ {k}
       /\ \A j \in Entries(a) \ {k} : incremental'[a][j] = incremental[a][j]
  BY <1>6, <1>7 DEF Entries
<1> QED
  BY <1>4, <1>7, <1>9, <1>10 DEF k

----------------------------------------------------------------------------
(* The invariant holds initially, and every action preserves it *)

LEMMA InitSatisfiesIInv == Init => IInv
<1> SUFFICES ASSUME Init PROVE IInv
  OBVIOUS
<1> USE ConstantsAssumption DEF Init
<1>1. \A a \in Accounts : Entries(a) = {} /\ incremental[a] \in [Entries(a) -> Update]
  <2>1. \A a \in Accounts : incremental[a] = << >>
    OBVIOUS
  <2>2. DOMAIN << >> = {} /\ << >> \in [DOMAIN << >> -> Update]
    OBVIOUS
  <2> QED
    BY <2>1, <2>2 DEF Entries
<1>2. TypeOK
  <2>1. \A a \in Accounts : /\ DOMAIN incremental[a] \subseteq Nat
                            /\ incremental[a] \in [DOMAIN incremental[a] -> Update]
    BY <1>1 DEF Entries
  <2>2. \A a \in Accounts : keyed[a] = None /\ balance[a] = {} /\ charged[a] = {}
    OBVIOUS
  <2>3. made \in 0 .. MaxTransactions /\ lastKey \in Nat
    OBVIOUS
  <2> QED
    BY <2>1, <2>2, <2>3 DEF TypeOK
<1>3. Shapes /\ Owned
  BY <1>1 DEF Shapes, Owned
<1>4. KeysInUse /\ FlushedOrExposed /\ Kept /\ TotalsFollowItems /\ ChargeFollowsItem
      /\ QueuedInOrder /\ InOrder
  BY <1>1 DEF KeysInUse, FlushedOrExposed, Kept, TotalsFollowItems, ChargeFollowsItem,
              QueuedInOrder, InOrder
<1> QED
  BY <1>2, <1>3, <1>4 DEF IInv

\* The queues, the database and the records of what happened stay as they are: what is left
\* to show is about the sessions.
Untouched == UNCHANGED <<incremental, lastKey, items, made, issued, exposed>>

LEMMA UntouchedPreserves ==
  ASSUME IInv, Untouched, TypeOK', Shapes', Owned', FlushedOrExposed', ChargeFollowsItem'
  PROVE  IInv'
<1>1. \A a : Entries(a)' = Entries(a)
  BY DEF Entries, Untouched
<1>2. \A a, t : Queued(a, t)' <=> Queued(a, t)
  BY <1>1 DEF Queued, Untouched
<1>3. KeysInUse'
  BY <1>1 DEF IInv, KeysInUse, Untouched
<1>4. Kept' /\ InOrder'
  BY <1>2 DEF IInv, Kept, InOrder, Untouched
<1>5. TotalsFollowItems'
  BY <1>1 DEF IInv, TotalsFollowItems, Untouched
<1>6. QueuedInOrder'
  BY <1>1 DEF IInv, QueuedInOrder, Untouched
<1> QED
  BY <1>3, <1>4, <1>5, <1>6 DEF IInv

LEMMA LoginPreserves ==
  ASSUME IInv, NEW a \in Accounts, Login(a)
  PROVE  IInv'
<1> USE ConstantsAssumption
<1>1. Untouched
  BY DEF Login, queues, database, history, Untouched
<1>2. TypeOK' /\ Shapes'
  BY DEF IInv, Login, queues, database, history, TypeOK, Shapes
<1>3. Owned'
  BY DEF IInv, Login, queues, database, history, Idle, TypeOK, Shapes, Owned, Entries, MadeBy
<1>4. FlushedOrExposed' /\ ChargeFollowsItem'
  BY DEF IInv, Login, queues, database, history, FlushedOrExposed, ChargeFollowsItem, Entries
<1> QED
  BY <1>1, <1>2, <1>3, <1>4, UntouchedPreserves

LEMMA ChargePreserves ==
  ASSUME IInv, Charge
  PROVE  IInv'
<1> USE ConstantsAssumption
<1> DEFINE paid == balance[busy] \cup {[by |-> busy, number |-> made, kind |-> "purchase"]}
<1>1. Untouched
  BY DEF Charge, database, history, Untouched
<1>2. busy \in Accounts /\ made \in 1 .. MaxTransactions
  BY DEF IInv, Charge, TypeOK, Owned
<1>3. paid \subseteq MadeBy(busy) /\ paid \subseteq Transactions
  <2>1. [by |-> busy, number |-> made, kind |-> "purchase"] \in MadeBy(busy)
    BY <1>2 DEF Transactions, Kinds, MadeBy
  <2>2. balance[busy] \subseteq MadeBy(busy)
    BY <1>2 DEF IInv, Owned
  <2> QED
    BY <2>1, <2>2 DEF MadeBy
<1>4. /\ balance' = [balance EXCEPT ![busy] = paid]
      /\ keyed' = [keyed EXCEPT ![busy] = paid]
  BY DEF Charge, AddCallback
<1> HIDE DEF paid
<1>5. TypeOK' /\ Shapes'
  BY <1>2, <1>3, <1>4 DEF IInv, Charge, database, history, TypeOK, Shapes
<1>6. Owned'
  <2>1. \A b \in Accounts : MadeBy(b)' = MadeBy(b) /\ Entries(b)' = Entries(b)
    BY <1>1 DEF MadeBy, Entries, Untouched
  <2>2. \A b \in Accounts : keyed'[b] \in (SUBSET MadeBy(b)) \cup {None}
                            /\ balance'[b] \subseteq MadeBy(b)
    BY <1>2, <1>3, <1>4 DEF IInv, Shapes, Owned
  <2>3. None \notin online
    BY DEF IInv, TypeOK
  <2> QED
    BY <1>1, <2>1, <2>2, <2>3 DEF IInv, Charge, database, Owned, Untouched
<1>7. FlushedOrExposed' /\ ChargeFollowsItem'
  BY DEF IInv, Charge, database, history, FlushedOrExposed, ChargeFollowsItem, Entries
<1> QED
  BY <1>1, <1>5, <1>6, <1>7, UntouchedPreserves

LEMMA LogoutPreserves ==
  ASSUME IInv, NEW a \in Accounts, Logout(a)
  PROVE  IInv'
<1> USE ConstantsAssumption
<1>1. /\ UNCHANGED <<queues, items, charged, made, issued>>
      /\ exposed \subseteq exposed' /\ flushing' = {a}
      /\ \A b \in Accounts \ {a} : Pending(b) \subseteq exposed'
  BY DEF Logout, database
<1>2. \A b : Entries(b)' = Entries(b) /\ MadeBy(b)' = MadeBy(b)
  BY <1>1 DEF Entries, MadeBy, queues
<1>3. \A b, t : Queued(b, t)' <=> Queued(b, t)
  BY <1>1, <1>2 DEF Queued, queues
<1>4. TypeOK' /\ Shapes'
  <2>1. exposed' \subseteq Purchases
    <3> SUFFICES ASSUME NEW b \in Accounts, NEW k \in Entries(b)
                 PROVE  incremental[b][k].items \subseteq Purchases
      BY DEF Logout, Pending, Entries, IInv, TypeOK
    <3> QED
      BY DEF IInv, TypeOK, Entries, Update
  <2> QED
    BY <2>1 DEF IInv, Logout, queues, database, TypeOK, Shapes
<1>5. Owned'
  BY <1>1, <1>2 DEF IInv, Logout, queues, TypeOK, Shapes, Owned
<1>6. KeysInUse'
  BY <1>1, <1>2 DEF IInv, queues, KeysInUse
<1>7. FlushedOrExposed'
  BY <1>1, <1>2 DEF queues, FlushedOrExposed, Pending, Entries
<1>8. Kept' /\ InOrder'
  BY <1>1, <1>3 DEF IInv, Kept, InOrder
<1>9. TotalsFollowItems' /\ ChargeFollowsItem'
  BY <1>1, <1>2 DEF IInv, queues, TotalsFollowItems, ChargeFollowsItem
<1>10. QueuedInOrder'
  BY <1>1, <1>2 DEF IInv, queues, QueuedInOrder
<1> QED
  BY <1>4, <1>5, <1>6, <1>7, <1>8, <1>9, <1>10 DEF IInv

LEMMA DirectPreserves ==
  ASSUME IInv, BeginDirect \/ CommitDirect \/ Persist
  PROVE  IInv'
<1> USE ConstantsAssumption DEF BeginDirect, CommitDirect, Persist, queues, database, history
<1>1. Untouched
  BY DEF Untouched
<1>2. TypeOK' /\ Shapes'
  BY DEF IInv, TypeOK, Shapes
<1>3. Owned'
  BY DEF IInv, Owned, Entries, MadeBy
<1>4. FlushedOrExposed' /\ ChargeFollowsItem'
  BY DEF IInv, FlushedOrExposed, ChargeFollowsItem, Entries
<1> QED
  BY <1>1, <1>2, <1>3, <1>4, UntouchedPreserves

LEMMA StutterPreserves ==
  ASSUME IInv, UNCHANGED vars
  PROVE  IInv'
<1> USE DEF vars, queues, database, history
<1>1. Untouched
  BY DEF Untouched
<1>2. TypeOK' /\ Shapes'
  BY DEF IInv, TypeOK, Shapes
<1>3. Owned'
  BY DEF IInv, Owned, Entries, MadeBy
<1>4. FlushedOrExposed' /\ ChargeFollowsItem'
  BY DEF IInv, FlushedOrExposed, ChargeFollowsItem, Entries
<1> QED
  BY <1>1, <1>2, <1>3, <1>4, UntouchedPreserves

LEMMA BuyItemPreserves ==
  ASSUME IInv, NEW a \in Accounts, BuyItem(a)
  PROVE  IInv'
<1> USE ConstantsAssumption
<1> DEFINE purchase == [by |-> a, number |-> made + 1, kind |-> "purchase"]
           update == [items |-> {purchase}, balance |-> None]
           K == lastKey + 1
<1>1. /\ issued' = issued \cup {purchase} /\ made' = made + 1 /\ busy' = a
      /\ AddRepetitiveCallback(a, update)
      /\ UNCHANGED <<keyed, flushing, online, balance, direct, items, charged, exposed, refused>>
      /\ made < MaxTransactions /\ flushing = {}
  BY DEF BuyItem, database, MutexFree
<1>2. /\ made \in Nat /\ purchase \in Purchases /\ purchase \in MadeBy(a)'
      /\ purchase.by = a /\ purchase.number = made + 1
  BY <1>1 DEF IInv, TypeOK, Purchases, Transactions, Kinds, MadeBy
<1>3. update \in Update /\ update.items = {purchase} /\ update.balance = None
  BY <1>2 DEF Update
<1>4. IInv
  OBVIOUS
<1> HIDE DEF purchase, update
<1>5. /\ lastKey \in Nat /\ lastKey' = K
      /\ DOMAIN incremental' = Accounts
      /\ \A b \in Accounts \ {a} : incremental'[b] = incremental[b]
      /\ Entries(a)' = Entries(a) \cup {K}
      /\ incremental'[a][K] = update
      /\ \A k \in Entries(a) \ {K} : incremental'[a][k] = incremental[a][k]
      /\ \A b \in Accounts : /\ Entries(b)' \subseteq Nat
                             /\ incremental'[b] \in [Entries(b)' -> Update]
  BY <1>1, <1>3, <1>4, AddedEntry DEF IInv
<1>6. \A b \in Accounts \ {a} : Entries(b)' = Entries(b)
  BY <1>5 DEF Entries
<1>7. \A b \in Accounts : MadeBy(b) \subseteq MadeBy(b)' /\ purchase \notin MadeBy(b)
  BY <1>1, <1>2 DEF MadeBy, Transactions
\* What was queued still is, unless it is recorded as exposed.
<1>8. \A b \in Accounts : \A k \in Entries(b) : \A t \in incremental[b][k].items \ exposed :
        k \in Entries(b)' /\ t \in incremental'[b][k].items /\ (b = a => k <= lastKey)
  <2> SUFFICES ASSUME NEW b \in Accounts, NEW k \in Entries(b),
                      NEW t \in incremental[b][k].items \ exposed
               PROVE  k \in Entries(b)' /\ t \in incremental'[b][k].items /\ (b = a => k <= lastKey)
    OBVIOUS
  <2>1. k <= lastKey /\ k \in Nat
    BY <1>4, <1>5 DEF IInv, KeysInUse, TypeOK, Entries
  <2> QED
    BY <2>1, <1>5, <1>6
\* Every entry is an old one, or the new one.
<1>9. \A b \in Accounts : \A k \in Entries(b)' :
        \/ k \in Entries(b) /\ incremental'[b][k] = incremental[b][k] /\ ~(b = a /\ k = K)
        \/ b = a /\ k = K /\ incremental'[b][k] = update
  BY <1>5, <1>6
<1>10. TypeOK' /\ Shapes'
  BY <1>1, <1>2, <1>4, <1>5 DEF IInv, TypeOK, Shapes, Entries
<1>11. Owned'
  <2>1. \A b \in Accounts : \A k \in Entries(b)' :
          /\ incremental'[b][k].items \subseteq MadeBy(b)'
          /\ incremental'[b][k].balance \in (SUBSET MadeBy(b)') \cup {None}
    BY <1>2, <1>3, <1>4, <1>7, <1>9 DEF IInv, Owned
  <2>2. \A b \in Accounts : /\ keyed'[b] \in (SUBSET MadeBy(b)') \cup {None}
                            /\ balance'[b] \subseteq MadeBy(b)'
                            /\ charged'[b] \subseteq MadeBy(b)'
    BY <1>1, <1>4, <1>7 DEF IInv, Owned
  <2>3. (\A t \in items' : t.number <= made') /\ made' > 0
    BY <1>1, <1>2, <1>4 DEF IInv, Owned, TypeOK, Purchases, Transactions
  <2> QED
    BY <2>1, <2>2, <2>3 DEF Owned
<1>12. KeysInUse'
  BY <1>1, <1>4, <1>5, <1>9 DEF IInv, KeysInUse, TypeOK, Entries
<1>13. FlushedOrExposed'
  BY <1>1 DEF FlushedOrExposed
<1>14. Kept'
  <2> SUFFICES ASSUME NEW t \in issued', t \notin items \cup exposed
               PROVE  Queued(t.by, t)'
    BY <1>1 DEF Kept
  <2>1. CASE t = purchase
    BY <1>2, <1>3, <1>5, <2>1 DEF Queued
  <2>2. CASE t \in issued
    BY <1>4, <1>8, <2>2 DEF Queued, IInv, Kept, TypeOK, Purchases, Transactions
  <2> QED
    BY <1>1, <2>1, <2>2
<1>15. TotalsFollowItems'
  <2> SUFFICES ASSUME NEW b \in Accounts, NEW k \in Entries(b)',
                      incremental'[b][k].balance # None,
                      NEW t \in incremental'[b][k].balance \cap issued', t \notin items \cup exposed
               PROVE  \E j \in Entries(b)' : j < k /\ t \in incremental'[b][j].items
    BY <1>1 DEF TotalsFollowItems
  <2>1. k \in Entries(b) /\ incremental'[b][k] = incremental[b][k]
    BY <1>3, <1>9
  <2>2. t \in issued
    BY <1>1, <1>4, <1>7, <2>1 DEF IInv, Owned
  <2>3. PICK j \in Entries(b) : j < k /\ t \in incremental[b][j].items
    BY <1>4, <2>1, <2>2 DEF IInv, TotalsFollowItems
  <2> QED
    BY <1>8, <2>3
<1>16. ChargeFollowsItem'
  BY <1>1, <1>4, <1>7 DEF IInv, ChargeFollowsItem, Owned
<1>17. QueuedInOrder'
  <2> SUFFICES ASSUME NEW b \in Accounts, NEW j \in Entries(b)', NEW k \in Entries(b)',
                      NEW p \in incremental'[b][j].items \ exposed,
                      NEW q \in incremental'[b][k].items, p.number < q.number
               PROVE  j < k
    BY <1>1 DEF QueuedInOrder
  <2>1. \A i \in Entries(b) : \A t \in incremental[b][i].items : t.number <= made /\ t.number \in Nat
    BY <1>4 DEF IInv, Owned, MadeBy, Transactions
  <2>2. CASE b = a /\ j = K
    BY <1>2, <1>3, <1>9, <2>1, <2>2
  <2>3. CASE b = a /\ k = K /\ j # K
    BY <1>5, <1>8, <1>9, <2>3
  <2>4. CASE ~(b = a /\ j = K) /\ ~(b = a /\ k = K)
    BY <1>4, <1>9, <2>4 DEF IInv, QueuedInOrder
  <2> QED
    BY <2>2, <2>3, <2>4
<1>18. InOrder'
  <2> SUFFICES ASSUME NEW p \in issued', NEW q \in issued', p.by = q.by, p.number < q.number,
                      q \in items, Queued(p.by, p)', p \notin exposed
               PROVE  FALSE
    BY <1>1 DEF InOrder
  <2>1. q \in issued /\ q.number <= made
    BY <1>1, <1>2, <1>4 DEF IInv, Owned
  <2>2. p # purchase /\ p \in issued
    BY <1>1, <1>2, <1>4, <2>1 DEF IInv, TypeOK, Purchases, Transactions
  <2>3. Queued(p.by, p)
    <3>1. p.by \in Accounts
      BY <1>4, <2>2 DEF IInv, TypeOK, Purchases, Transactions
    <3> QED
      BY <1>3, <1>9, <2>2, <3>1 DEF Queued
  <2> QED
    BY <1>4, <2>1, <2>2, <2>3 DEF IInv, InOrder
<1> QED
  BY <1>10, <1>11, <1>12, <1>13, <1>14, <1>15, <1>16, <1>17, <1>18 DEF IInv

LEMMA StoreEndMatchStatsPreserves ==
  ASSUME IInv, NEW a \in Accounts, StoreEndMatchStats(a)
  PROVE  IInv'
<1> USE ConstantsAssumption
<1> DEFINE reward == [by |-> a, number |-> made + 1, kind |-> "reward"]
           total == balance[a] \cup {reward}
           update == [items |-> {}, balance |-> total]
           K == lastKey + 1
<1>1. /\ made' = made + 1
      /\ balance' = [balance EXCEPT ![a] = total]
      /\ AddRepetitiveCallback(a, update)
      /\ UNCHANGED <<keyed, flushing, online, busy, direct, items, charged, issued, exposed, refused>>
      /\ made < MaxTransactions /\ flushing = {} /\ busy = None
  BY DEF StoreEndMatchStats, database, MutexFree, Idle
<1>2. /\ made \in Nat /\ reward \in Transactions \ Purchases /\ reward \in MadeBy(a)'
  BY <1>1 DEF IInv, TypeOK, Purchases, Transactions, Kinds, MadeBy
<1>3. \A b \in Accounts : MadeBy(b) \subseteq MadeBy(b)'
  BY <1>1, <1>2 DEF MadeBy, Transactions
<1>4. /\ total \subseteq Transactions /\ total \subseteq MadeBy(a)'
      /\ total \cap issued \subseteq balance[a]
  BY <1>2, <1>3 DEF IInv, TypeOK, Owned
<1>5. update \in Update /\ update.items = {} /\ update.balance = total /\ total # None
  BY <1>4 DEF Update
<1>6. IInv
  OBVIOUS
<1> HIDE DEF reward, total, update
<1>7. /\ lastKey \in Nat /\ lastKey' = K
      /\ DOMAIN incremental' = Accounts
      /\ \A b \in Accounts \ {a} : incremental'[b] = incremental[b]
      /\ Entries(a)' = Entries(a) \cup {K}
      /\ incremental'[a][K] = update
      /\ \A k \in Entries(a) \ {K} : incremental'[a][k] = incremental[a][k]
      /\ \A b \in Accounts : /\ Entries(b)' \subseteq Nat
                             /\ incremental'[b] \in [Entries(b)' -> Update]
  BY <1>1, <1>5, <1>6, AddedEntry DEF IInv
<1>8. \A b \in Accounts \ {a} : Entries(b)' = Entries(b)
  BY <1>7 DEF Entries
\* What was queued still is, unless it is recorded as exposed.
<1>9. \A b \in Accounts : \A k \in Entries(b) : \A t \in incremental[b][k].items \ exposed :
        k \in Entries(b)' /\ t \in incremental'[b][k].items /\ (b = a => k <= lastKey)
  <2> SUFFICES ASSUME NEW b \in Accounts, NEW k \in Entries(b),
                      NEW t \in incremental[b][k].items \ exposed
               PROVE  k \in Entries(b)' /\ t \in incremental'[b][k].items /\ (b = a => k <= lastKey)
    OBVIOUS
  <2>1. k <= lastKey /\ k \in Nat
    BY <1>6, <1>7 DEF IInv, KeysInUse, TypeOK, Entries
  <2> QED
    BY <2>1, <1>7, <1>8
\* Every entry is an old one, or the new one.
<1>10. \A b \in Accounts : \A k \in Entries(b)' :
         \/ k \in Entries(b) /\ incremental'[b][k] = incremental[b][k] /\ ~(b = a /\ k = K)
         \/ b = a /\ k = K /\ incremental'[b][k] = update
  BY <1>7, <1>8
<1>11. TypeOK' /\ Shapes'
  BY <1>1, <1>2, <1>4, <1>6, <1>7 DEF IInv, TypeOK, Shapes, Entries
<1>12. Owned'
  <2>1. \A b \in Accounts : \A k \in Entries(b)' :
          /\ incremental'[b][k].items \subseteq MadeBy(b)'
          /\ incremental'[b][k].balance \in (SUBSET MadeBy(b)') \cup {None}
    BY <1>3, <1>4, <1>5, <1>6, <1>10 DEF IInv, Owned
  <2>2. \A b \in Accounts : /\ keyed'[b] \in (SUBSET MadeBy(b)') \cup {None}
                            /\ balance'[b] \subseteq MadeBy(b)'
                            /\ charged'[b] \subseteq MadeBy(b)'
    BY <1>1, <1>3, <1>4, <1>6 DEF IInv, Owned, Shapes
  <2>3. (\A t \in items' : t.number <= made') /\ made' > 0
    BY <1>1, <1>2, <1>6 DEF IInv, Owned, TypeOK, Purchases, Transactions
  <2> QED
    BY <2>1, <2>2, <2>3 DEF Owned
<1>13. KeysInUse'
  BY <1>1, <1>6, <1>7, <1>10 DEF IInv, KeysInUse, TypeOK, Entries
<1>14. FlushedOrExposed'
  BY <1>1 DEF FlushedOrExposed
<1>15. Kept'
  <2>1. \A t \in issued : Queued(t.by, t) => t \in exposed \/ Queued(t.by, t)'
    BY <1>6, <1>9 DEF Queued, IInv, TypeOK, Purchases, Transactions
  <2> QED
    BY <1>1, <1>6, <2>1 DEF IInv, Kept
<1>16. TotalsFollowItems'
  <2> SUFFICES ASSUME NEW b \in Accounts, NEW k \in Entries(b)',
                      incremental'[b][k].balance # None,
                      NEW t \in incremental'[b][k].balance \cap issued, t \notin items \cup exposed
               PROVE  \E j \in Entries(b)' : j < k /\ t \in incremental'[b][j].items
    BY <1>1 DEF TotalsFollowItems
  <2>1. CASE k \in Entries(b) /\ incremental'[b][k] = incremental[b][k]
    <3>1. PICK j \in Entries(b) : j < k /\ t \in incremental[b][j].items
      BY <1>6, <2>1 DEF IInv, TotalsFollowItems
    <3> QED
      BY <1>9, <3>1
  <2>2. CASE b = a /\ k = K /\ incremental'[b][k] = update
    <3>1. t \in balance[a] /\ t.by = a
      BY <1>4, <1>5, <1>6, <2>2 DEF IInv, Owned, MadeBy
    <3>2. PICK j \in Entries(a) : t \in incremental[a][j].items
      BY <1>6, <3>1 DEF IInv, Kept, Queued
    <3>3. j \in Entries(a)' /\ t \in incremental'[a][j].items /\ j <= lastKey
      BY <1>9, <3>2
    <3>4. j < K
      BY <1>7, <3>3
    <3> QED
      BY <2>2, <3>3, <3>4
  <2> QED
    BY <1>10, <2>1, <2>2
<1>17. ChargeFollowsItem'
  BY <1>1, <1>6 DEF IInv, ChargeFollowsItem
<1>18. QueuedInOrder'
  BY <1>1, <1>5, <1>6, <1>10 DEF IInv, QueuedInOrder
<1>19. InOrder'
  <2>1. \A t \in issued : Queued(t.by, t)' => Queued(t.by, t)
    BY <1>5, <1>6, <1>10 DEF Queued, IInv, TypeOK, Purchases, Transactions
  <2> QED
    BY <1>1, <1>6, <2>1 DEF IInv, InOrder
<1> QED
  BY <1>11, <1>12, <1>13, <1>14, <1>15, <1>16, <1>17, <1>18, <1>19 DEF IInv

LEMMA WriteIncrementalPreserves ==
  ASSUME IInv, NEW a \in Accounts, WriteIncremental(a)
  PROVE  IInv'
<1> USE ConstantsAssumption
<1> DEFINE K == FirstKey(incremental[a])
           update == incremental[a][K]
<1>1. IInv
  OBVIOUS
<1>2. /\ K \in Entries(a) /\ \A j \in Entries(a) : K <= j
      /\ DOMAIN incremental' = Accounts
      /\ \A b \in Accounts \ {a} : incremental'[b] = incremental[b]
      /\ Entries(a)' = Entries(a) \ {K}
      /\ \A j \in Entries(a) \ {K} : incremental'[a][j] = incremental[a][j]
      /\ \A b \in Accounts : /\ Entries(b)' \subseteq Nat
                             /\ incremental'[b] \in [Entries(b)' -> Update]
  BY WrittenEntry DEF IInv
<1>3. \/ /\ items' = items \cup update.items
         /\ charged' = [charged EXCEPT ![a] = IF update.balance = None THEN @ ELSE update.balance]
         /\ UNCHANGED <<exposed, refused>>
      \/ /\ exposed' = exposed \cup update.items
         /\ refused' = refused \cup ({a} \cap online)
         /\ UNCHANGED <<items, charged>>
  BY DEF WriteIncremental, database
<1>4. UNCHANGED <<keyed, lastKey, flushing, online, balance, busy, direct, made, issued>>
      /\ flushing # {}
  BY DEF WriteIncremental
<1>5. update \in Update /\ update.items \subseteq MadeBy(a)
      /\ update.balance \in (SUBSET MadeBy(a)) \cup {None}
  BY <1>1, <1>2 DEF IInv, TypeOK, Entries, Owned
<1> HIDE DEF K, update
<1>6. \A b \in Accounts \ {a} : Entries(b)' = Entries(b)
  BY <1>2 DEF Entries
<1>7. \A b : MadeBy(b)' = MadeBy(b)
  BY <1>4 DEF MadeBy
<1>8. items \subseteq items' /\ exposed \subseteq exposed' /\ update.items \subseteq items' \cup exposed'
  BY <1>3
\* Every entry was there before, and the others of the account come later than the one written.
<1>9. \A b \in Accounts : \A k \in Entries(b)' :
        k \in Entries(b) /\ incremental'[b][k] = incremental[b][k] /\ (b = a => k # K)
  BY <1>2, <1>6
<1>10. \A b \in Accounts : \A k \in Entries(b) :
         k \in Entries(b)' \/ (b = a /\ incremental[b][k] = update)
  BY <1>2, <1>6 DEF update
<1>11. \A b \in Accounts : charged'[b] \in {charged[b]} \cup (SUBSET MadeBy(b))
  BY <1>1, <1>3, <1>5 DEF IInv, Shapes
<1>12. TypeOK' /\ Shapes'
  <2>1. items' \cup exposed' \subseteq Purchases /\ refused' \subseteq Accounts
    BY <1>1, <1>3, <1>5 DEF IInv, TypeOK, Update
  <2>2. charged' \in [Accounts -> SUBSET Transactions]
    BY <1>1, <1>3, <1>5 DEF IInv, Shapes, MadeBy
  <2> QED
    BY <1>1, <1>2, <1>4, <2>1, <2>2 DEF IInv, TypeOK, Shapes, Entries
<1>13. Owned'
  <2>1. \A t \in items' : t.number <= made
    BY <1>1, <1>3, <1>5 DEF IInv, Owned, MadeBy
  <2>2. \A b \in Accounts : charged'[b] \subseteq MadeBy(b)
    BY <1>1, <1>11 DEF IInv, Owned
  <2> QED
    BY <1>1, <1>4, <1>7, <1>9, <2>1, <2>2 DEF IInv, Owned
<1>14. KeysInUse'
  BY <1>1, <1>4, <1>8, <1>9 DEF IInv, KeysInUse
<1>15. FlushedOrExposed'
  BY <1>1, <1>4, <1>8, <1>9 DEF IInv, FlushedOrExposed
<1>16. Kept'
  <2> SUFFICES ASSUME NEW t \in issued, t \notin items' \cup exposed'
               PROVE  Queued(t.by, t)'
    BY <1>4 DEF Kept
  <2>1. t.by \in Accounts
    BY <1>1 DEF IInv, TypeOK, Purchases, Transactions
  <2>2. PICK k \in Entries(t.by) : t \in incremental[t.by][k].items
    BY <1>1, <1>8 DEF IInv, Kept, Queued
  <2>3. k \in Entries(t.by)'
    BY <1>8, <1>10, <2>1, <2>2
  <2> QED
    BY <1>9, <2>1, <2>2, <2>3 DEF Queued
<1>17. TotalsFollowItems'
  <2> SUFFICES ASSUME NEW b \in Accounts, NEW k \in Entries(b)',
                      incremental'[b][k].balance # None,
                      NEW t \in incremental'[b][k].balance \cap issued, t \notin items' \cup exposed'
               PROVE  \E j \in Entries(b)' : j < k /\ t \in incremental'[b][j].items
    BY <1>4 DEF TotalsFollowItems
  <2>1. PICK j \in Entries(b) : j < k /\ t \in incremental[b][j].items
    BY <1>1, <1>8, <1>9 DEF IInv, TotalsFollowItems
  <2>2. j \in Entries(b)'
    BY <1>8, <1>10, <2>1
  <2> QED
    BY <1>9, <2>1, <2>2
<1>18. ChargeFollowsItem'
  <2> SUFFICES ASSUME NEW b \in Accounts, NEW t \in charged'[b] \cap issued,
                      t \notin items' \cup exposed'
               PROVE  FALSE
    BY <1>4 DEF ChargeFollowsItem
  <2>1. t \notin charged[b]
    BY <1>1, <1>8 DEF IInv, ChargeFollowsItem
  <2>2. b = a /\ update.balance # None /\ t \in update.balance
    BY <1>1, <1>3, <2>1 DEF IInv, Shapes
  <2>3. PICK j \in Entries(a) : j < K
    BY <1>1, <1>2, <1>8, <2>2 DEF IInv, TotalsFollowItems, update
  <2>4. j \in Nat /\ K \in Nat
    BY <1>1, <1>2 DEF IInv, TypeOK, Entries
  <2> QED
    BY <1>2, <2>3, <2>4
<1>19. QueuedInOrder'
  BY <1>1, <1>8, <1>9 DEF IInv, QueuedInOrder
<1>20. InOrder'
  <2> SUFFICES ASSUME NEW p \in issued, NEW q \in issued, p.by = q.by, p.number < q.number,
                      q \in items', Queued(p.by, p)', p \notin exposed'
               PROVE  FALSE
    BY <1>4 DEF InOrder
  <2>1. p.by \in Accounts
    BY <1>1 DEF IInv, TypeOK, Purchases, Transactions
  <2>2. PICK j \in Entries(p.by)' : p \in incremental'[p.by][j].items
    BY DEF Queued
  <2>3. j \in Entries(p.by) /\ p \in incremental[p.by][j].items /\ (p.by = a => j # K)
    BY <1>9, <2>1, <2>2
  <2>4. q \notin items
    BY <1>1, <1>8, <2>3 DEF IInv, InOrder, Queued
  <2>5. q \in update.items /\ q.by = a
    BY <1>3, <1>5, <2>4 DEF MadeBy
  <2>6. j < K
    BY <1>1, <1>2, <1>8, <2>1, <2>3, <2>5 DEF IInv, QueuedInOrder, update
  <2>7. j \in Nat /\ K \in Nat
    BY <1>1, <1>2, <2>1, <2>3 DEF IInv, TypeOK, Entries
  <2> QED
    BY <1>2, <2>3, <2>5, <2>6, <2>7
<1> QED
  BY <1>12, <1>13, <1>14, <1>15, <1>16, <1>17, <1>18, <1>19, <1>20 DEF IInv

LEMMA WriteKeyedPreserves ==
  ASSUME IInv, NEW a \in Accounts, WriteKeyed(a)
  PROVE  IInv'
<1> USE ConstantsAssumption
<1>1. /\ UNCHANGED <<incremental, lastKey, flushing, online, balance, busy, direct, items,
                     made, issued, exposed>>
      /\ a \in flushing /\ keyed[a] # None /\ incremental[a] = << >>
      /\ keyed' = [keyed EXCEPT ![a] = None]
  BY DEF WriteKeyed
<1>2. \/ refused' = refused \cup ({a} \cap online) /\ charged' = charged
      \/ refused' = refused /\ charged' = [charged EXCEPT ![a] = keyed[a]]
  BY DEF WriteKeyed
<1>3. keyed[a] \subseteq MadeBy(a) /\ Entries(a) = {}
  BY <1>1 DEF IInv, Owned, Entries
<1>4. \A b : MadeBy(b)' = MadeBy(b) /\ Entries(b)' = Entries(b)
  BY <1>1 DEF MadeBy, Entries
<1>5. \A b \in Accounts : charged'[b] = charged[b] \/ (b = a /\ charged'[b] = keyed[a])
  BY <1>2 DEF IInv, Shapes
<1>6. TypeOK' /\ Shapes'
  <2>1. charged' \in [Accounts -> SUBSET Transactions]
    BY <1>2, <1>3 DEF IInv, Shapes, MadeBy
  <2>2. refused' \subseteq Accounts
    BY <1>2 DEF IInv, TypeOK
  <2>3. keyed' \in [Accounts -> (SUBSET Transactions) \cup {None}]
    BY <1>1 DEF IInv, Shapes
  <2> QED
    BY <1>1, <2>1, <2>2, <2>3 DEF IInv, TypeOK, Shapes
<1>7. Owned'
  <2>1. \A b \in Accounts : charged'[b] \subseteq MadeBy(b)
    BY <1>3, <1>5 DEF IInv, Owned
  <2>2. \A b \in Accounts : keyed'[b] \in (SUBSET MadeBy(b)) \cup {None}
    BY <1>1 DEF IInv, Owned, Shapes
  <2> QED
    BY <1>1, <1>4, <2>1, <2>2 DEF IInv, Owned
<1>8. FlushedOrExposed'
  BY <1>1, <1>4 DEF IInv, FlushedOrExposed
<1>9. ChargeFollowsItem'
  <2> SUFFICES ASSUME NEW t \in keyed[a] \cap issued
               PROVE  t \in items \cup exposed
    BY <1>1, <1>5 DEF IInv, ChargeFollowsItem
  <2>1. t.by = a
    BY <1>3 DEF MadeBy
  <2> QED
    BY <1>3, <2>1 DEF IInv, Kept, Queued
<1> QED
  BY <1>1, <1>6, <1>7, <1>8, <1>9, UntouchedPreserves DEF Untouched

LEMMA WrittenPreserves ==
  ASSUME IInv, Written
  PROVE  IInv'
<1> USE ConstantsAssumption
<1>1. /\ flushing # {} /\ flushing' = {} /\ lastKey' = 0
      /\ \A b \in flushing : incremental[b] = << >>
      /\ busy' = (IF busy \in online THEN busy ELSE None)
      /\ UNCHANGED <<incremental, keyed, online, balance, direct, items, charged,
                     made, issued, exposed, refused>>
  BY DEF Written, MutexFree, NothingToWrite, database, history
<1>2. \A b : MadeBy(b)' = MadeBy(b) /\ Entries(b)' = Entries(b)
  BY <1>1 DEF MadeBy, Entries
<1>3. \A b, t : Queued(b, t)' <=> Queued(b, t)
  BY <1>1, <1>2 DEF Queued
<1>4. TypeOK' /\ Shapes'
  BY <1>1 DEF IInv, TypeOK, Shapes
<1>5. Owned'
  BY <1>1, <1>2 DEF IInv, TypeOK, Owned
<1>6. KeysInUse'
  <2> SUFFICES ASSUME NEW b \in Accounts, NEW k \in Entries(b)
               PROVE  incremental[b][k].items \subseteq exposed
    BY <1>1, <1>2 DEF KeysInUse
  <2>1. b \notin flushing
    BY <1>1 DEF Entries
  <2> QED
    BY <1>1, <2>1 DEF IInv, FlushedOrExposed
<1>7. FlushedOrExposed'
  BY <1>1 DEF FlushedOrExposed
<1>8. Kept' /\ InOrder'
  BY <1>1, <1>3 DEF IInv, Kept, InOrder
<1>9. TotalsFollowItems' /\ ChargeFollowsItem'
  BY <1>1, <1>2 DEF IInv, TotalsFollowItems, ChargeFollowsItem
<1>10. QueuedInOrder'
  BY <1>1, <1>2 DEF IInv, QueuedInOrder
<1> QED
  BY <1>4, <1>5, <1>6, <1>7, <1>8, <1>9, <1>10 DEF IInv

LEMMA CrashPreserves ==
  ASSUME IInv, Crash
  PROVE  IInv'
<1> USE ConstantsAssumption DEF Crash, database
<1>1. \A a \in Accounts : Entries(a)' = {} /\ incremental'[a] \in [Entries(a)' -> Update]
  <2>1. \A a \in Accounts : incremental'[a] = << >>
    OBVIOUS
  <2>2. DOMAIN << >> = {} /\ << >> \in [DOMAIN << >> -> Update]
    OBVIOUS
  <2> QED
    BY <2>1, <2>2 DEF Entries
<1>2. TypeOK'
  <2>1. \A a \in Accounts : /\ DOMAIN incremental'[a] \subseteq Nat
                            /\ incremental'[a] \in [DOMAIN incremental'[a] -> Update]
    BY <1>1 DEF Entries
  <2>2. \A a \in Accounts : keyed'[a] = None /\ balance'[a] = {} /\ charged'[a] = charged[a]
    OBVIOUS
  <2>3. /\ busy' = None /\ lastKey' = 0 /\ items' \cup issued' \cup exposed' \subseteq Purchases
        /\ flushing' = {} /\ online' = {} /\ refused' = {} /\ direct' \in BOOLEAN
        /\ made' \in 0 .. MaxTransactions /\ \A a \in Accounts : charged[a] \subseteq Transactions
    BY DEF IInv, TypeOK
  <2> QED
    BY <2>1, <2>2, <2>3 DEF TypeOK
<1>3. Shapes'
  BY DEF IInv, Shapes
<1>4. Owned'
  <2>1. \A a \in Accounts : MadeBy(a)' = MadeBy(a)
    BY DEF MadeBy
  <2>2. \A a \in Accounts : keyed'[a] = None /\ balance'[a] = {} /\ charged'[a] \subseteq MadeBy(a)
    BY DEF IInv, Owned
  <2>3. (\A t \in items' : t.number <= made') /\ busy' \notin online'
    BY DEF IInv, Owned
  <2> QED
    BY <1>1, <2>1, <2>2, <2>3 DEF Owned
<1>5. KeysInUse' /\ FlushedOrExposed' /\ Kept' /\ TotalsFollowItems' /\ ChargeFollowsItem'
      /\ QueuedInOrder' /\ InOrder'
  BY <1>1 DEF KeysInUse, FlushedOrExposed, Kept, TotalsFollowItems, ChargeFollowsItem,
              QueuedInOrder, InOrder
<1> QED
  BY <1>2, <1>3, <1>4, <1>5 DEF IInv

LEMMA NextPreservesIInv ==
  ASSUME IInv, [Next]_vars
  PROVE  IInv'
<1>1. CASE Handling
  BY <1>1, LoginPreserves, BuyItemPreserves, StoreEndMatchStatsPreserves, LogoutPreserves,
     ChargePreserves, DirectPreserves DEF Handling
<1>2. CASE Persist
  BY <1>2, DirectPreserves
<1>3. CASE Writing
  BY <1>3, WriteIncrementalPreserves, WriteKeyedPreserves, WrittenPreserves DEF Writing
<1>4. CASE Crash
  BY <1>4, CrashPreserves
<1>5. CASE UNCHANGED vars
  BY <1>5, StutterPreserves
<1> QED
  BY <1>1, <1>2, <1>3, <1>4, <1>5 DEF Next, Running

\* The strengthened invariant is inductive, so it always holds.
THEOREM IInvHolds == Spec => []IInv
<1> QED
  BY InitSatisfiesIInv, NextPreservesIInv, PTL DEF Spec

----------------------------------------------------------------------------
(* What a player has paid is what the next flush charges *)

\* Nothing is queued of an account without a session, unless its logout is under way.
OfflineIsWritten ==
  /\ \A a \in Accounts \ online : busy # a => NothingToWrite(a)
  /\ busy \in Accounts \ online => busy \in flushing

\* The purchases a queued total accounts for are those the player has paid.
TotalsAreDue ==
  \A a \in online \ refused :
    /\ keyed[a] # None => keyed[a] \cap Purchases = balance[a] \cap Purchases
    /\ keyed[a] = None =>
         /\ charged[a] \cap Purchases = balance[a] \cap Purchases
         /\ \A k \in Entries(a) : incremental[a][k].balance # None =>
              incremental[a][k].balance \cap Purchases = balance[a] \cap Purchases

\* The keys in use have an upper bound.
KeysBounded == \A a \in Accounts : \E n \in Nat : \A k \in Entries(a) : k <= n

DueInv == OfflineIsWritten /\ TotalsAreDue /\ KeysBounded

LEMMA InitSatisfiesDueInv == Init => DueInv
<1> SUFFICES ASSUME Init PROVE DueInv
  OBVIOUS
<1>1. \A a \in Accounts : Entries(a) = {} /\ NothingToWrite(a)
  BY DEF Init, Entries, NothingToWrite
<1>2. busy \notin Accounts /\ online = {}
  BY ConstantsAssumption DEF Init
<1> QED
  BY <1>1, <1>2 DEF DueInv, OfflineIsWritten, TotalsAreDue, KeysBounded

\* Adding an update of a keeps the keys bounded.
LEMMA AddedKeysBounded ==
  ASSUME TypeOK, Shapes, KeysBounded, NEW a \in Accounts, NEW update \in Update,
         AddRepetitiveCallback(a, update)
  PROVE  KeysBounded'
<1> SUFFICES ASSUME NEW b \in Accounts
             PROVE  \E n \in Nat : \A k \in Entries(b)' : k <= n
  BY DEF KeysBounded
<1>1. PICK n \in Nat : \A k \in Entries(b) : k <= n
  BY DEF KeysBounded
<1>2. Entries(b) \subseteq Nat
  BY DEF TypeOK, Entries
<1>3. lastKey \in Nat /\ Entries(b)' \subseteq Entries(b) \cup {lastKey + 1}
  BY AddedEntry DEF Entries
<1>4. \A k \in Entries(b)' : k <= n + lastKey + 1
  BY <1>1, <1>2, <1>3
<1>5. n + lastKey + 1 \in Nat
  BY <1>3
<1> QED
  BY <1>4, <1>5

LEMMA HandlingPreservesDue ==
  ASSUME IInv, DueInv, Handling
  PROVE  DueInv'
<1> USE ConstantsAssumption
<1>1. TypeOK /\ Shapes
  BY DEF IInv
<1>2. ASSUME NEW a \in Accounts, Login(a) PROVE DueInv'
  <2> USE <1>2 DEF Login, queues, database, history
  <2>1. keyed[a] = None /\ Entries(a) = {}
    BY <1>1 DEF DueInv, OfflineIsWritten, NothingToWrite, Idle, Entries
  <2>2. \A b \in online' \ refused' : (b \in online \ refused /\ b # a) \/ b = a
    OBVIOUS
  <2>3. balance' = [balance EXCEPT ![a] = charged[a]]
    OBVIOUS
  <2>4. OfflineIsWritten'
    BY <1>1 DEF DueInv, OfflineIsWritten, NothingToWrite, Idle
  <2>5. TotalsAreDue'
    BY <1>1, <2>1, <2>2, <2>3 DEF DueInv, TotalsAreDue, TypeOK, Shapes, Entries
  <2>6. KeysBounded'
    BY DEF DueInv, KeysBounded, Entries
  <2> QED
    BY <2>4, <2>5, <2>6 DEF DueInv
<1>3. ASSUME NEW a \in Accounts, BuyItem(a) PROVE DueInv'
  <2> DEFINE purchase == [by |-> a, number |-> made + 1, kind |-> "purchase"]
             update == [items |-> {purchase}, balance |-> None]
  <2>1. /\ AddRepetitiveCallback(a, update) /\ a \in online /\ busy = None /\ busy' = a
        /\ UNCHANGED <<keyed, flushing, online, balance, charged, refused>>
    BY <1>3 DEF BuyItem, Idle, database
  <2>2. purchase \in Purchases
    BY <1>1, <1>3 DEF BuyItem, TypeOK, Purchases, Transactions, Kinds
  <2>3. update \in Update /\ update.balance = None
    BY <2>2 DEF Update
  <2> HIDE DEF update
  <2>4. /\ \A b \in Accounts \ {a} : incremental'[b] = incremental[b]
        /\ \A k \in Entries(a)' :
             \/ incremental'[a][k] = update
             \/ k \in Entries(a) /\ incremental'[a][k] = incremental[a][k]
    <3>1. /\ \A b \in Accounts \ {a} : incremental'[b] = incremental[b]
          /\ Entries(a)' = Entries(a) \cup {lastKey + 1}
          /\ incremental'[a][lastKey + 1] = update
          /\ \A k \in Entries(a) \ {lastKey + 1} : incremental'[a][k] = incremental[a][k]
      BY <1>1, <2>1, <2>3, AddedEntry
    <3> QED
      BY <3>1
  <2>5. OfflineIsWritten'
    <3>1. \A b \in Accounts \ online : NothingToWrite(b) /\ b # a
      BY <1>1, <2>1, ConstantsAssumption DEF DueInv, OfflineIsWritten
    <3>2. \A b \in Accounts \ online : NothingToWrite(b)'
      BY <2>1, <2>4, <3>1 DEF NothingToWrite
    <3> QED
      BY <2>1, <3>2 DEF OfflineIsWritten
  <2>6. TotalsAreDue'
    BY <1>1, <2>1, <2>3, <2>4 DEF DueInv, TotalsAreDue, TypeOK, Entries
  <2>7. KeysBounded'
    BY <1>1, <2>1, <2>3, AddedKeysBounded DEF DueInv
  <2> QED
    BY <2>5, <2>6, <2>7 DEF DueInv
<1>4. ASSUME NEW a \in Accounts, StoreEndMatchStats(a) PROVE DueInv'
  <2> DEFINE reward == [by |-> a, number |-> made + 1, kind |-> "reward"]
             total == balance[a] \cup {reward}
             update == [items |-> {}, balance |-> total]
  <2>1. /\ AddRepetitiveCallback(a, update) /\ a \in online /\ busy = None
        /\ balance' = [balance EXCEPT ![a] = total]
        /\ UNCHANGED <<keyed, flushing, online, busy, charged, refused>>
    BY <1>4 DEF StoreEndMatchStats, Idle, database
  <2>2. reward \in Transactions \ Purchases
    BY <1>1, <1>4 DEF StoreEndMatchStats, TypeOK, Purchases, Transactions, Kinds
  <2>3. update \in Update /\ update.balance = total
        /\ total \cap Purchases = balance[a] \cap Purchases
    BY <1>1, <2>2 DEF Update, TypeOK
  <2> HIDE DEF update, total
  <2>4. /\ \A b \in Accounts \ {a} : incremental'[b] = incremental[b]
        /\ \A k \in Entries(a)' :
             \/ incremental'[a][k] = update
             \/ k \in Entries(a) /\ incremental'[a][k] = incremental[a][k]
    <3>1. /\ \A b \in Accounts \ {a} : incremental'[b] = incremental[b]
          /\ Entries(a)' = Entries(a) \cup {lastKey + 1}
          /\ incremental'[a][lastKey + 1] = update
          /\ \A k \in Entries(a) \ {lastKey + 1} : incremental'[a][k] = incremental[a][k]
      BY <1>1, <2>1, <2>3, AddedEntry
    <3> QED
      BY <3>1
  <2>5. OfflineIsWritten'
    <3>1. \A b \in Accounts \ online : NothingToWrite(b) /\ b # a
      BY <1>1, <2>1, ConstantsAssumption DEF DueInv, OfflineIsWritten
    <3>2. \A b \in Accounts \ online : NothingToWrite(b)'
      BY <2>1, <2>4, <3>1 DEF NothingToWrite
    <3> QED
      BY <2>1, <3>2, ConstantsAssumption DEF OfflineIsWritten
  <2>6. \A b \in Accounts : balance'[b] \cap Purchases = balance[b] \cap Purchases
    BY <1>1, <2>1, <2>3 DEF Shapes
  <2>7. TotalsAreDue'
    <3> SUFFICES ASSUME NEW b \in online \ refused
                 PROVE  /\ keyed[b] # None => keyed[b] \cap Purchases = balance[b] \cap Purchases
                        /\ keyed[b] = None =>
                             /\ charged[b] \cap Purchases = balance[b] \cap Purchases
                             /\ \A k \in Entries(b)' : incremental'[b][k].balance # None =>
                                  incremental'[b][k].balance \cap Purchases = balance[b] \cap Purchases
      BY <1>1, <2>1, <2>6 DEF TotalsAreDue, TypeOK
    <3> QED
      BY <1>1, <2>3, <2>4 DEF DueInv, TotalsAreDue, TypeOK, Entries
  <2>8. KeysBounded'
    BY <1>1, <2>1, <2>3, AddedKeysBounded DEF DueInv
  <2> QED
    BY <2>5, <2>7, <2>8 DEF DueInv
<1>5. ASSUME NEW a \in Accounts, Logout(a) PROVE DueInv'
  <2> USE <1>5 DEF Logout, queues, database
  <2>1. OfflineIsWritten'
    BY DEF DueInv, OfflineIsWritten, NothingToWrite, Idle
  <2>2. TotalsAreDue'
    BY <1>1 DEF DueInv, TotalsAreDue, TypeOK, Shapes, Entries
  <2>3. KeysBounded'
    BY DEF DueInv, KeysBounded, Entries
  <2> QED
    BY <2>1, <2>2, <2>3 DEF DueInv
<1>6. CASE Charge
  <2> USE <1>6 DEF Charge, database, history
  <2>1. PICK paid : /\ balance' = [balance EXCEPT ![busy] = paid]
                    /\ keyed' = [keyed EXCEPT ![busy] = paid]
                    /\ paid # None
    <3> DEFINE paid == balance[busy]
                       \cup {[by |-> busy, number |-> made, kind |-> "purchase"]}
    <3>1. balance' = [balance EXCEPT ![busy] = paid] /\ keyed' = [keyed EXCEPT ![busy] = paid]
      BY DEF AddCallback
    <3>2. paid \subseteq Transactions
      <4>1. balance[busy] \subseteq Transactions /\ made \in 1 .. MaxTransactions
            /\ busy \in Accounts
        BY DEF IInv, TypeOK, Owned
      <4> QED
        BY <4>1 DEF Transactions, Kinds
    <3> QED
      BY <3>1, <3>2
  <2>2. OfflineIsWritten'
    BY <1>1, <2>1 DEF DueInv, OfflineIsWritten, NothingToWrite, TypeOK, Shapes
  <2>3. TotalsAreDue'
    BY <1>1, <2>1 DEF DueInv, TotalsAreDue, TypeOK, Shapes, Entries
  <2>4. KeysBounded'
    BY DEF DueInv, KeysBounded, Entries
  <2> QED
    BY <2>2, <2>3, <2>4 DEF DueInv
<1>7. CASE BeginDirect \/ CommitDirect
  BY <1>7 DEF BeginDirect, CommitDirect, queues, database, history,
              DueInv, OfflineIsWritten, NothingToWrite, TotalsAreDue, KeysBounded, Entries
<1> QED
  BY <1>2, <1>3, <1>4, <1>5, <1>6, <1>7 DEF Handling

LEMMA WritingPreservesDue ==
  ASSUME IInv, DueInv, Persist \/ Writing
  PROVE  DueInv'
<1> USE ConstantsAssumption
<1>1. TypeOK /\ Shapes
  BY DEF IInv
<1>2. CASE Persist
  <2> USE <1>2 DEF Persist, queues, database, history
  <2>1. OfflineIsWritten'
    BY DEF DueInv, OfflineIsWritten, NothingToWrite
  <2>2. TotalsAreDue' /\ KeysBounded'
    BY DEF DueInv, TotalsAreDue, KeysBounded, Entries
  <2> QED
    BY <2>1, <2>2 DEF DueInv
<1>3. CASE Written
  <2> USE <1>3 DEF Written, database, history
  <2>1. OfflineIsWritten'
    BY <1>1 DEF DueInv, OfflineIsWritten, NothingToWrite, TypeOK
  <2>2. TotalsAreDue' /\ KeysBounded'
    BY DEF DueInv, TotalsAreDue, KeysBounded, Entries
  <2> QED
    BY <2>1, <2>2 DEF DueInv
<1>4. ASSUME NEW a \in Accounts, WriteIncremental(a) PROVE DueInv'
  <2> DEFINE K == FirstKey(incremental[a])
             update == incremental[a][K]
  <2>1. /\ K \in Entries(a)
        /\ \A b \in Accounts \ {a} : incremental'[b] = incremental[b]
        /\ Entries(a)' = Entries(a) \ {K}
        /\ \A j \in Entries(a) \ {K} : incremental'[a][j] = incremental[a][j]
    BY <1>1, <1>4, WrittenEntry
  <2>2. \/ /\ charged' = [charged EXCEPT ![a] = IF update.balance = None THEN @ ELSE update.balance]
           /\ refused' = refused
        \/ /\ refused' = refused \cup ({a} \cap online)
           /\ charged' = charged
    BY <1>4 DEF WriteIncremental, database
  <2>3. UNCHANGED <<keyed, flushing, online, balance, busy>>
    BY <1>4 DEF WriteIncremental
  <2>4. \A b \in Accounts : \A k \in Entries(b)' :
          k \in Entries(b) /\ incremental'[b][k] = incremental[b][k]
    BY <2>1 DEF Entries
  <2>5. OfflineIsWritten'
    <3>1. incremental[a] # << >>
      BY <1>4 DEF WriteIncremental
    <3>2. a \in online \/ busy = a
      BY <3>1 DEF DueInv, OfflineIsWritten, NothingToWrite
    <3> QED
      BY <2>1, <2>3, <3>2 DEF DueInv, OfflineIsWritten, NothingToWrite
  <2> HIDE DEF K
  <2>6. TotalsAreDue'
    <3> SUFFICES ASSUME NEW b \in online \ refused, b \notin refused'
                 PROVE  /\ keyed[b] # None => keyed[b] \cap Purchases = balance[b] \cap Purchases
                        /\ keyed[b] = None =>
                             /\ charged'[b] \cap Purchases = balance[b] \cap Purchases
                             /\ \A k \in Entries(b)' : incremental'[b][k].balance # None =>
                                  incremental'[b][k].balance \cap Purchases = balance[b] \cap Purchases
      BY <2>2, <2>3 DEF TotalsAreDue
    <3>1. b \in Accounts
      BY <1>1 DEF TypeOK
    <3>2. keyed[b] = None => charged'[b] \cap Purchases = balance[b] \cap Purchases
      BY <1>1, <2>1, <2>2, <3>1 DEF DueInv, TotalsAreDue, Shapes
    <3> QED
      BY <2>4, <3>1, <3>2 DEF DueInv, TotalsAreDue
  <2>7. KeysBounded'
    BY <2>4 DEF DueInv, KeysBounded
  <2> QED
    BY <2>5, <2>6, <2>7 DEF DueInv
<1>5. ASSUME NEW a \in Accounts, WriteKeyed(a) PROVE DueInv'
  <2>1. /\ UNCHANGED <<incremental, flushing, online, balance, busy>>
        /\ a \in flushing /\ keyed[a] # None /\ incremental[a] = << >>
        /\ keyed' = [keyed EXCEPT ![a] = None]
    BY <1>5 DEF WriteKeyed
  <2>2. \/ refused' = refused \cup ({a} \cap online) /\ charged' = charged
        \/ refused' = refused /\ charged' = [charged EXCEPT ![a] = keyed[a]]
    BY <1>5 DEF WriteKeyed
  <2>3. Entries(a) = {} /\ \A b : Entries(b)' = Entries(b)
    BY <2>1 DEF Entries
  <2>4. OfflineIsWritten'
    BY <1>1, <2>1 DEF DueInv, OfflineIsWritten, NothingToWrite, Shapes
  <2>5. TotalsAreDue'
    <3> SUFFICES ASSUME NEW b \in online \ refused, b \notin refused'
                 PROVE  /\ keyed'[b] # None => keyed'[b] \cap Purchases = balance[b] \cap Purchases
                        /\ keyed'[b] = None =>
                             /\ charged'[b] \cap Purchases = balance[b] \cap Purchases
                             /\ \A k \in Entries(b) : incremental[b][k].balance # None =>
                                  incremental[b][k].balance \cap Purchases = balance[b] \cap Purchases
      BY <2>1, <2>2, <2>3 DEF TotalsAreDue
    <3>1. b \in Accounts
      BY <1>1 DEF TypeOK
    <3>2. CASE b = a
      BY <1>1, <2>1, <2>2, <2>3, <3>1, <3>2 DEF DueInv, TotalsAreDue, Shapes
    <3>3. CASE b # a
      BY <1>1, <2>1, <2>2, <3>1, <3>3 DEF DueInv, TotalsAreDue, Shapes
    <3> QED
      BY <3>2, <3>3
  <2>6. KeysBounded'
    BY <2>3 DEF DueInv, KeysBounded
  <2> QED
    BY <2>4, <2>5, <2>6 DEF DueInv
<1> QED
  BY <1>2, <1>3, <1>4, <1>5 DEF Writing

LEMMA NextPreservesDueInv ==
  ASSUME IInv, DueInv, [Next]_vars
  PROVE  DueInv'
<1>1. CASE Crash
  <2>1. \A a \in Accounts : Entries(a)' = {} /\ NothingToWrite(a)'
    BY <1>1 DEF Crash, Entries, NothingToWrite
  <2>2. busy' \notin Accounts /\ online' = {}
    BY <1>1, ConstantsAssumption DEF Crash
  <2> QED
    BY <2>1, <2>2 DEF DueInv, OfflineIsWritten, TotalsAreDue, KeysBounded
<1>2. CASE UNCHANGED vars
  BY <1>2 DEF vars, queues, database, history,
              DueInv, OfflineIsWritten, NothingToWrite, TotalsAreDue, KeysBounded, Entries
<1> QED
  BY <1>1, <1>2, HandlingPreservesDue, WritingPreservesDue DEF Next, Running

LEMMA DueInvImpliesChargesAreDue == IInv /\ DueInv => ChargesAreDue
<1> SUFFICES ASSUME IInv, DueInv, NEW a \in online \ refused
             PROVE  balance[a] \cap Purchases = Due(a) \cap Purchases
  BY DEF ChargesAreDue
<1> DEFINE stats == {k \in Entries(a) : incremental[a][k].balance # None}
           K == CHOOSE k \in stats : \A j \in stats : j <= k
<1>1. a \in Accounts /\ stats \in SUBSET Nat
  BY DEF IInv, TypeOK, Entries
<1>2. Due(a) = IF keyed[a] # None THEN keyed[a]
               ELSE IF stats = {} THEN charged[a] ELSE incremental[a][K].balance
  BY DEF Due, Entries
<1>3. stats # {} => K \in stats
  <2>1. PICK n \in Nat : \A k \in Entries(a) : k <= n
    BY <1>1 DEF DueInv, KeysBounded
  <2>2. stats # {} => \E k \in stats : \A j \in stats : j <= k
    BY <1>1, <2>1, GreatestNumber
  <2> QED
    BY <2>2
<1> HIDE DEF K
<1> QED
  BY <1>2, <1>3 DEF DueInv, TotalsAreDue

----------------------------------------------------------------------------
(* The theorems *)

LEMMA PendingIsQueued ==
  ASSUME NEW a, NEW t
  PROVE  t \in Pending(a) <=> Queued(a, t)
BY DEF Pending, Queued, Entries

\* The types of the variables.
THEOREM TypeCorrect == Spec => []TypeOK
<1>1. IInv => TypeOK
  BY DEF IInv
<1> QED
  BY <1>1, IInvHolds, PTL

\* While the server runs, an item that was queued is stored or still queued, or was exposed:
\* MainScheduler does not lose updates of its own.
THEOREM QueuedItemsAreKept == Spec => []LostItemsWereExposed
<1>1. IInv => LostItemsWereExposed
  <2> SUFFICES ASSUME IInv, NEW t \in issued, t \notin items \cup exposed
               PROVE  \E a \in Accounts : t \in Pending(a)
    BY DEF LostItemsWereExposed
  <2>1. t.by \in Accounts /\ Queued(t.by, t)
    BY DEF IInv, Kept, TypeOK, Purchases, Transactions
  <2> QED
    BY <2>1, PendingIsQueued
<1> QED
  BY <1>1, IInvHolds, PTL

\* The repetitive updates of an account are stored in the order of the calls.
THEOREM ItemsStoredInOrder == Spec => []StoredInOrder
<1>1. IInv => StoredInOrder
  <2> SUFFICES ASSUME IInv, NEW p \in issued, NEW q \in issued, p.by = q.by,
                      p.number < q.number, q \in items, p \in Pending(p.by)
               PROVE  p \in exposed
    BY DEF StoredInOrder
  <2>1. Queued(p.by, p)
    BY PendingIsQueued
  <2> QED
    BY <2>1 DEF IInv, InOrder
<1> QED
  BY <1>1, IInvHolds, PTL

\* No price reaches the database before its item, although the two are queued in two ways
\* and a reward may store the price first.
THEOREM PricesFollowItems == Spec => []ChargeFollowsItem
<1>1. IInv => ChargeFollowsItem
  BY DEF IInv
<1> QED
  BY <1>1, IInvHolds, PTL

\* What an online player has paid is what the next flush charges.
THEOREM PaymentsAreStored == Spec => []ChargesAreDue
<1>1. Spec => [](IInv /\ DueInv)
  <2>1. Init => IInv /\ DueInv
    BY InitSatisfiesIInv, InitSatisfiesDueInv
  <2>2. IInv /\ DueInv /\ [Next]_vars => (IInv /\ DueInv)'
    BY NextPreservesIInv, NextPreservesDueInv
  <2> QED
    BY <2>1, <2>2, PTL DEF Spec
<1> QED
  BY <1>1, DueInvImpliesChargesAreDue, PTL

\* Nothing that is queued is lost or overtaken, for any number of accounts and purchases.
THEOREM QueueIsReliable == Spec => []ItemsAreKept
<1>1. ItemsAreKept <=> LostItemsWereExposed /\ StoredInOrder
  BY DEF ItemsAreKept
<1> QED
  BY <1>1, QueuedItemsAreKept, ItemsStoredInOrder, PTL

=============================================================================
