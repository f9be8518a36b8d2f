--------------------------- MODULE MainScheduler ---------------------------
(***************************************************************************)
(* The write-behind queue of the main server: MainScheduler, which stores  *)
(* the changes that handlers make to accounts, and two of its clients: the *)
(* purchase of an item (handleBoughtItem) and the reward at the end of a   *)
(* match (storeEndMatchStats), which write the same balance in two ways.   *)
(*                                                                         *)
(* Two threads take m_mutex: the io_context thread, which runs handlers    *)
(* and queues updates, and the scheduler thread, which wakes up and writes *)
(* them all.  A queued update is either repetitive (one entry per call,    *)
(* under a key drawn from a counter common to all accounts) or keyed (the  *)
(* last one wins).  A purchase queues the item as a repetitive update and  *)
(* then the new balance as a keyed one, under two acquisitions of m_mutex; *)
(* a reward queues the balance as a repetitive update.                     *)
(*                                                                         *)
(* A balance is represented by the set of transactions (purchases and      *)
(* rewards) it accounts for.  Entries are taken out of the queues as they  *)
(* are written, where the code clears them at the end of the critical      *)
(* section: nobody reads them in between.  Accounts are written in any     *)
(* order, as the hash map iterates over them in no particular one.         *)
(*                                                                         *)
(* Five functions of PersistentDatabase open a transaction on the          *)
(* io_context thread without m_mutex, on the connection that the scheduler *)
(* thread writes through.  While one is open, the BEGIN of an update       *)
(* throws, and the update catches it and returns: it is lost.  (The other  *)
(* way round it is what the handler wanted to store that is lost.)         *)
(***************************************************************************)
EXTENDS Naturals, Functions

CONSTANTS
  Accounts,
  MaxTransactions,   \* bound of the model: what is ever bought and earned
  None

Kinds == {"purchase", "reward"}
Transactions == [by : Accounts, number : 1 .. MaxTransactions, kind : Kinds]
Purchases == {t \in Transactions : t.kind = "purchase"}

ASSUME ConstantsAssumption ==
  /\ MaxTransactions \in Nat
  /\ None \notin Accounts
  /\ \A S \in SUBSET Transactions : None # S

VARIABLES
  incremental,  \* m_databaseCallbacksIncremental: account -> key -> update
  keyed,        \* m_databaseCallbacks: account -> balance, or None
  lastKey,      \* m_incrementalDifferentiationKey
  flushing,     \* accounts being written by the holder of m_mutex; {} when it is free
  online,       \* accounts with a session
  balance,      \* Player.m_accountInfo.microPoints, and {} of an account without a session
  busy,         \* account whose purchase or logout the io_context thread is in, or None
  direct,       \* the io_context thread has opened a transaction of its own
  items,        \* database: purchases whose item is stored
  charged,      \* database: account -> balance stored
  made,         \* history: number of transactions made, of all accounts
  issued,       \* history: purchases queued since the server started
  exposed,      \* history: of these, those that were queued while another session was cleared,
                \*   or whose transaction could not begin
  refused       \* history: online accounts an update of which could not begin

queues == <<incremental, keyed, lastKey>>
database == <<items, charged>>
history == <<made, issued, exposed, refused>>
vars == <<queues, flushing, online, balance, busy, direct, database, history>>

\* A repetitive update stores an item (addPlayerItems) or a balance (updatePlayerStats).
Update == [items : SUBSET Purchases, balance : (SUBSET Transactions) \cup {None}]

Pending(a) == UNION {incremental[a][k].items : k \in DOMAIN incremental[a]}

\* m_mutex is free, and the io_context thread is between two handlers.
MutexFree == flushing = {}
Idle == busy = None /\ ~direct

NothingToWrite(a) == incremental[a] = << >> /\ keyed[a] = None

----------------------------------------------------------------------------
(* The io_context thread *)

\* handleAuthorization reads the account from the database, without m_mutex.
Login(a) ==
  /\ Idle
  /\ a \notin online
  /\ online' = online \cup {a}
  /\ balance' = [balance EXCEPT ![a] = charged[a]]
  /\ UNCHANGED <<queues, flushing, busy, direct, database, history>>

\* mutants: the counter is not incremented, or decremented
AddUnderSameKey(a, update) ==
  /\ UNCHANGED lastKey
  /\ incremental' = [incremental EXCEPT ![a] =
       [k \in DOMAIN @ \cup {lastKey} |-> IF k = lastKey THEN update ELSE @[k]]]
AddUnderLowerKey(a, update) ==
  /\ lastKey' = lastKey - 1
  /\ incremental' = [incremental EXCEPT ![a] =
       [k \in DOMAIN @ \cup {lastKey - 1} |-> IF k = lastKey - 1 THEN update ELSE @[k]]]

\* MainScheduler::addRepetitiveCallback: operator[] of the map replaces an entry.
AddRepetitiveCallback(a, update) ==
  /\ lastKey' = lastKey + 1
  /\ incremental' = [incremental EXCEPT ![a] =
       [k \in DOMAIN @ \cup {lastKey + 1} |-> IF k = lastKey + 1 THEN update ELSE @[k]]]

\* mutant: emplace, which keeps an entry that is there
AddCallbackOnce(a, update) ==
  keyed' = [keyed EXCEPT ![a] = IF @ = None THEN update ELSE @]

\* MainScheduler::addCallback
AddCallback(a, update) == keyed' = [keyed EXCEPT ![a] = update]

\* handleBoughtItem as far as Session::addItems
BuyItem(a) ==
  /\ MutexFree /\ Idle
  /\ a \in online /\ made < MaxTransactions
  /\ LET purchase == [by |-> a, number |-> made + 1, kind |-> "purchase"] IN
     /\ AddRepetitiveCallback(a, [items |-> {purchase}, balance |-> None])
     /\ issued' = issued \cup {purchase}
  /\ made' = made + 1
  /\ busy' = a
  /\ UNCHANGED <<keyed, flushing, online, balance, direct, database, exposed, refused>>

\* The rest of handleBoughtItem: removeAmountByCurrencyType, Session::setAccountMicroPoints
Charge ==
  /\ MutexFree /\ busy \in online
  /\ LET paid == balance[busy]
                 \cup {[by |-> busy, number |-> made, kind |-> "purchase"]} IN
     /\ balance' = [balance EXCEPT ![busy] = paid]
     /\ AddCallback(busy, paid)
  /\ busy' = None
  /\ UNCHANGED <<incremental, lastKey, flushing, online, direct, database, history>>

\* Session::storeEndMatchStats, of handleMatchEnding: the new total is stored with the stats.
StoreEndMatchStats(a) ==
  /\ MutexFree /\ Idle
  /\ a \in online /\ made < MaxTransactions
  /\ LET total == balance[a]
                  \cup {[by |-> a, number |-> made + 1, kind |-> "reward"]} IN
     /\ balance' = [balance EXCEPT ![a] = total]
     /\ AddRepetitiveCallback(a, [items |-> {}, balance |-> total])
  /\ made' = made + 1
  /\ UNCHANGED <<keyed, flushing, online, busy, direct, database, issued, exposed, refused>>

\* Session::clear, of SessionsManager::removeSession: MainScheduler::persistFor begins.
Logout(a) ==
  /\ MutexFree /\ Idle
  /\ a \in online
  /\ online' = online \ {a}
  /\ flushing' = {a}
  /\ busy' = a
  /\ exposed' = exposed \cup UNION {Pending(b) : b \in Accounts \ {a}}
  /\ balance' = [balance EXCEPT ![a] = {}]
  /\ refused' = refused \ {a}
  /\ UNCHANGED <<queues, direct, database, made, issued>>

\* addPendingFriendRequest, loadPendingFriendRequests, storeOfflineMailbox, addPlayer and
\* unbanPlayer, from BEGIN to COMMIT: no m_mutex.
BeginDirect ==
  /\ Idle
  /\ direct' = TRUE
  /\ UNCHANGED <<queues, flushing, online, balance, busy, database, history>>

CommitDirect ==
  /\ direct
  /\ direct' = FALSE
  /\ UNCHANGED <<queues, flushing, online, balance, busy, database, history>>

----------------------------------------------------------------------------
(* The critical sections persist and persistFor *)

\* mutant: one loop over m_databaseCallbacks serves both maps
PersistCharged ==
  /\ MutexFree
  /\ flushing' = {a \in Accounts : keyed[a] # None}
  /\ UNCHANGED <<queues, online, balance, busy, direct, database, history>>

\* The scheduler thread wakes up: MainScheduler::persist begins.
Persist ==
  /\ MutexFree
  /\ flushing' = Accounts
  /\ UNCHANGED <<queues, online, balance, busy, direct, database, history>>

\* The keys of a std::map are visited in increasing order.
FirstKey(queue) == CHOOSE k \in DOMAIN queue : \A j \in DOMAIN queue : k <= j

WriteIncremental(a) ==
  /\ a \in flushing /\ incremental[a] # << >>
  /\ LET k == FirstKey(incremental[a])
         update == incremental[a][k]
     IN  /\ incremental' = [incremental EXCEPT ![a] = Restrict(@, DOMAIN @ \ {k})]
         /\ \/ /\ ~direct
               /\ items' = items \cup update.items
               /\ charged' = [charged EXCEPT ![a] =
                                IF update.balance = None THEN @ ELSE update.balance]
               /\ UNCHANGED <<exposed, refused>>
            \/ /\ direct
               /\ exposed' = exposed \cup update.items
               /\ refused' = refused \cup ({a} \cap online)
               /\ UNCHANGED database
  /\ UNCHANGED <<keyed, lastKey, flushing, online, balance, busy, direct, made, issued>>

\* mutant: balances may be written before items
WriteKeyedFirst(a) ==
  /\ a \in flushing /\ keyed[a] # None
  /\ keyed' = [keyed EXCEPT ![a] = None]
  /\ IF direct
     THEN refused' = refused \cup ({a} \cap online) /\ UNCHANGED charged
     ELSE charged' = [charged EXCEPT ![a] = keyed[a]] /\ UNCHANGED refused
  /\ UNCHANGED <<incremental, lastKey, flushing, online, balance, busy, direct, items,
                 made, issued, exposed>>

\* After all the repetitive updates of the section.
WriteKeyed(a) ==
  /\ a \in flushing /\ keyed[a] # None
  /\ \A b \in flushing : incremental[b] = << >>
  /\ keyed' = [keyed EXCEPT ![a] = None]
  /\ IF direct
     THEN refused' = refused \cup ({a} \cap online) /\ UNCHANGED charged
     ELSE charged' = [charged EXCEPT ![a] = keyed[a]] /\ UNCHANGED refused
  /\ UNCHANGED <<incremental, lastKey, flushing, online, balance, busy, direct, items,
                 made, issued, exposed>>

\* All is written: the counter of keys restarts, and m_mutex is released.  If the session
\* of busy is gone, what ends is its logout.
Written ==
  /\ ~MutexFree
  /\ \A a \in flushing : NothingToWrite(a)
  /\ flushing' = {}
  /\ lastKey' = 0
  /\ busy' = IF busy \in online THEN busy ELSE None
  /\ UNCHANGED <<incremental, keyed, online, balance, direct, database, history>>

Writing == Written \/ \E a \in Accounts : WriteIncremental(a) \/ WriteKeyed(a)

----------------------------------------------------------------------------
(* Specification *)

\* The process ends at any moment (the /shutdown command itself calls std::terminate) and
\* starts again with what the database holds.
Crash ==
  /\ incremental' = [a \in Accounts |-> << >>]
  /\ keyed' = [a \in Accounts |-> None]
  /\ lastKey' = 0
  /\ flushing' = {}
  /\ online' = {}
  /\ busy' = None
  /\ direct' = FALSE
  /\ issued' = {}
  /\ exposed' = {}
  /\ refused' = {}
  /\ balance' = [a \in Accounts |-> {}]
  /\ UNCHANGED <<database, made>>

Init ==
  /\ incremental = [a \in Accounts |-> << >>]
  /\ keyed = [a \in Accounts |-> None]
  /\ lastKey = 0
  /\ flushing = {}
  /\ online = {}
  /\ balance = [a \in Accounts |-> {}]
  /\ busy = None
  /\ items = {}
  /\ charged = [a \in Accounts |-> {}]
  /\ made = 0
  /\ direct = FALSE
  /\ issued = {}
  /\ exposed = {}
  /\ refused = {}

Handling ==
  Charge \/ BeginDirect \/ CommitDirect
  \/ \E a \in Accounts : Login(a) \/ BuyItem(a) \/ StoreEndMatchStats(a) \/ Logout(a)

Running == Handling \/ Persist \/ Writing

Next == Running \/ Crash

\* The scheduler thread wakes up for ever (while (!m_stopRequested): nothing sets the flag
\* before the process ends) and is not starved of m_mutex; callbacks return.
Fairness == SF_vars(Persist) /\ WF_vars(Writing)

Spec == Init /\ [][Next]_vars /\ Fairness

----------------------------------------------------------------------------
(* Properties *)

\* The types of the variables; the counter of keys is only incremented and restarted.
TypeOK ==
  /\ \A a \in Accounts :
       /\ DOMAIN incremental[a] \subseteq Nat
       /\ incremental[a] \in [DOMAIN incremental[a] -> Update]
       /\ keyed[a] \in (SUBSET Transactions) \cup {None}
       /\ balance[a] \subseteq Transactions /\ charged[a] \subseteq Transactions
  /\ made \in 0 .. MaxTransactions
  /\ lastKey \in Nat
  /\ flushing \subseteq Accounts
  /\ online \subseteq Accounts
  /\ busy \in Accounts \cup {None}
  /\ direct \in BOOLEAN
  /\ refused \subseteq Accounts
  /\ items \cup issued \cup exposed \subseteq Purchases

\* While the server runs an item that was queued is either stored or still queued, unless it
\* was queued while another session was cleared, as persistFor restarts the keys for
\* everybody, or was to be written while a handler had a transaction open.
LostItemsWereExposed ==
  issued \subseteq items \cup exposed \cup UNION {Pending(a) : a \in Accounts}

\* Repetitive updates of an account reach the database in the order of the calls, with the
\* same exceptions.
StoredInOrder ==
  \A p, q \in issued :
    p.by = q.by /\ p.number < q.number /\ q \in items /\ p \in Pending(p.by)
      => p \in exposed

\* Both together: nothing that was queued is lost or overtaken while the server runs, but what
\* was exposed to persistFor's restart of the keys or to a handler's open transaction.
ItemsAreKept == LostItemsWereExposed /\ StoredInOrder

\* No price is stored without its item, even when the process ends halfway through a flush
\* or between the two halves of a purchase, with the same exceptions.  (The converse fails:
\* an item may be stored for nothing.)
ChargeFollowsItem ==
  \A a \in Accounts : charged[a] \cap issued \subseteq items \cup exposed

\* The balance that the next flush leaves in the database
Due(a) ==
  LET stats == {k \in DOMAIN incremental[a] : incremental[a][k].balance # None} IN
  IF keyed[a] # None THEN keyed[a]
  ELSE IF stats = {} THEN charged[a]
  ELSE incremental[a][CHOOSE k \in stats : \A j \in stats : j <= k].balance

\* An online player has paid for exactly the purchases that the next flush charges, however
\* purchases, rewards, flushes and logouts interleave, unless an update of the session was
\* refused: a lost price is not asked for again before the next one.  (Not so for rewards: a balance queued
\* by a purchase is written after, and over, the total of a match that ended later.)
ChargesAreDue ==
  \A a \in online \ refused : balance[a] \cap Purchases = Due(a) \cap Purchases

\* A queued item does not wait for ever.
ItemsAreStored ==
  \A p \in Purchases :
    (p \in issued) ~> (p \in items \/ p \in exposed \/ p \notin issued)

============================================================================
