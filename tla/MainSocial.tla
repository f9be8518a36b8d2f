----------------------------- MODULE MainSocial -----------------------------
(***************************************************************************)
(* What players of the main server are to each other: lists of friends and *)
(* of blocked players, friend requests and the mailbox, together with the  *)
(* sessions that hold them (SessionsManager) and the tables they are       *)
(* loaded from.                                                            *)
(*                                                                         *)
(* A session is an object at an address that may be used again once the    *)
(* connection is closed, and the lists of friends point at such objects.   *)
(* A login links the new session with those of the friends who are online, *)
(* and removeSession unlinks it; it runs when the connection is lost, and  *)
(* also when a moderator evicts the player, whose connection then stays    *)
(* open until the client goes away.  Nothing stops an account from being   *)
(* logged in twice.                                                        *)
(*                                                                         *)
(* Changes are queued per account in MainScheduler (see the module of that *)
(* name), written by its thread account by account, in any order, while it *)
(* holds m_mutex, and by persistFor when a session is removed.  What is    *)
(* loaded at a login is read without the mutex.  Two requests write at     *)
(* once: a friend request and a mail to somebody who is not online.        *)
(*                                                                         *)
(* Mails are told apart by the other player's name and the second they     *)
(* were sent in; what they say is left out, and so is isNew.  A table of   *)
(* pairs is a set where duplicate rows make no difference.                 *)
(***************************************************************************)
EXTENDS Naturals, FiniteSets, Bags, Functions, SequencesExt

CONSTANTS
  Accounts,
  Sessions,       \* addresses of Session objects
  MaxFriends,     \* maxFriends
  MaxMailboxes,   \* maxMailboxes
  Seconds,        \* what time(0) returns; nothing is assumed of its order
  MaxEvents,      \* bound of the model: logins, requests and evictions
  None

ASSUME ConstantsAssumption ==
  /\ IsFiniteSet(Accounts) /\ IsFiniteSet(Sessions)
  /\ {MaxFriends, MaxMailboxes, MaxEvents} \subseteq Nat
  /\ None \notin Accounts \cup Sessions

VARIABLES
  account,    \* session -> m_accountInfo.accountID, or None where no connection is open
  listed,     \* m_sessionsBySessionId
  friends,    \* m_friends: session -> account -> session or None (nullptr)
  blocked,    \* m_blockedAccounts: session -> bag of accounts
  received,   \* m_mailboxReceived: session -> bag of mails
  sent,       \* m_mailboxSent
  asked,      \* external: session -> accounts whose friend request its client shows
  db,         \* the tables Friendlist, PendingFriendRequests, BlockedPlayers, Mailbox
  queue,      \* m_databaseCallbacksIncremental: account -> key -> update
  lastKey,    \* m_incrementalDifferentiationKey
  flushing,   \* accounts the scheduler thread has still to write; {} when m_mutex is free
  events,     \* number of logins, requests and evictions so far
  undefined,  \* a pointer to an object that is gone has been followed
  irregular,  \* history: accounts logged in twice at once, or evicted and still talking
  unsettled,  \* history: accounts whose lists may differ from what is stored and queued
  disputed,   \* history: pairs whose rows depend on the order of writing, or on a lost update
  twins       \* history: mails that were deleted while another had the same second

lists == <<friends, blocked, received, sent>>
scheduler == <<queue, lastKey, flushing>>
history == <<irregular, unsettled, disputed, twins>>
vars == <<account, listed, lists, asked, db, scheduler, events, undefined, history>>

Mails == [peer : Accounts, second : Seconds]
Rows == [owner : Accounts, mail : Mails, sent : BOOLEAN]

\* Queued calls of PersistentDatabase
Updates ==
  [op : {"addFriend", "removeFriend", "blockPlayer", "unblockPlayer"},
   who : Accounts, whom : Accounts]
  \cup [op : {"storeMailbox"}, row : Rows]
  \cup [op : {"deleteMailbox"}, who : Accounts, second : Seconds, sent : BOOLEAN]

NoUpdates == << >>
NoList == << >>

IsFriendUpdate(u) == u.op \in {"addFriend", "removeFriend"}
Pair(u) == {u.who, u.whom}
QueuedUpdates(a) == Range(queue[a])
QueuedPairs(a) == {Pair(u) : u \in {v \in QueuedUpdates(a) : IsFriendUpdate(v)}}

SessionsOf(a) == {s \in listed : account[s] = a}

----------------------------------------------------------------------------
(* The tables *)

Without(B, Gone(_)) == Restrict(B, {e \in DOMAIN B : ~Gone(e)})

FriendRowAdded(u, d) == [d EXCEPT !.friends = @ \cup {<<u.who, u.whom>>}]

FriendRowsRemoved(u, d) ==
  [d EXCEPT !.friends = @ \ {<<u.who, u.whom>>, <<u.whom, u.who>>}]

BlockRowAdded(u, d) == [d EXCEPT !.blocks = @ (+) SetToBag({<<u.who, u.whom>>})]

BlockRowsRemoved(u, d) ==
  [d EXCEPT !.blocks = Without(@, LAMBDA row : row = <<u.who, u.whom>>)]

MailRowAdded(u, d) == [d EXCEPT !.mail = @ (+) SetToBag({u.row})]

MailRowsRemoved(u, d) ==
  [d EXCEPT !.mail = Without(@, LAMBDA row : /\ row.owner = u.who
                                             /\ row.mail.second = u.second
                                             /\ row.sent = u.sent)]

Apply(u, d) ==
  CASE u.op = "addFriend" -> FriendRowAdded(u, d)
    [] u.op = "removeFriend" -> FriendRowsRemoved(u, d)
    [] u.op = "blockPlayer" -> BlockRowAdded(u, d)
    [] u.op = "unblockPlayer" -> BlockRowsRemoved(u, d)
    [] u.op = "storeMailbox" -> MailRowAdded(u, d)
    [] u.op = "deleteMailbox" -> MailRowsRemoved(u, d)

\* The updates of an account are called in the order of their keys.
ApplyQueue(a, d) ==
  LET last == Max(DOMAIN queue[a] \cup {0})
      After[k \in 0 .. last] ==
        IF k = 0 THEN d
        ELSE IF k \in DOMAIN queue[a] THEN Apply(queue[a][k], After[k - 1])
        ELSE After[k - 1]
  IN After[last]

----------------------------------------------------------------------------
(* MainScheduler *)

Queue(q, key, a, u) == [q EXCEPT ![a] = (key :> u) @@ @]

\* Pairs that a call joins to a queue while another account's queue holds the opposite one.
Disputes(calls) ==
  {Pair(c[2]) : c \in {x \in Range(calls) :
     IsFriendUpdate(x[2]) /\ \E other \in Accounts \ {x[1]} : \E u \in QueuedUpdates(other) :
       IsFriendUpdate(u) /\ Pair(u) = Pair(x[2]) /\ u.op # x[2].op}}

\* addRepetitiveCallback, for each <<account, update>> of a sequence
Enqueue(calls) ==
  /\ flushing = {}
  /\ queue' = FoldLeft(LAMBDA q, i : Queue(q, lastKey + i, calls[i][1], calls[i][2]),
                       queue, [i \in DOMAIN calls |-> i])
  /\ lastKey' = lastKey + Len(calls)
  /\ disputed' = disputed \cup Disputes(calls)
  /\ UNCHANGED flushing

\* The scheduler thread writes the updates of account a.  The counter restarts when all
\* are written.
Persist(a) ==
  LET toWrite == IF flushing = {} THEN {c \in Accounts : queue[c] # NoUpdates}
                 ELSE flushing IN
  /\ ~undefined
  /\ a \in toWrite
  /\ db' = ApplyQueue(a, db)
  /\ queue' = [queue EXCEPT ![a] = NoUpdates]
  /\ flushing' = toWrite \ {a}
  /\ lastKey' = IF flushing' = {} THEN 0 ELSE lastKey
  /\ UNCHANGED <<account, listed, lists, asked, events, undefined, history>>

\* Session::clear: persistFor restarts the counter although others have updates queued.
\* Their order, and whether they are kept at all, is then left to what they queue next.
PersistFor(a) ==
  LET others == {c \in Accounts \ {a} : queue[c] # NoUpdates}
      pairs == UNION {QueuedPairs(c) : c \in others} IN
  /\ flushing = {}
  /\ db' = ApplyQueue(a, db)
  /\ queue' = [queue EXCEPT ![a] = NoUpdates]
  /\ lastKey' = 0
  /\ disputed' = disputed \cup pairs
  /\ unsettled' = unsettled \cup others \cup UNION pairs
  /\ UNCHANGED flushing

----------------------------------------------------------------------------
(* Sessions *)

\* m_friends: b is listed, and its session is t; None when it has none or is leaving.
\* Session::updateFriendSession does nothing when there is no session to speak of.
UpdateFriend(f, b, t) == (b :> t) @@ f

\* mutant: friends are not told
UnlinkNobody(s, kept) == friends' = [friends EXCEPT ![s] = kept] /\ UNCHANGED undefined

\* SessionsManager::removeSession tells the friends of s; `kept' is what s itself is left with.
\* A friend pointer that leads to no object is undefined.
Unlink(s, kept) ==
  LET linked == Range(friends[s]) \ {None} IN
  /\ friends' = [p \in Sessions |->
       IF p = s THEN kept
       ELSE IF p \in linked /\ account[p] # None THEN UpdateFriend(friends[p], account[s], None)
       ELSE friends[p]]
  /\ undefined' = (\E p \in linked : account[p] = None)

\* mutant: the session stays in the map
UnlinkOnly(s, kept) ==
  /\ Unlink(s, kept)
  /\ PersistFor(account[s])
  /\ UNCHANGED listed

RemoveSession(s, kept) ==
  /\ Unlink(s, kept)
  /\ PersistFor(account[s])
  /\ listed' = listed \ {s}

\* A moderator removes the session of a player (/disconnect, /ban).  The client is told to
\* leave; until it does, what it sends is still handled.
Evict(s) ==
  /\ ~undefined
  /\ s \in listed
  /\ events < MaxEvents
  /\ events' = events + 1
  /\ RemoveSession(s, friends[s])
  /\ UNCHANGED <<account, blocked, received, sent, asked, irregular, twins>>

\* The connection is lost: removeSession, unless it has been called, and the object goes away.
Disconnect(s) ==
  /\ ~undefined
  /\ account[s] # None
  /\ IF s \in listed
     THEN RemoveSession(s, NoList)
     ELSE /\ friends' = [friends EXCEPT ![s] = NoList]
          /\ UNCHANGED <<listed, db, scheduler, undefined, disputed, unsettled>>
  /\ account' = [account EXCEPT ![s] = None]
  /\ blocked' = [blocked EXCEPT ![s] = EmptyBag]
  /\ received' = [received EXCEPT ![s] = EmptyBag]
  /\ sent' = [sent EXCEPT ![s] = EmptyBag]
  /\ asked' = [asked EXCEPT ![s] = {}]
  /\ UNCHANGED <<events, irregular, twins>>

Stored(a) == {b \in Accounts : <<a, b>> \in db.friends}
StoredBlocked(a, d) == [b \in {c \in Accounts : <<a, c>> \in DOMAIN d.blocks} |->
                          d.blocks[<<a, b>>]]
StoredMail(a, isSent, d) ==
  [m \in {x \in Mails : [owner |-> a, mail |-> x, sent |-> isSent] \in DOMAIN d.mail} |->
     d.mail[[owner |-> a, mail |-> m, sent |-> isSent]]]

\* The friends of a who are online, and a session of a, are linked both ways.
\* getSessionByAccountId finds one of the account's sessions.
Link(s, a) ==
  \E me \in SessionsOf(a) \cup {s} : \E found \in [Stored(a) -> Sessions \cup {None}] :
    /\ \A b \in Stored(a) : IF SessionsOf(b) = {} THEN found[b] = None
                            ELSE found[b] \in SessionsOf(b)
    /\ friends' = [p \in Sessions |->
         IF p = s THEN found
         ELSE IF p \in Range(found) THEN UpdateFriend(friends[p], a, me)
         ELSE friends[p]]

\* handleAccountInformation.  Nothing is known of what is queued: an account whose friends
\* have changed something that is not written yet starts with the lists of before, and hands
\* itself to friends who may have dropped it.
Login(s, a) ==
  LET pairs == {p \in UNION {QueuedPairs(c) : c \in Accounts} : a \in p}
      alone == \A x \in Sessions : account[x] # a
      handed == {b \in Stored(a) : <<b, a>> \notin db.friends} IN
  /\ ~undefined
  /\ account[s] = None
  /\ events < MaxEvents
  /\ events' = events + 1
  /\ account' = [account EXCEPT ![s] = a]
  /\ listed' = listed \cup {s}
  /\ Link(s, a)
  /\ blocked' = [blocked EXCEPT ![s] = StoredBlocked(a, db)]
  /\ sent' = [sent EXCEPT ![s] = StoredMail(a, TRUE, db)]
  /\ received' = [received EXCEPT ![s] = StoredMail(a, FALSE, db)]
  /\ asked' = [asked EXCEPT ![s] = {}]
  /\ irregular' = IF SessionsOf(a) = {} THEN irregular ELSE irregular \cup {a}
  /\ unsettled' = IF alone /\ queue[a] = NoUpdates /\ pairs = {}
                  THEN (unsettled \ {a}) \cup handed
                  ELSE unsettled \cup {a} \cup (UNION pairs) \cup handed
  /\ UNCHANGED <<db, scheduler, undefined, disputed, twins>>

\* The process ends; only the tables are left.
Crash ==
  /\ account' = [s \in Sessions |-> None]
  /\ listed' = {}
  /\ friends' = [s \in Sessions |-> NoList]
  /\ blocked' = [s \in Sessions |-> EmptyBag]
  /\ received' = [s \in Sessions |-> EmptyBag]
  /\ sent' = [s \in Sessions |-> EmptyBag]
  /\ asked' = [s \in Sessions |-> {}]
  /\ queue' = [a \in Accounts |-> NoUpdates]
  /\ lastKey' = 0
  /\ flushing' = {}
  /\ undefined' = FALSE
  /\ irregular' = {}
  /\ unsettled' = {}
  /\ disputed' = disputed \cup UNION {QueuedPairs(a) : a \in Accounts}
  /\ UNCHANGED <<db, events, twins>>

----------------------------------------------------------------------------
(* Friends *)

\* A request of the client of session s; an evicted one makes its account irregular.
Talk(s) ==
  /\ ~undefined
  /\ account[s] # None
  /\ events < MaxEvents
  /\ events' = events + 1
  /\ irregular' = IF s \in listed THEN irregular ELSE irregular \cup {account[s]}

Unsettling(calls, also) == unsettled' = unsettled \cup also \cup UNION Disputes(calls)

FriendCount(s) == Cardinality(DOMAIN friends[s])
HasBlocked(s, a) == BagIn(a, blocked[s])

\* FRIEND_REQUEST_SENT to somebody online.
AskOnline(s, b) ==
  /\ Talk(s)
  /\ b # account[s]
  /\ FriendCount(s) <= MaxFriends
  /\ \E t \in SessionsOf(b) :
       /\ FriendCount(t) <= MaxFriends
       /\ ~HasBlocked(t, account[s])
       /\ asked' = [asked EXCEPT ![t] = @ \cup {account[s]}]
  /\ UNCHANGED <<account, listed, lists, db, scheduler, undefined,
                 unsettled, disputed, twins>>

\* FRIEND_REQUEST_SENT to somebody who is not (addPendingFriendRequest).  hasRow() is asked of
\* a statement that has not been executed: being blocked makes no difference.
AskOffline(s, b) ==
  /\ Talk(s)
  /\ b # account[s]
  /\ FriendCount(s) <= MaxFriends
  /\ SessionsOf(b) = {}
  /\ Cardinality(Stored(b)) <= MaxFriends
  /\ db' = [db EXCEPT !.requests = @ \cup {<<b, account[s]>>}]
  /\ UNCHANGED <<account, listed, lists, asked, scheduler, undefined,
                 unsettled, disputed, twins>>

\* handleFriendList: loadPendingFriendRequests deletes what it loads.
ListFriends(s) ==
  LET pending == {row \in db.requests : row[1] = account[s]} IN
  /\ Talk(s)
  /\ pending # {}
  /\ asked' = [asked EXCEPT ![s] = @ \cup {row[2] : row \in pending}]
  /\ db' = [db EXCEPT !.requests = @ \ pending]
  /\ UNCHANGED <<account, listed, lists, scheduler, undefined, unsettled, disputed, twins>>

Befriend(a, b) == [op |-> "addFriend", who |-> a, whom |-> b]

\* Player::addOnlineFriend, or addOfflineFriend where t is None
AddFriend(f, b, t) == (b :> t) @@ f

\* INCOMING_FRIEND_REQUEST_ACCEPTED, the sender being online: each queues a row of its own.
AcceptOnline(s, b) ==
  LET calls == <<<<b, Befriend(b, account[s])>>, <<account[s], Befriend(account[s], b)>>>> IN
  /\ Talk(s)
  /\ b \in asked[s]
  /\ \E t \in SessionsOf(b) :
       friends' = [friends EXCEPT ![t] = AddFriend(@, account[s], s), ![s] = AddFriend(@, b, t)]
  /\ asked' = [asked EXCEPT ![s] = @ \ {b}]
  /\ Enqueue(calls) /\ Unsettling(calls, {})
  /\ UNCHANGED <<account, listed, blocked, received, sent, db, undefined, twins>>

\* The same when the sender has gone: both rows are queued for the one who accepts.
AcceptOffline(s, b) ==
  LET a == account[s]
      calls == <<<<a, Befriend(a, b)>>, <<a, Befriend(b, a)>>>> IN
  /\ Talk(s)
  /\ b \in asked[s]
  /\ SessionsOf(b) = {}
  /\ friends' = [friends EXCEPT ![s] = AddFriend(@, b, None)]
  /\ asked' = [asked EXCEPT ![s] = @ \ {b}]
  /\ Enqueue(calls) /\ Unsettling(calls, {})
  /\ UNCHANGED <<account, listed, blocked, received, sent, db, undefined, twins>>

Unfriend(a, b) == [op |-> "removeFriend", who |-> a, whom |-> b]
Drop(f, a) == Restrict(f, DOMAIN f \ {a})

\* Session::deleteFriend, of s and of the session t of the other account, if there is one.
DropBoth(s, t, b) ==
  friends' = [p \in Sessions |-> IF p = s THEN Drop(friends[p], b)
                                 ELSE IF p = t THEN Drop(friends[p], account[s])
                                 ELSE friends[p]]

\* handleFriendDeletion.  The list of the client shows the friends of its session.
DeleteFriend(s, b) ==
  LET calls == <<<<account[s], Unfriend(account[s], b)>>>> IN
  /\ Talk(s)
  /\ b \in DOMAIN friends[s]
  /\ \E t \in IF SessionsOf(b) = {} THEN {None} ELSE SessionsOf(b) : DropBoth(s, t, b)
  /\ Enqueue(calls) /\ Unsettling(calls, {})
  /\ UNCHANGED <<account, listed, blocked, received, sent, asked, db, undefined, twins>>

BlockAccount(s, b) == blocked' = [blocked EXCEPT ![s] = @ (+) SetToBag({b})]
BlockCall(a, b) == <<a, [op |-> "blockPlayer", who |-> a, whom |-> b]>>

\* handlePlayerBlock: only somebody online can be blocked, and once more if blocked already.
Block(s, b) ==
  LET a == account[s]
      calls == <<BlockCall(a, b), <<a, Unfriend(a, b)>>>> IN
  /\ Talk(s)
  /\ b # a
  /\ \E t \in SessionsOf(b) : DropBoth(s, t, b)
  /\ BlockAccount(s, b)
  /\ Enqueue(calls) /\ Unsettling(calls, {})
  /\ UNCHANGED <<account, listed, received, sent, asked, db, undefined, twins>>

\* Player::unblockAccount: the first entry goes.
UnblockAccount(s, b) == blocked' = [blocked EXCEPT ![s] = @ (-) SetToBag({b})]
UnblockCall(a, b) == <<a, [op |-> "unblockPlayer", who |-> a, whom |-> b]>>

\* handlePlayerUnblock: one entry of the list goes, and every row of the table.
Unblock(s, b) ==
  LET a == account[s]
      calls == <<UnblockCall(a, b)>> IN
  /\ Talk(s)
  /\ HasBlocked(s, b)
  /\ UnblockAccount(s, b)
  /\ Enqueue(calls)
  /\ Unsettling(calls, IF CopiesIn(b, blocked[s]) > 1 THEN {a} ELSE {})
  /\ UNCHANGED <<account, listed, friends, received, sent, asked, db, undefined, twins>>

----------------------------------------------------------------------------
(* Mailbox *)

Store(a, m, isSent) ==
  [op |-> "storeMailbox", row |-> [owner |-> a, mail |-> m, sent |-> isSent]]

AddMailbox(box, m) == box (+) SetToBag({m})

\* handleMailboxCommunication, to somebody online.
MailOnline(s, b, now) ==
  LET a == account[s]
      incoming == [peer |-> a, second |-> now]
      outgoing == [peer |-> b, second |-> now]
      calls == <<<<b, Store(b, incoming, FALSE)>>, <<a, Store(a, outgoing, TRUE)>>>> IN
  /\ Talk(s)
  /\ b # a
  /\ BagCardinality(sent[s]) <= MaxMailboxes
  /\ \E t \in SessionsOf(b) :
       /\ BagCardinality(received[t]) <= MaxMailboxes
       /\ ~HasBlocked(t, a)
       /\ received' = [received EXCEPT ![t] = AddMailbox(@, incoming)]
  /\ sent' = [sent EXCEPT ![s] = AddMailbox(@, outgoing)]
  /\ Enqueue(calls) /\ Unsettling(calls, {})
  /\ UNCHANGED <<account, listed, friends, blocked, asked, db, undefined, twins>>

\* The same to somebody who is not: storeOfflineMailbox writes at once, and asks neither
\* whether there is room nor whether the sender is blocked.
MailOffline(s, b, now) ==
  LET a == account[s]
      incoming == [peer |-> a, second |-> now]
      outgoing == [peer |-> b, second |-> now]
      calls == <<<<a, Store(a, outgoing, TRUE)>>>> IN
  /\ Talk(s)
  /\ b # a
  /\ BagCardinality(sent[s]) <= MaxMailboxes
  /\ SessionsOf(b) = {}
  /\ db' = [db EXCEPT !.mail = @ (+) SetToBag({Store(b, incoming, FALSE).row})]
  /\ sent' = [sent EXCEPT ![s] = AddMailbox(@, outgoing)]
  /\ Enqueue(calls) /\ Unsettling(calls, {})
  /\ UNCHANGED <<account, listed, friends, blocked, received, asked, undefined, twins>>

\* mutant: the row of the other list is deleted
DeleteOtherCall(a, second, isSent) ==
  [op |-> "deleteMailbox", who |-> a, second |-> second, sent |-> ~isSent]

DeleteCall(a, second, isSent) ==
  [op |-> "deleteMailbox", who |-> a, second |-> second, sent |-> isSent]

\* Player::deleteSentMailbox and deleteReceivedMailbox: one mail goes.
DeleteMailbox(box, m) == box (-) SetToBag({m})

\* handleMailboxDelete: the client names the second; the first mail of that second leaves the
\* list, and all of them leave the table.
DeleteMail(s, isSent, second) ==
  LET a == account[s]
      box == IF isSent THEN sent[s] ELSE received[s]
      those == {m \in DOMAIN box : m.second = second}
      calls == <<<<a, DeleteCall(a, second, isSent)>>>> IN
  /\ Talk(s)
  /\ \E m \in those :
       IF isSent
       THEN sent' = [sent EXCEPT ![s] = DeleteMailbox(@, m)] /\ UNCHANGED received
       ELSE received' = [received EXCEPT ![s] = DeleteMailbox(@, m)] /\ UNCHANGED sent
  /\ twins' = IF BagCardinality(Restrict(box, those)) > 1
              THEN twins \cup {<<a, isSent, second>>} ELSE twins
  /\ Enqueue(calls) /\ Unsettling(calls, {})
  /\ UNCHANGED <<account, listed, friends, blocked, asked, db, undefined>>

----------------------------------------------------------------------------

\* The tables hold what earlier runs have left: requests nobody has seen, and friends or none.
OrderedPairs == {r \in Accounts \X Accounts : r[1] # r[2]}

Init ==
  /\ account = [s \in Sessions |-> None]
  /\ listed = {}
  /\ friends = [s \in Sessions |-> NoList]
  /\ blocked = [s \in Sessions |-> EmptyBag]
  /\ received = [s \in Sessions |-> EmptyBag]
  /\ sent = [s \in Sessions |-> EmptyBag]
  /\ asked = [s \in Sessions |-> {}]
  /\ db \in [friends : {{}, OrderedPairs}, requests : {OrderedPairs},
             blocks : {EmptyBag}, mail : {EmptyBag}]
  /\ queue = [a \in Accounts |-> NoUpdates]
  /\ lastKey = 0
  /\ flushing = {}
  /\ events = 0
  /\ undefined = FALSE
  /\ irregular = {} /\ unsettled = {} /\ disputed = {} /\ twins = {}

Next ==
  \/ \E a \in Accounts : Persist(a)
  \/ \E s \in Sessions :
       \/ Evict(s) \/ Disconnect(s) \/ ListFriends(s)
       \/ \E a \in Accounts :
            \/ Login(s, a)
            \/ AskOnline(s, a) \/ AskOffline(s, a)
            \/ AcceptOnline(s, a) \/ AcceptOffline(s, a)
            \/ DeleteFriend(s, a) \/ Block(s, a) \/ Unblock(s, a)
            \/ \E now \in Seconds : MailOnline(s, a, now) \/ MailOffline(s, a, now)
       \/ \E isSent \in BOOLEAN, second \in Seconds : DeleteMail(s, isSent, second)
  \/ Crash

Spec == Init /\ [][Next]_vars

----------------------------------------------------------------------------
(* Properties *)

\* The variables have their types.
TypeOK ==
  /\ account \in [Sessions -> Accounts \cup {None}]
  /\ listed \subseteq {s \in Sessions : account[s] # None}
  /\ \A s \in Sessions : /\ DOMAIN friends[s] \subseteq Accounts
                         /\ Range(friends[s]) \subseteq Sessions \cup {None}
                         /\ IsABag(blocked[s]) /\ DOMAIN blocked[s] \subseteq Accounts
                         /\ IsABag(received[s]) /\ DOMAIN received[s] \subseteq Mails
                         /\ IsABag(sent[s]) /\ DOMAIN sent[s] \subseteq Mails
  /\ asked \in [Sessions -> SUBSET Accounts]
  /\ db.friends \subseteq Accounts \X Accounts /\ db.requests \subseteq Accounts \X Accounts
  /\ IsABag(db.blocks) /\ DOMAIN db.blocks \subseteq Accounts \X Accounts
  /\ IsABag(db.mail) /\ DOMAIN db.mail \subseteq Rows
  /\ \A a \in Accounts : /\ DOMAIN queue[a] \subseteq Nat \ {0}
                         /\ QueuedUpdates(a) \subseteq Updates
  /\ lastKey \in Nat /\ flushing \subseteq Accounts
  /\ events \in 0 .. MaxEvents /\ undefined \in BOOLEAN
  /\ irregular \subseteq Accounts /\ unsettled \subseteq Accounts
  /\ disputed \subseteq SUBSET Accounts /\ twins \subseteq Accounts \X BOOLEAN \X Seconds

\* The session that an entry of a list of friends points at exists and is that friend's:
\* removeSession and what is sent to friends follow these pointers (MainSessionManager.cpp:26).
\* It takes an account that was logged in twice, or an evicted client that goes on talking, to
\* leave one that does not.
FriendPointersAlive ==
  \A s \in listed : \A b \in DOMAIN friends[s] :
    {account[s], b} \cap irregular = {} /\ friends[s][b] # None =>
      friends[s][b] \in listed /\ account[friends[s][b]] = b

\* Two players online who have each other as friends see each other online, whichever of them
\* came first and however they became friends; and once nothing is queued about two accounts,
\* both of their lists are stored with the other in it, or neither, unless both sides had
\* opposite changes queued or a change was queued while the other's session was removed.
FriendsSeeEachOther ==
  /\ \A s, t \in listed :
       /\ {account[s], account[t]} \cap irregular = {}
       /\ account[t] \in DOMAIN friends[s] /\ account[s] \in DOMAIN friends[t]
       => friends[s][account[t]] = t /\ friends[t][account[s]] = s
  /\ \A a, b \in Accounts :
       {a, b} \notin disputed \cup UNION {QueuedPairs(c) : c \in Accounts} =>
         (<<a, b>> \in db.friends <=> <<b, a>> \in db.friends)

\* Both together: friends are linked both ways, to sessions that exist, or not at all.
FriendsAgree == FriendPointersAlive /\ FriendsSeeEachOther

\* The tables when everything queued is written, in some order of the accounts
Orders == SetToSeqs(Accounts)
Outcome(order) == FoldLeft(LAMBDA d, a : ApplyQueue(a, d), db, order)

\* The lists of friends and of blocked players that a player sees are what a later login will
\* load, in whatever order the accounts are written; except for accounts that logged in while
\* something about them was queued, and the other cases of `unsettled'.
ListsAsStored ==
  \A s \in listed : account[s] \notin irregular \cup unsettled =>
    \A order \in Orders : LET d == Outcome(order) IN
      /\ \A b \in Accounts \ irregular :
           b \in DOMAIN friends[s] <=> <<account[s], b>> \in d.friends
      /\ blocked[s] = StoredBlocked(account[s], d)

MailOfOtherSeconds(box, a, isSent) ==
  Restrict(box, {m \in DOMAIN box : <<a, isSent, m.second>> \notin twins})

\* A player's mail is what a later login will load: no mail is stored twice, lost or left
\* behind; except for seconds out of which one of several mails was deleted.
MailAsStored ==
  \A s \in listed : account[s] \notin irregular \cup unsettled =>
    \A order \in Orders : LET d == Outcome(order) IN
      /\ MailOfOtherSeconds(sent[s], account[s], TRUE)
         = MailOfOtherSeconds(StoredMail(account[s], TRUE, d), account[s], TRUE)
      /\ MailOfOtherSeconds(received[s], account[s], FALSE)
         = MailOfOtherSeconds(StoredMail(account[s], FALSE, d), account[s], FALSE)

\* Both together: what a player sees of friends, blocked players and mails is what the queue
\* and the tables will make of it.
StoredAsShown == ListsAsStored /\ MailAsStored

=============================================================================
