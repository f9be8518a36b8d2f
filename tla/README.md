# MV-Emulator in TLA+

A verification development for MV-Emulator, a C++ server emulator for a
multiplayer shooter.  It models what the main, cast and auth servers keep
between two requests and what they do to it: rooms and matches, the write-behind
queue to the database, items and trades, friends and mails, accounts and
sanctions, the relay of a match's packets, and the connection itself down to
its bytes.  TLC checks the models on small instances; TLAPS proves the
invariants of the rooms, the scheduler, the trades and the session ids for
every size.

All paths below are relative to the repository (`src/` is its root).

## 1. The system

Three processes, each an asio `io_context` run by one thread:

* **auth server** (`AuthServer/`): one query and one update per login, then the
  client goes on to the main server;
* **main server** (`MainServer/`): lobby, rooms, inventory, shop, trades,
  friends, mailbox, chat commands.  A second thread, `MainScheduler`, writes
  queued changes to an SQLite file, which the auth server opens as well;
* **cast server** (`CastServer/`): relays the packets of a match among the
  players of a room.

`Common/` holds what they share: sessions and framing, packets, encryption,
the pool of session ids.  `ConstantDatabase/` holds read-only tables.

| Component | State | Operations | Talks to |
|---|---|---|---|
| Rooms of the main server: `Room.cpp`, `RoomsManager.cpp`, `Handlers/Room` | `m_players`, `m_observerPlayers` (host first), kicked list, match flag, mode, teams, settings; per session `m_roomNumber`, `m_isInLobby`, `m_isInMatch` | create, list, join, leave, kick, change host, switch team, ready, settings, start, leave and end a match, `/kick`, `/breakroom` | sessions, by raw pointers in the vectors |
| Sessions of the main server: `MainSessionManager.cpp`, `MainSession.cpp`, `Player.cpp` | map of live sessions, one `Player` each | add, remove (from rooms, friends, scheduler) | rooms, friends, scheduler |
| Scheduler: `MainScheduler.cpp` | two maps of queued updates, a counter of keys, a mutex | `addCallback`, `addRepetitiveCallback`, `persist`, `persistFor` | handlers (by the mutex), database |
| Items: `Player.cpp`, `Handlers/Item`, equipment, capsules | items by number, equipped items per character, balances | buy, spin, equip, unequip, delete, refund, upgrade, energy, character selection | scheduler, trades |
| Trades: `Handlers/Trade`, `Player.cpp` | per player: partner, offer, confirmation, state, items by number | ask, accept, decline, add, remove, lock, finalize, cancel | the partner, looked up by account id |
| Friends, mailbox: `Handlers/Player/Friends`, `Mailbox.cpp` | lists with raw session pointers; messages in the database | request, accept, refuse, remove, block, unblock; send, load, delete | sessions, scheduler, database (without the mutex) |
| Accounts: `AuthServer/`, `AuthorizationHandler.h`, `ChatCommands` | status, nickname, bans and mutes in the table; the mute of a session | log in, log out, ban, mute and their contraries, disconnect, rename | both servers' connections to one file |
| Rooms of the cast server: `CastServer/src/Classes` | session id -> shared `Room`; per room a map and a vector of raw pointers | create, join or leave (one packet), crash report | the client only; ids of the main server |
| Relay of the cast server: `CastServer/include/Handlers` | counters of attacks per session id | one handler per order, to one, all or the others | rooms |
| Session ids: `SessionIdManager.h` | a stack of free ids, per process | take, release | constructor and destructor of `Session` |
| Connection: `Common/src/Network` | bytes read so far, the key | `onRead`, `asyncWrite`, `closeSocket` | every handler |
| Main-to-cast shared memory: `Utils/IPC_Structs.h` | one word per room | written; the call that reads it is commented out | nobody |

What makes these hard:

* *Handlers trust pointers and copies.*  Where a player is, is recorded in
  three fields of the player and two vectors of the room; a trade exists only
  as two players' ideas of each other; a friend is a raw pointer in a list.
* *Memory is ahead of the database.*  Handlers change the session and queue the
  row; the queue is written by another thread, account by account in the order
  of a hash map, and read back at the next login.
* *Two threads and two processes share the database.*  Some handlers write
  without the mutex; the auth server locks the file when it likes.
* *Two processes follow the same rooms.*  The main server never tells the cast
  server about membership; the client does, on a connection of its own.
* *Connections end at any moment*, and so does the server.

What correctness means for each component is said with its module below; every
place where the code is exposed is in the hazard list of `PROJECT.json`.

## 2. Modules

| Module | Kind | Models |
|---|---|---|
| `RoomDirectory` | abstract specification | what rooms promise: numbers never reused, nobody in two rooms |
| `MainRooms` | component, implements `RoomDirectory` | rooms, sessions and disconnects of the main server |
| `MainMatch` | composition with `MainRooms` | teams, modes, switches in flight, results and batteries |
| `MainScheduler` | component, two threads | scheduler, purchase, reward, direct writers, login and logout, crash |
| `MainInventory` | component | one account's items and purse: session, queue and tables |
| `MainTrade` | component | the seven trade handlers, and equipping |
| `MainSocial` | component, two threads | friends, blocked players, mails, sessions at reused addresses |
| `MainAccounts` | composition of two servers | auth and main login, status, bans, mutes, names on a shared file |
| `SessionIds` | operators | `SessionIdManager` |
| `CastRooms` | composition of two servers | rooms of the cast server, ids of both, clients in between |
| `CastRelay` | component | every order the cast server forwards, and the limits on attacks |
| `Crypt` | operators | RC5, RC6 and the key schedule, the headers of a packet |
| `CommonSession` | component | one connection over TCP, byte by byte, with both sides' encryption |
| `MC...` | for TLC | symmetry, views, and values of constants |
| `Vectors` | operators | vectors from which elements are taken, without recursion (`AtPositions`) |
| `MainRoomsProofs`, `MainMatchProofs`, `MainSchedulerProofs`, `MainTradeProofs`, `MainInventoryProofs`, `MainAccountsProofs`, `CastRoomsProofs`, `CastRelayProofs` | proofs | see section 5; where they need them, they begin with lemmas about vectors (`push_back`, `erase`, `swap`, filters), least and greatest keys, and counting |

Definitions keep the names of the functions they model; `PROJECT.json` maps each
to its lines.  A handler runs to its end on the `io_context` thread, so it is
one action.  Where the code reads memory it has no right to, the model stops
(`undefined`, `stopped`, `astray`) or takes the values the build could find.

Many properties hold *but for* known ways of losing them.  A history variable
records each way where it happens (`exposed`, `careless`, `irregular`, `excused`,
`unsure` ...), at the line of the code that opens it, and the property says that
there is no other.  So a run shows two things: how the code fails, and that it
fails in no other way.  These variables guard actions only as bounds of the model, or
where they say what a client still believes.

### MainRooms

A player stands for an account and its one session.  A room is a record of the
two vectors, the READY members, the kicked accounts and three settings.
`RemovePlayer` and `RemoveHostFromMatch` are the functions of that name in
`Room.cpp`, with `removeRoom` where the caller closes the room.  Pings decide
who becomes host; they are not modelled, so any candidate may be it.  Titles,
maps and passwords are left out, and a request that is only refused
(wrong password, unknown room, unsupported mode) is a stuttering step.

`Spec` admits every request from every screen of the client, as the server does
not check (only entering a room is confined to the lobby: a client that is in a
room does not ask).  `PlaySpec` admits requests from the screens that offer
them, without chat commands.

Details that are easy to miss:

* `Room::kickPlayer` goes on reading the vector slot through the reference of
  its range-for after `removePlayer` has erased it.  The storage of the vector
  is still there: the slot holds the player who moved into it, or still the
  kicked one when it was the last (`StaleSlot`); so `/kick` bans and moves to the
  lobby list whoever moved into the slot.
* `removeHostFromMatch` chooses between its three branches by `m_players` only;
  observers stay flagged as in the match when the second is taken.
  `NobodyLeftInMatch` is therefore about players.
* `handleRoomCreation` draws a number before it checks the limit of rooms.
* `changehost` as a chat command is not registered, and the duplicate check of
  `addPlayer` cannot fire; neither is modelled.

*Correct means:* `RoomsConsistent`: sessions and rooms tell the same story
(`MembersAgree`), nobody holds two seats (`SeatedOnce`), no pointer outlives its
session (`MembersOnline`), matches are inside rooms (`InMatchInsideRoom`);
`SeatsRespected`: nobody enters a full room; and, of orderly clients,
`EverybodyInPlace`: matches keep a host and leave nobody behind
(`MatchHasItsHost`, `NobodyLeftInMatch`), the kicked stay out (`KickedAreOut`), the
lobby list is right (`LobbyOrRoom`).  The whole implements `RoomDirectory`.

### MainMatch

`MainMatch` adds to `MainRooms` what a room's members are told and earn.  Each of
its steps is a step of `MainRooms` (its instance `R`) together with what that
handler does to teams and results.  `team` is the server's team of a player,
`told` the one that the clients show, `request` a switch on its way: the client
asks from what it is shown, and the answer repeats the request.  One room is open at a
time (`mode` is its mode): no handler modelled here looks beyond the room of its sender.

* `handleRoomMiscellaneous` announces the team that was asked for
  (`RoomMiscHandler.h:58`), although `changePlayerTeam` may refuse, toggle, or choose
  the emptier side for an observer.  A switch that meets another situation than
  it was sent in makes the clients wrong about that player (`misled`).
* The creator of a room is blue, whatever the mode; teams after a change of mode
  are told to nobody; the team chat of an observer in a mode without teams
  reaches all players.
* `handleMatchEnding` checks neither who sends it nor that a match runs; a host
  changed by hand while it is in the match lets two clients report the end
  (`hostMoved`).  A late start by a player who is not the host begins a new match
  with all READY members.
* `m_batteryObtainedInMatch` is reset only by leaving the room, so that a battery
  is stored again with the next result (`stayed`).

*Correct means:* `TeamsAsTold` (clients show the server's teams, and the teams fit
the mode), `TeamTalkIsPrivate`, `ResultsCountedOnce` (each result once, for the team
the player thought it was in), `BatteryCountedOnce`.

### MainScheduler

`incremental` is `m_databaseCallbacksIncremental`, per account a map from keys
to updates; `keyed` is `m_databaseCallbacks`.  The critical sections of
`persist` and `persistFor` are the steps between taking the mutex (`flushing`
becomes non-empty) and `Written`, so the database may be seen, and the process
may end, between any two writes.  A purchase is two steps, `BuyItem` and
`Charge`, because the code releases the mutex between them.  A balance is the
set of transactions it accounts for, which tells a lost update from a late one;
the total that a match stores and the total that a purchase stores go through
different queues, as in the code.  Accounts are written in any order (the maps
are hashed), the updates of one account in the order of their keys.  `Crash`
empties everything but the database and also stands for `/shutdown`.

Five functions of `PersistentDatabase` open a transaction on the `io_context`
thread without the mutex, on the same connection (`direct`).  Meanwhile the
`BEGIN` of an update throws; the update catches it and returns, and is lost
(`refused` for a balance, `exposed` for an item).

*Correct means:* `ItemsAreKept`: what is queued is stored (`LostItemsWereExposed`),
in order (`StoredInOrder`); `ChargeFollowsItem`: no price is stored without its
item; `ChargesAreDue`: what a player has paid is what the next flush charges; and
`ItemsAreStored`: nothing waits for ever.  All but for `exposed`: `persistFor`
restarts the counter of keys for everybody, so that the updates of *other*
accounts may be overwritten by later ones, and direct writers refuse updates.
So a purchase is not atomic, as the TODO at `BoughtItemHandler.h:116` fears.

### MainInventory

One account, one session at a time: two accounts share nothing here but the
queue.  `player` is the session's items, by number, and what is worn, by
character and slot; `table` and `purse` are the rows as the queued updates will
leave them.  The keyed update of an item's energy, which is written last, is a
variable of its own.  One currency stands for three, and every price is 1.
Every handler of `Handlers/Item` that changes state is an action, and so are
capsules, equipment, the character selection and the relogin, which gives every
item a new number.  The client is honest: it names items it has been told of.

What the code gets wrong, each recorded where it happens:

* an item renewed by a purchase gets serial 0, while the client keeps naming the
  old one; equipping by an unknown number makes `operator[]` create an empty item
  in a hair slot; two renewed items collide;
* an item upgraded while worn is there twice afterwards, and a refund is credited
  though nothing was removed;
* two rows worn in the same slot hide one another at the next login (`hidden`);
* the energy's update is keyed by account: that of another item replaces it, and
  it is written over an item that has taken the place;
* a lucky spin may take the balance below zero, which then wraps; the points that
  lead to it are never stored;
* with the inventory above its limit the free space is huge (unsigned), so that
  every later purchase is admitted (`overfilled`).

*Correct means:* `ItemsAsStored` (a relogin after the next flush finds every item,
once and where it was), `WealthNeverGrows`, `SpaceRespected`.

### MainTrade

`partner`, `offer`, `locked`, `state` and the items are those of `Player`.
`locked[p]` remembers whom the player confirmed for, which the code does not;
only whether it is `None` guards an action.  A `thing` is what keeps its identity
when an item changes hands; its number is given by the receiver.  `deleteItems`
stops at the first item it cannot find and undoes nothing (`DeletedItems`).
Two histories count what may go wrong from outside: `careless` (an item offered
while worn or a second time, or put on while offered) and `disturbances` (a
connection lost, a kick to the lobby or a late answer during a trade).  The
client is assumed to send trade requests only in a trade, and to keep an offer
as it is once it is confirmed, which `MainEnums.h` says of it.

*Correct means:* `ThingsConserved`: nothing is lost, without any condition, and,
without carelessness, nothing is duplicated and offers are held to the last item;
`PartnersAgree` and `ConfirmedUnlessDisturbed` without disturbances.  With a
disturbance the last fails: the exchange asks whether the partner has confirmed,
not for whom.

### MainSocial

A session is an address: `Player` objects are allocated anew and an address may be
used again by anybody.  A friend in a list is an account and such an address or
`None`.  Writes are queued as in `MainScheduler`, with its keys and its restart of
the counter by `persistFor`, and are written one at a time by the other thread;
mails and requests to players who are offline go straight to the tables.

* An account may be logged in twice, because the check of `IsOnline` is commented
  out.  `/disconnect` and `/ban` call `removeSession` but leave the socket open: the
  evicted client goes on talking, and its later removal finds nothing, so that
  friends it made meanwhile keep a pointer to freed memory.  Accounts to which
  either happened are `irregular`.
* A login reads the tables while updates about the account are queued, and the
  updates of two accounts are written in an order nobody chose (`unsettled`,
  `disputed`).
* `hasRow()` is asked without executing the statement, so a blocked player can
  still send a request to a player who is offline; mails to such players are
  checked neither for blocks nor for the limit.
* Mails are deleted by their second: all rows of that second go (`twins`).
* Blocking twice leaves two rows, of which one unblock removes one in memory.

*Correct means:* `FriendsAgree`: pointers to friends are alive
(`FriendPointersAlive`) and friendship is mutual, in memory and in the tables
(`FriendsSeeEachOther`); `StoredAsShown`: what a player sees of lists and mails is
what the next login will load, in whatever order the queue is written.

### MainAccounts

Two processes share one file.  `BeginLogin` and `EndLogin` are the auth server's
use of its connection, between which it holds a lock; the main server's writes in
between fail, are logged and dropped, while the moderator is told of a success
(`unstored`).  `EnterMain` is the main server's login, which takes the account from
whatever the auth server answered and never asks about bans.  Dates are compared
as text, so that a duration too long for the calendar, which becomes a date of a
negative year and is shown as "forever", is past at once; the time is built from UTC
and read as local (`ZoneOffset`).  `/setname` queues an update
that holds a pointer to a member of the command object, which the next command
rewrites (`misnamed`).

*Correct means:* `BannedStayOut` and `MutedStaySilent` for as long as the moderator
said, less the offset and but for writes that were lost and sessions that were
passed over (an order reaches one session of an account); `AccountsAsStored`: the
online flag is that of the session manager (`StatusAsListed`), and names are those
their owners were told (`NamesAsGiven`).

### SessionIds and CastRooms

Both servers draw ids from a stack of 500, each its own.  The client does
something on the main server and then tells the cast server (`outbox`, in order
per client); the main server is reduced to ids, rooms and hosts.  A pointer is an
id and whether its session lives; closing a connection makes the pointers to it
dangle, since `SessionsManager::addSession` of the cast server is never called and
`removeSession` finds nothing.  Following such a pointer (leaving, crashing, or
having any packet relayed in the room) is `Undefined`.  A `Room` lives as long as
an entry of `m_playerSessionIdToRoom` shares it (`Keeping`).  `mishaps` and `lost`
record what has gone wrong, so that the properties can say what they depend on.

That joins name the host by its id of the main server follows from what the
servers send: the main server tells every client its own id ("the SessionID that
the client will now use for this session's communication", `Session.cpp`) and the
ids of the others (`MainAccountInfoHandler.h:36`), and the cast server tells
nobody any id but its own clients'.  The two ids differ after two clients reach
the two servers in different orders (`crossed`); a join then misses the room.

*Correct means:* every id is on the stack or a live session's, once
(`IdsAccountedFor`); `RoomsAgree`: map, vector and table of the rooms agree
(`VectorsAgree`), one packet for joining and leaving does not get out of step
(`OutsideMeansOutside`), only a lost connection or want of ids stops a server
(`StopsHaveACause`); those together on one server are together on the other
(`Together`).

### CastRelay

One action per kind of order that `CastServer` registers; `packet` goes through
`broadcast`, `broadcastExceptSelf` or a single send, each with the header the code
gives the copy (`astray` records a copy that reaches somebody else, twice, or
with another id).  Attacks count against a window per session id.  Over the limit
the code calls `Session::close`, whose socket has been moved away, so that packets
are only dropped, although the comment speaks of disconnecting; the counters
outlive the session and meet the next one with its id.

*Correct means:* `RelayedToRoomMates`; `AttacksLimited`: in any interval as long as a
window at most `2 * (MAX_PACKETS + MAX_EXCEED) - 1` attacks pass, and none is dropped
that did not exceed the limit.

### Crypt and CommonSession

`Crypt` is written on words of `4 * ByteBits` bits, with the rounds as parameters; `CommonSession`
sends packets with it through a TCP connection that cuts bytes anywhere.
`posted` and `queued` are the writes that the socket has not finished: `asyncWrite`
hands over a buffer that dies with the call, so what is written late is `Freed`
bytes, and an answer that finishes later is mixed behind one that did not wait.
The packet's size field is narrower than what may be sent (`Oversize`).
`setTcpHeader` ignores its encryption argument; the cast server never uses its
key; the callback of `closeSocket` may run twice.

*Correct means:* `ReceivedAsSent` without conditions, `ClientUnderstands` as long as
nothing was written late or oversize.

## 3. Runs

| Run | Bounds | Distinct states | Shows |
|---|---|---|---|
| `main_rooms` | 3 players, 1 moderator, 1 room at a time, 2 created, seats for 1 or 4 | 86,658 | the safety of rooms under any requests |
| `main_rooms_play` | the same, 2 rooms at a time, seats for 2 or 4 | 119,782 | matches, kicks, lobby, refinement under orderly clients |
| `main_rooms_empty` | one room | violated | a room stays open with no player in it |
| `main_match` | 3 players in 1 room, 2 moves, 1 battery | 159,688 | teams, team chat and results with requests in flight |
| `main_scheduler` | 2 accounts, 3 transactions | 418,582 | two threads, direct writers, crashes, liveness |
| `main_trade` | 3 accounts, 2 things, offers of up to 2, 1 mishap | 531,686 | trades between three parties |
| `main_inventory` | 2 characters, 1 kind of item sold, space 4, money 2 of 4, 5 requests | 225,254 | items and purse across flushes and logins |
| `main_social` | 2 accounts, 3 addresses, 2 seconds, 6 events | 420,133 | friends, blocks, mails across logins and crashes |
| `main_accounts` | 2 accounts, 3 clients, 3 names, 2 commands, times 0 to 2 | 927,704 | logins through two servers, sanctions, names |
| `cast_rooms` | 3 clients, 2 ids per server, 2 rooms, 2 messages each, 2 mishaps | 253,347 | the two servers follow each other |
| `cast_relay` | 3 clients, 15 kinds of order, 5 attacks, times 0 to 3 | 143,792 | who gets which copy, and how many attacks |
| `common_session` | bytes of 3 bits, 2 packets each way of 6 kinds | 15,408 | framing and encryption over TCP |

The violation is the finding of `PROJECT.json`; it quotes the line of the
repository that says otherwise.  The property of every other run is broken by a
named mutant of the code (`PROJECT.json`, "mutants"), under the run's own bounds.

**Why the bounds are enough.**

* *Rooms.*  Three players give a host, a successor and a third who joins, or is
  kicked into the wrong slot; two are enough to hand a room over.  Two rooms give an
  open room next to a new one.  With `NumberSpace` larger than `CreationBound` the
  counter does not wrap; what the wrap does is known (an entry is kept, the creator
  points to somebody else's room) and is a hazard.
* *Match.*  Three players make two sides of unequal size and one who watches; one
  observer's seat is a limit at once.  `MaxMoves` bounds the switches, starts, lost
  connections and changes of mode and of host; two of them cross.  A battery does not
  count, so that it can be stored by two matches.  Everybody is connected before the room
  is created, and it admits observers (`ConnectedFirst`, of the run only): whoever connects
  later meets the room as one who joins it late does.
* *Scheduler.*  Two accounts are what the interference of logouts needs; three
  transactions let one overwrite, precede and follow another.
* *Inventory.*  Two characters share slots; the space is met by purchases, and
  passed by a relogin; money is spent to the end and wraps; numbers up to 6 let every
  item be renewed.  Five requests are as many as the longest known mishap takes.
* *Trades.*  Three traders let a trade be disturbed by a second one; `MaxTraded = 1` is
  the limit 10 of the code at its boundary, and numbers up to 2 make every number
  collide that can.
* *Social.*  A third address lets one of two accounts be logged in twice, and an
  address be used again; one friend and one mail meet the limits.  Six events are two
  logins, a change on each side, a removal and a read.
* *Accounts.*  A tester, a player and a name that is nobody's; a ban may be given, run
  out and be lifted.  Of three clients one logs in as the tester and two as the player
  (`Knows`): a second login beside the account that commands.
* *Cast.*  Two session ids for three clients make an id be reused at once and let the
  pool run dry; a room of two is handed over, emptied, and joined by the holder of a
  reused id.  The relay runs an order of every kind; limits of one attack and one
  excess reach every branch of `isRateLimited` on both sides of a window's edge.
* *Connection.*  Three bits per byte keep the layout of headers, keys and blocks (a
  partial block, one block and several); two packets are what a cut between packets and a
  late write overtaken by a second need.

**Symmetry and views.**  Players that are not moderators, accounts, things, clients,
addresses and seconds are interchangeable where nothing tells them apart, and no
liveness is checked under symmetry.  The view of `MCMainTrade` ignores the partner
of a player who is not trading: no action reads it before accepting a trade
overwrites it, and the properties read it only of players who trade.

**Deadlock** is not checked where the model really stops: when undefined
behaviour is reached, or all bounds are.  `MainScheduler`, `MainTrade` and
`MainSocial` always have a step, and are checked for deadlock.

**Fairness** is stated only in `MainScheduler`: `WF(Writing)`, because database
callbacks return and the thread that holds the mutex goes on; `SF(Persist)`,
because the scheduler thread loops until the process ends and a handler holds the
mutex only for moments, so that a thread that asks for ever gets it again and
again.  Nothing is assumed of players: they need not log in, buy or log out.

## 4. Findings

`main_rooms_empty` is the run of the one disagreement that a line of the
repository states outright: the host's kick and a switch to the observers leave a room open
without players, although `Room.cpp:492` wants it closed; the next request that
lists rooms reads the first player of an empty vector.

The histories name others, each at its line in the hazard list: `/kick` bans the
wrong player; a paid item can be overwritten in the queue by another account's
logout; a confirmation can be taken by another trade partner; rooms of the cast
server are filed under its own ids and looked up by those of the main server; a
worn item can be doubled by upgrading it; an evicted client leaves dangling friends
behind; a ban "forever" counts as past; `/setname` may store another name.

## 5. Proofs

Everything in this section holds for every value of the constants that satisfies the
assumptions named in the modules; TLC evaluates these assumptions in the runs.

**`MainRoomsProofs`** proves, for any number of players, rooms and seats, and for
both `Spec` and `PlaySpec`, the invariant

    IInv == TypeOK /\ NumbersInOrder /\ MembersAgree /\ SeatedOnce
            /\ ReadyInside /\ MembersOnline /\ InMatchInsideRoom

and from it `TypeOK` and `RoomsConsistent`.  None of its parts is inductive alone.  An
erase removes a player from a room altogether only if nobody sits twice
(`SeatedOnce`), and a session points to no other room only because vectors and numbers
agree (`MembersAgree`); starting a match puts the READY into it, who must be members
(`ReadyInside`); a new room is empty of others because its number is new
(`NumbersInOrder`).  Most actions are instances of one change, `Leaving`, whose lemma
does the work once.  The theorems assume `NoWrap`, that fewer rooms are created than
there are 16-bit numbers; after a wrap `MembersAgree` is false.

The rest of the module builds on that invariant.  `SeatsRespected` is an action property:
under `Spec`, so whatever clients send, a room takes another player only onto a free seat.
`EverybodyInPlace` holds under `PlaySpec`.  Its invariant `PlaceInv` says for each room that
a match that runs has a host who is in it, that nobody is in a match that does not run, and that
nobody who was kicked is inside (`InPlace`), and of everybody that it is in the lobby or
in a room.  The host is the first of the vector; the lemmas follow that seat through the
erase of somebody behind it (`FirstStays`) and through the swap and erase that replace a
host (`SuccessorSitsFirst`).  That a running match *has* a host is part of the invariant
because otherwise an observer who takes a seat would be the host without being in the match.

It also proves that the rooms implement `RoomDirectory`, for both
specifications and under `NoWrap`.  The refinement mapping lists the members of each room by its
vectors; by `IInv`, before and after a step, these are the players whose sessions point
to it (`DirectoryBySessions`).  So what a step does to the directory is read off the
numbers of sessions and rooms, and each request is one step of the directory or a
stutter: a disconnect, a leave or the end of a match for one player takes one player out
or closes the room; a kick clears the number of its target, whichever room that was; a
creation uses a number that was never handed out; a join gives a number to somebody who
had none.

Its last section says who is *not* concerned by a step, which a composition needs: those
outside a set `S` who stay keep their seats (`SeatsKept(S)`), a host who stays remains the
host (`HostsKept(S)`), and nobody else leaves or enters a match (`FlagsKept(S)`).  `S` is empty for most
requests, and the one player for a switch or a join.

**`MainMatchProofs`** proves, for any number of players, team sizes and requests in flight,
all five properties that the run checks: `TypeOK`, `TeamsAsTold`, `TeamTalkIsPrivate`,
`ResultsCountedOnce` and `BatteryCountedOnce`.  Each step is also a step of the rooms, whose
invariant is used through an instance of `MainRoomsProofs`; the new parts of `MatchInv` are these.
`TeamsInv`: the team, what is told of it, the seat and the mode fit each other, unless the player
was misled; this is inductive only with `FitsSeat`, that a switch in flight asks for something
the seat it was sent from offers, which survives because nobody is moved between the seats by
others.  `ResultsInv`: whoever is in a match has a result coming, and while the end of a match is on its
way its sender is the host, in the match, and names only those with a result coming
(`EndStands`); so after the first report nobody is in the match who could send a second, unless
the host's seat is moved by hand.  `PurseInv`: what is stored, and what still may be, was found.
`NoWrap` is assumed as for the rooms.

**`MainSchedulerProofs`** proves, for any number of accounts and transactions, `TypeOK`,
`ItemsAreKept`, `ChargeFollowsItem` and `ChargesAreDue`.  The invariant turns on an
observation about the restarted counter: an entry whose key lies beyond the counter,
which later calls may overwrite, holds only items that are exposed (`KeysInUse`); while the mutex is held
this is so already of the accounts that are not being written (`FlushedOrExposed`).
Prices follow items because a queued total accounts only for purchases that are stored,
exposed or queued under a smaller key (`TotalsFollowItems`), and the smallest key is
written first.  `ChargesAreDue` has an invariant of its own on top (`DueInv`): an account
that is offline has nothing queued, the total of an account online is its balance
(`TotalsAreDue`), and keys are bounded, so that the last one exists.

**`MainTradeProofs`** proves, for any number of traders and things, `TypeOK`,
`ThingsConserved`, `PartnersAgree` and `ConfirmedUnlessDisturbed`, by three invariants that
build on each other.  `TradeInv`: a player's numbers are used once and lie below the latest, and
everything is with somebody, so that what an exchange spawns has a free number and replaces
nothing.  `AgreeInv`: without disturbances, partners are each other's and
confirmations are for the partner.  `UniqueInv`: without carelessness, a thing has one
place and an offer names different items that are not worn, so that an exchange deletes
exactly what it spawns.

**`MainInventoryProofs`** proves, for any characters, prices, space and number of requests, all
four properties that the run checks: `TypeOK`, `ItemsAsStored`, `SpaceRespected` and
`WealthNeverGrows`.  A request goes through several updates of the player and of the queue (a
gamble deletes an item and adds another, an equip takes one off and puts one on), so the core of
the invariant, `Sound`, is stated of any pair of a player and rows: it holds at every point of a
request, and each operation has a lemma that it stays so.  `ItemsAsStored` is not inductive alone,
for three reasons.  A new number replaces nothing only because nothing that is held, stored or
queued has a number above `m_latestItemNumber` (`Filed`, and the bounds on rows and on `energy` in
`Sound` and `Serving`).  What is taken off goes to the place its only row says only because an item
under a number that is not excused is filed under its own serial, and what is worn is worn
in its own slot (`Filed`).  And the queued update of an energy, which is applied last, meets
the row it is meant for only because numbers are unique (`Accord`).  At a login every item gets a
new number, its position among the rows; that rows worn in one slot cover one another, and so
how many are `hidden`, is a count by a bijection between places and the rows on top
(`PlacesCounted`).  `SpaceRespected` follows with `Counted`, which each operation keeps.

`WealthNeverGrows` compares the purse and the rows with what the account started with, so it must be
known of every number, the excused ones too, that it has one row and that what the session
holds under it is worth what the row is (`Backed`); otherwise something would be refunded or
upgraded twice.  `RichInv` states this until something was got for nothing.  What the
rows are worth is the cardinality of a set, the *units* of the rows; an added row adds its
value and a removed one takes it away (`UnitsInserted` and the lemmas that follow), and equipping,
renumbering and energy leave each row's value alone (`Twin`).

The two loops of these handlers are closed forms in the model, as recursion is out of the prover's
reach: what `addItems` leaves is the rows with the new ones behind them and the items under their
numbers, and the loop of a capsule has a lucky spin to every `MaxLucky + 1` others.

**`MainAccountsProofs`** proves, for any number of accounts, clients and names, `TypeOK`,
`BannedStayOut`, `MutedStaySilent` and `AccountsAsStored`.  These properties compare what a
client and its session can do with the orders given, and say nothing of the table in
between; the invariant `AccInv` does.  A ban or a mute is in the table, as its date less the
zone, unless the statement that stores it is known to have failed (`BanStored`,
`MuteStored`).  Who is on its way to the main server, or is being looked up while a moderator
bans it, was let in rightly (`AcceptedRightly`).  A session knows of its mute (`MuteKnown`).
The table says who is listed (`StatusKnown`), and a rename that is queued writes what
its owner was told (`NameKnown`).  Assumed are a zone ahead of UTC by at most the length of a
day, a clock that starts at 1, and that `None` is none of the data.

**`CastRoomsProofs`** proves, for any number of clients, ids and rooms, `IdsAccountedFor`,
`TypeOK`, `RoomsAgree` and `Together`.  The invariant `CastInv` has three layers, because the
properties hold but for mishaps of different weight.  *Always*: each process accounts for
its ids (only connecting and closing touch the pools; a pop takes an id that is nobody's,
the destructor gives back one that is on no stack), the map and the vector of a room hold
the same ids (`SeatsInv`), and what a client still has to tell the cast server
enters and leaves by turns, the last message telling where it is (`ToldByTurns`).  *As long
as no connection is lost in a room*: rooms hold exactly those who find them by the table, with
no dangling pointer (`ExactInv`), and what a client tells next fits where the cast server
has it (`HeardByTurns`).  *As long as nothing else went wrong either*: a client has the same id on both
servers, who joins names a host that is settled in the same room (`TellsWhere`), and two
clients of whom nothing is under way are together on both servers or on neither
(`SettledInv`).

**`CastRelayProofs`** proves, for any number of sessions and any limits, `TypeOK`,
`RelayedToRoomMates` and `AttacksLimited`.  The first part rests on `RoomsInv`: the table, the map and
the vector of a room hold the same players, so iterating over either reaches the members, and
each once.  `AttacksLimited` bounds the attacks relayed in *every* interval as long as the
window, whereas the code counts from whenever a window was opened.  `WindowInv` therefore
describes the window that an entry counts, and how many relayed attacks before it may still lie
within its length (`Trailing`, at most one fewer than a window lets through): two windows can
meet in one interval, and no third.

*Only model-checked:* everything in `MainSocial` and `CommonSession`, and the liveness property
`ItemsAreStored`.  `MainSocial` applies queues of statements one by one; what such a recursion
computes for every input cannot be shown without induction over data, for which none of
the provers can use the library's theorems.  `CommonSession` encrypts with the bitwise
operators of `Crypt`, which are out of the prover's reach, and so is liveness under fairness.

## 6. Not modelled

* The constant database, the logger, the threads for the console's title: read-only
  tables and output.
* The shared memory from main to cast: the word of a room is written when a match starts
  (`RoomStartHandler.h:107`), but the call that reads it is commented out
  (`UnknownHandlers.h:25`), so nothing follows from it.
* Of rooms: titles, maps, passwords (`updatePassword("")` clears the flag and not the text),
  pings, the mute of a room, clan rooms.  They are shown, or refuse a request.
* Of matches: amounts of experience and points, elimination rounds, modes that report no
  result, AiBattle and BossBattle, the host's own hand-over in the waiting room, the
  cancelling of READY.  `changePlayerTeam` goes on using an erased iterator after a
  switch to the observers; what it finds is in the vector's storage.
* Of the lobby: lists and chat only read; what is said is formatting.
* Of mails and friends: texts, the read flag, gifts (a todo in the code), befriending
  oneself, duplicate friend rows, transactions that fail to begin.
* Of accounts: `/setlevel`, `/setcurrency`, `/online`, `/announce`, `/addplayer` send
  a message, or set one field as handlers do that are modelled; a client that is not the
  game's; races finer than a statement.
* Of items: what a throwing `.at(character)` does to the connection, a death between the two
  statements of `insertEnergyToItem`; other sessions of the account.
* Of the relay: ping, connection and reload are answered to the sender, 255 and 284 are
  ignored; `HostSuicideUtils` is not called.
* `MainScheduler.h` under `include/Database` is a variant with a thread pool that is
  not built.

## 7. Plan

What would be worth doing next, in this order:

1. `FriendsAgree` of `MainSocial`: the pointers between sessions are within reach, the two
   rows in the database need the queue of statements in closed form.
2. A composition of `MainInventory` with `MainTrade`, for trades that leave rows of two
   accounts in the queue.
3. `MainMatch` with several rooms, passwords and the host's own hand-over.
