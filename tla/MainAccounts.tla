---------------------------- MODULE MainAccounts ----------------------------
(***************************************************************************)
(* The accounts of the two servers: logging in at the auth server and then *)
(* at the main server, and what moderators do to accounts by chat command: *)
(* /ban, /unban, /mute, /unmute, /disconnect, and /setname.                *)
(*                                                                         *)
(* The servers are two processes with a connection each to one SQLite      *)
(* file, neither of which waits for the other: a statement of the main     *)
(* server that meets a lock of the auth server throws, the exception is    *)
(* logged, and the handler goes on as if the row had been written.  The    *)
(* auth server holds such locks from the moment it looks an account up     *)
(* (variable looking) until it has stored the account's key.               *)
(*                                                                         *)
(* Only the auth server asks whether an account is suspended; the main     *)
(* server goes by the account id its client shows.  Mutes are read at the  *)
(* login in the main server and kept in the session afterwards.  Dates are *)
(* compared as texts: one of a negative year, which is what a duration too *)
(* long for the calendar becomes and /muteinfo shows as "forever", comes   *)
(* before any other.  They are built by reading the time of UTC as one of  *)
(* the local zone, and so end early where the zone is ahead of UTC.        *)
(*                                                                         *)
(* A session is of one client and one connection.  It is in the session    *)
(* manager (listed) from its login until it is removed, which /ban and     *)
(* /disconnect do while the connection stays open; the client that is told *)
(* so goes away (Leave).  Rooms, friends and the other queued changes are  *)
(* in MainRooms, MainSocial and MainScheduler.                             *)
(***************************************************************************)
EXTENDS Integers, FiniteSets

CONSTANTS
  Accounts,    \* AccountID; an account begins with itself as its nickname
  Knows,       \* external: the accounts that the user of a client logs in with
  Clients,     \* the game clients, and the sessions they open
  Names,       \* nicknames, those of the accounts among them
  Restricted,  \* restrictedNames
  Grade,       \* Users.Grade, by account
  Day,         \* units of time in the duration of a ban or a mute
  ZoneOffset,  \* units of time the zone of the server is ahead of UTC, less than a day
  MaxTime,     \* bound of the model: the clock stops here
  MaxCommands, \* bound of the model: chat commands given
  None         \* no account, no client, no session

ASSUME ConstantsAssumption ==
  /\ Accounts \subseteq Names /\ Restricted \subseteq Names \ Accounts
  /\ Grade \in [Accounts -> Nat]
  /\ Knows \in [Clients -> SUBSET Accounts]
  /\ {Day, ZoneOffset, MaxTime, MaxCommands} \subseteq Nat
  /\ ZoneOffset <= Day /\ MaxTime >= 1
  /\ None \notin Accounts \cup Clients \cup Names \cup [client : Clients, admitted : BOOLEAN]
                  \cup [account : Accounts \cup {None}, muted : BOOLEAN, name : Names \cup {None}]

VARIABLES
  now,         \* utc_clock::now()
  stored,      \* table Users
  who,         \* client -> the account its user logs in with, or None
  looking,     \* what the auth server is looking up, or None
  authorised,  \* clients that the auth server has sent to the main server
  session,     \* client -> m_player of its session in the main server, or None
  listed,      \* m_sessionsBySessionId
  renaming,    \* accounts with an updatePlayerName in m_databaseCallbacks
  typed,       \* SetNickname::m_value
  commands,    \* number of commands given
  banUntil,    \* history: account -> when the ban it was given ends, 0 if none
  muteUntil,   \* history: account -> when the mute it was given ends, 0 if none
  given,       \* history: account -> the nickname its owner was last told it has
  unstored,    \* history: orders that are not in the table, or not as they were meant
  earlier,     \* history: clients that were there when their account was banned
  passedOver,  \* history: clients whose session a mute or its end did not reach
  unsure,      \* history: accounts whose IsOnline may be wrong
  misnamed     \* history: accounts whose rename is lost or has been typed over

login == <<who, looking, authorised>>
play == <<session, listed>>
naming == <<renaming, typed>>
orders == <<banUntil, muteUntil, unstored, earlier, passedOver>>
names == <<given, misnamed>>
vars == <<now, stored, login, play, naming, commands, orders, names, unsure>>

GRADE_MOD == 3
GRADE_TESTER == 4

\* The duration that is too long for the calendar, and the date it becomes
Forever == -1
Durations == {Day, Forever}
Dates == {-1} \cup 0 .. MaxTime + Day

\* banAccount and muteAccount: the date for a duration
UntilAfter(d) == IF d = Forever THEN -1 ELSE now + d - ZoneOffset

\* The session of a client whose account could not be read is of account 0.
Account0 == [account |-> None, muted |-> FALSE, name |-> None]

Open(c) == session[c] # None
SessionsOf(a) == {c \in Clients : Open(c) /\ session[c].account = a}
ListedOf(a) == SessionsOf(a) \cap listed

TypeOK ==
  /\ now \in 1 .. MaxTime
  /\ stored \in [Accounts -> [suspendedUntil : Dates, mutedUntil : Dates,
                              isOnline : BOOLEAN, nickname : Names]]
  /\ who \in [Clients -> Accounts \cup {None}]
  /\ looking \in [client : Clients, admitted : BOOLEAN] \cup {None}
  /\ authorised \subseteq Clients
  /\ \A c \in Clients :
       session[c] \in [account : {who[c]}, muted : BOOLEAN, name : Names] \cup {Account0, None}
  /\ listed \subseteq {c \in Clients : Open(c)} /\ authorised \cap listed = {}
  /\ renaming \subseteq Accounts /\ typed \in Names \cup {None}
  /\ commands \in 0 .. MaxCommands
  /\ banUntil \in [Accounts -> Nat] /\ muteUntil \in [Accounts -> Nat]
  /\ given \in [Accounts -> Names]

Init ==
  /\ now = 1 /\ commands = 0
  /\ stored = [a \in Accounts |-> [suspendedUntil |-> 0, mutedUntil |-> 0,
                                   isOnline |-> FALSE, nickname |-> a]]
  /\ who = [c \in Clients |-> None] /\ looking = None /\ authorised = {}
  /\ session = [c \in Clients |-> None] /\ listed = {}
  /\ renaming = {} /\ typed = None
  /\ banUntil = [a \in Accounts |-> 0] /\ muteUntil = [a \in Accounts |-> 0]
  /\ given = [a \in Accounts |-> a]
  /\ unstored = {} /\ earlier = {} /\ passedOver = {} /\ unsure = {} /\ misnamed = {}

-----------------------------------------------------------------------------
\* PersistentDatabase: each call is one transaction, which a lock of the auth
\* server may make fail.
Written == IF looking = None THEN {TRUE} ELSE BOOLEAN
NameWritten(c) == IF session[c].account \in renaming THEN Written ELSE {TRUE}

UpdateSuspension(db, a, until, written) ==
  IF written THEN [db EXCEPT ![a].suspendedUntil = until] ELSE db
UnbanPlayer(db, n, written) ==
  IF written THEN [a \in Accounts |-> IF db[a].nickname = n
                                      THEN [db[a] EXCEPT !.suspendedUntil = 0] ELSE db[a]]
             ELSE db
UpdateMute(db, a, until, written) ==
  IF written THEN [db EXCEPT ![a].mutedUntil = until] ELSE db
\* mutant: the mute is lifted in the session only.
UnmuteAccountInMemory(db, a, written) == db

UnmuteAccount(db, a, written) ==
  IF written THEN [db EXCEPT ![a].mutedUntil = 0] ELSE db
UpdateOnlineStatus(db, a, written) ==
  IF written THEN [db EXCEPT ![a].isOnline = TRUE] ELSE db
UpdateOfflineStatus(db, a, written) ==
  IF written THEN [db EXCEPT ![a].isOnline = FALSE] ELSE db

\* mutant: the statement has no WHERE.
UpdatePlayerNameOfAll(db, S, written) ==
  IF written /\ S # {} THEN [a \in Accounts |-> [db[a] EXCEPT !.nickname = typed]] ELSE db

\* The queued call was given the characters of m_value, not a copy of them:
\* it writes what they are by then.
UpdatePlayerName(db, S, written) ==
  IF written THEN [a \in Accounts |-> IF a \in S THEN [db[a] EXCEPT !.nickname = typed] ELSE db[a]]
             ELSE db

\* What isMuted can return: after an exception it returns nothing at all, and
\* the session is given whatever the memory holds.
IsMuted(a) == {stored[a].mutedUntil > now} \cup (IF looking = None THEN {} ELSE BOOLEAN)

\* What getPlayerInfo of the main server can return: an empty structure after
\* an exception.
PlayerInfo(a) == {a} \cup (IF looking = None THEN {} ELSE {None})

-----------------------------------------------------------------------------
\* mutant: the wrong column is read.
AdmittedUnlessMuted(a) == stored[a].mutedUntil <= now

\* The auth server's getPlayerInfo: is the account suspended?
Admitted(a) == stored[a].suspendedUntil <= now

\* handleAuthUserInformation, up to the look at the table; a lookup that meets
\* a lock of the main server is answered with DATA_ERROR and changes nothing.
BeginLogin(c, a) ==
  /\ looking = None /\ who[c] = None /\ a \in Knows[c]
  /\ who' = [who EXCEPT ![c] = a]
  /\ looking' = [client |-> c, admitted |-> Admitted(a)]
  /\ UNCHANGED <<now, stored, authorised, play, naming, commands, orders, names, unsure>>

\* The key of an account is a function of its id, so storing it again changes
\* nothing; that ends the auth server's use of the table.
AddHash == looking' = None

\* The answer; a client that is not admitted stays where it was.
EndLogin ==
  /\ looking # None
  /\ AddHash
  /\ IF looking.admitted
     THEN authorised' = authorised \cup {looking.client} /\ UNCHANGED <<who, earlier>>
     ELSE /\ who' = [who EXCEPT ![looking.client] = None]
          /\ earlier' = earlier \ {looking.client}
          /\ UNCHANGED authorised
  /\ UNCHANGED <<now, stored, play, naming, commands, banUntil, muteUntil, unstored, passedOver,
                 names, unsure>>

\* handleInitialPlayerInfos: whatever handleAuthorization answered, the
\* session is added; with account 0 no row is written.
EnterMain(c) ==
  /\ c \in authorised
  /\ authorised' = authorised \ {c}
  /\ listed' = listed \cup {c}
  /\ \E a \in PlayerInfo(who[c]) :
       IF a = None
       THEN /\ session' = [session EXCEPT ![c] = Account0]
            /\ UNCHANGED <<stored, passedOver, unsure>>
       ELSE \E muted \in IsMuted(a), written \in Written :
              /\ session' = [session EXCEPT ![c] = [account |-> a, muted |-> muted,
                                                    name |-> stored[a].nickname]]
              /\ stored' = UpdateOnlineStatus(stored, a, written)
              /\ unsure' = IF written THEN unsure \ {a} ELSE unsure \cup {a}
              /\ passedOver' = IF muted = (stored[a].mutedUntil > now)
                               THEN passedOver ELSE passedOver \cup {c}
  /\ UNCHANGED <<now, who, looking, naming, commands, banUntil, muteUntil, unstored, earlier, names>>

\* mutant: the session stays in the session manager.
RemoveSessionListed(db, c, statusWritten, nameWritten) ==
  LET a == session[c].account
      S == renaming \cap {a} IN
  /\ stored' = IF a = None THEN db
               ELSE UpdatePlayerName(UpdateOfflineStatus(db, a, statusWritten), S, nameWritten)
  /\ renaming' = renaming \ S
  /\ misnamed' = IF nameWritten THEN misnamed ELSE misnamed \cup S
  /\ unsure' = unsure \cup {a}
  /\ UNCHANGED listed

\* SessionsManager::removeSession for what this module keeps: Session::clear
\* stores the status and then what is queued for the account.
RemoveSession(db, c, statusWritten, nameWritten) ==
  LET a == session[c].account
      S == renaming \cap {a} IN
  /\ stored' = IF a = None THEN db
               ELSE UpdatePlayerName(UpdateOfflineStatus(db, a, statusWritten), S, nameWritten)
  /\ renaming' = renaming \ S
  /\ misnamed' = IF nameWritten THEN misnamed ELSE misnamed \cup S
  /\ listed' = listed \ {c}
  /\ unsure' = IF a = None THEN unsure
               ELSE IF statusWritten /\ ListedOf(a) = {c} THEN unsure \ {a} ELSE unsure \cup {a}

\* The connection of a client is lost or closed, in whatever state it is.
Leave(c) ==
  /\ who[c] # None /\ (looking # None => looking.client # c)
  /\ who' = [who EXCEPT ![c] = None]
  /\ authorised' = authorised \ {c}
  /\ session' = [session EXCEPT ![c] = None]
  /\ earlier' = earlier \ {c} /\ passedOver' = passedOver \ {c}
  /\ IF c \in listed
     THEN \E statusWritten \in Written, nameWritten \in NameWritten(c) :
            RemoveSession(stored, c, statusWritten, nameWritten)
     ELSE UNCHANGED <<stored, renaming, misnamed, listed, unsure>>
  /\ UNCHANGED <<now, looking, typed, commands, banUntil, muteUntil, unstored, given>>

-----------------------------------------------------------------------------
\* Chat commands.  A muted player's are not looked at, nor are those of a grade
\* too low; an evicted player's are, as long as the connection is open.
MaySpeak(c) == Open(c) /\ ~session[c].muted

MayCommand(c, grade) ==
  /\ commands < MaxCommands
  /\ MaySpeak(c) /\ session[c].account # None
  /\ Grade[session[c].account] >= grade

\* findSessionByName finds one of those listed, in no particular order.
FindSessionByName(n) == {c \in listed : session[c].name = n}

Outranks(c, t) == Grade[session[t].account] < Grade[session[c].account]

\* What the order leaves behind when it is not stored as it was meant
Recorded(kind, a, d, written) ==
  unstored' = IF written /\ d # Forever THEN unstored \ {<<kind, a>>} ELSE unstored \cup {<<kind, a>>}

Command == commands' = commands + 1

\* /disconnect: the session is removed; its client is told to go away.
Disconnect(c, n) ==
  /\ MayCommand(c, GRADE_TESTER)
  /\ \E t \in FindSessionByName(n), statusWritten \in Written :
       /\ Outranks(c, t)
       /\ \E nameWritten \in NameWritten(t) :
            RemoveSession(stored, t, statusWritten, nameWritten)
  /\ Command
  /\ UNCHANGED <<now, login, session, typed, orders, given>>

\* /ban: the session is removed, then the suspension is stored.
Ban(c, n, d) ==
  /\ MayCommand(c, GRADE_TESTER)
  /\ \E t \in FindSessionByName(n), statusWritten, written \in Written :
       LET a == session[t].account IN
       /\ Outranks(c, t)
       /\ \E nameWritten \in NameWritten(t) :
            RemoveSession(UpdateSuspension(stored, a, UntilAfter(d), written), t,
                          statusWritten, nameWritten)
       /\ banUntil' = [banUntil EXCEPT ![a] = IF d = Forever THEN MaxTime + Day ELSE now + d]
       /\ earlier' = earlier \cup {k \in Clients : who[k] = a}
       /\ Recorded("ban", a, d, written)
  /\ Command
  /\ UNCHANGED <<now, login, session, typed, muteUntil, passedOver, given>>

\* /unban: whoever has the name in the table
Unban(c, n) ==
  /\ MayCommand(c, GRADE_TESTER)
  /\ \E written \in Written :
       /\ stored' = UnbanPlayer(stored, n, written)
       /\ banUntil' = [a \in Accounts |->
                         IF written /\ stored[a].nickname = n THEN 0 ELSE banUntil[a]]
  /\ Command
  /\ UNCHANGED <<now, login, play, naming, muteUntil, unstored, earlier, passedOver, names, unsure>>

\* An order about mutes reaches one session of the account, and the table.
ReachesOnly(t, a) == passedOver' = (passedOver \cup {k \in Clients : who[k] = a}) \ {t}

\* Player::mute and Player::unmute
SetMute(t, muted) == session' = [session EXCEPT ![t].muted = muted]

\* Session::muteAccount and Session::unmuteAccount
MuteAccount(t, d, written) ==
  /\ SetMute(t, TRUE)
  /\ stored' = UpdateMute(stored, session[t].account, UntilAfter(d), written)
LiftMute(t, written) ==
  /\ SetMute(t, FALSE)
  /\ stored' = UnmuteAccount(stored, session[t].account, written)

\* /mute
Mute(c, n, d) ==
  /\ MayCommand(c, GRADE_MOD)
  /\ \E t \in FindSessionByName(n), written \in Written :
       LET a == session[t].account IN
       /\ Outranks(c, t)
       /\ MuteAccount(t, d, written)
       /\ muteUntil' = [muteUntil EXCEPT ![a] = IF d = Forever THEN MaxTime + Day ELSE now + d]
       /\ Recorded("mute", a, d, written)
       /\ ReachesOnly(t, a)
  /\ Command
  /\ UNCHANGED <<now, login, listed, naming, banUntil, earlier, names, unsure>>

\* /unmute, which compares no grades
Unmute(c, n) ==
  /\ MayCommand(c, GRADE_MOD)
  /\ \E t \in FindSessionByName(n), written \in Written :
       LET a == session[t].account IN
       /\ LiftMute(t, written)
       /\ muteUntil' = [muteUntil EXCEPT ![a] = 0]
       /\ Recorded("mute", a, 0, written)
       /\ ReachesOnly(t, a)
  /\ Command
  /\ UNCHANGED <<now, login, listed, naming, banUntil, earlier, names, unsure>>

\* parseCommand keeps what was typed, whether or not it is allowed.
Parsed(n) == typed' = n

\* Session::setPlayerName
SetPlayerName(c, n) ==
  /\ session' = [session EXCEPT ![c].name = n]
  /\ renaming' = renaming \cup {session[c].account}

\* The renames, but those of S, that typing n spoils
TypedOver(n, S) == misnamed' = (misnamed \cup (IF n = typed THEN {} ELSE renaming)) \ S

\* /setname
SetNickname(c, n) ==
  /\ MayCommand(c, GRADE_TESTER)
  /\ Parsed(n)
  /\ LET a == session[c].account IN
     IF n \in Restricted
     THEN TypedOver(n, {}) /\ UNCHANGED <<session, renaming, given>>
     ELSE /\ SetPlayerName(c, n)
          /\ given' = [given EXCEPT ![a] = n]
          /\ TypedOver(n, {a})
  /\ Command
  /\ UNCHANGED <<now, stored, login, listed, orders, unsure>>

-----------------------------------------------------------------------------
\* MainScheduler::persist writes every queued name.
Persist ==
  /\ renaming # {}
  /\ \E failed \in SUBSET renaming :
       /\ looking = None => failed = {}
       /\ stored' = UpdatePlayerName(stored, renaming \ failed, TRUE)
       /\ misnamed' = misnamed \cup failed
  /\ renaming' = {}
  /\ UNCHANGED <<now, login, play, typed, commands, orders, given, unsure>>

\* The main server ends, by /shutdown or a crash, and is started again.
Crash ==
  /\ \E c \in Clients : Open(c)
  /\ who' = [c \in Clients |-> IF Open(c) THEN None ELSE who[c]]
  /\ session' = [c \in Clients |-> None] /\ listed' = {}
  /\ earlier' = earlier \ {c \in Clients : Open(c)}
  /\ passedOver' = {c \in passedOver : ~Open(c)}
  /\ renaming' = {} /\ typed' = None
  /\ misnamed' = misnamed \cup renaming
  /\ unsure' = unsure \cup {a \in Accounts : ListedOf(a) # {}}
  /\ UNCHANGED <<now, stored, looking, authorised, commands, banUntil, muteUntil, unstored, given>>

Tick ==
  /\ now < MaxTime
  /\ now' = now + 1
  /\ UNCHANGED <<stored, login, play, naming, commands, orders, names, unsure>>

Next ==
  \/ \E c \in Clients, a \in Accounts : BeginLogin(c, a)
  \/ EndLogin
  \/ \E c \in Clients : EnterMain(c) \/ Leave(c)
  \/ \E c \in Clients, n \in Names : Disconnect(c, n) \/ Unban(c, n) \/ Unmute(c, n) \/ SetNickname(c, n)
  \/ \E c \in Clients, n \in Names, d \in Durations : Ban(c, n, d) \/ Mute(c, n, d)
  \/ Persist \/ Crash \/ Tick

Spec == Init /\ [][Next]_vars

-----------------------------------------------------------------------------
\* Whoever plays, or is on the way to, while the account is banned, was there
\* when the ban was given: the auth server turns the others away, although the
\* main server never asks, unless the ban was not stored, or as a date that
\* counts as past.  In a zone ahead of UTC the ban ends by as much too early.
BannedStayOut ==
  \A c \in Clients :
    (c \in authorised \/ Open(c)) /\ now < banUntil[who[c]] - ZoneOffset
      => c \in earlier \/ <<"ban", who[c]>> \in unstored

\* The session of a muted account speaks neither in the chat nor by commands,
\* and nobody is silenced whose mute was lifted, unless the order reached
\* another session of the account or not the table, or the login could not
\* read it.
MutedStaySilent ==
  \A c \in Clients : Open(c) /\ session[c].account # None =>
    LET a == session[c].account IN
    \/ /\ now < muteUntil[a] - ZoneOffset => ~MaySpeak(c)
       /\ muteUntil[a] = 0 => MaySpeak(c)
    \/ c \in passedOver \/ <<"mute", a>> \in unstored

\* IsOnline says who is in the session manager, unless an account that is
\* logged in twice left once, a crash left it set or a write was lost.
StatusAsListed ==
  \A a \in Accounts \ unsure : stored[a].isOnline <=> ListedOf(a) # {}

\* Once nothing is queued, the table has the nickname that the owner of an
\* account was told it has, one that is allowed, unless anybody's /setname was
\* parsed, accepted or not, before it was written, or the write was lost.
NamesAsGiven ==
  \A a \in Accounts \ (renaming \cup misnamed) :
    stored[a].nickname = given[a] /\ given[a] \notin Restricted

\* Both together: the table says of an account what the session manager and its
\* owner know of it.
AccountsAsStored == StatusAsListed /\ NamesAsGiven
=============================================================================
