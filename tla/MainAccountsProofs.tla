------------------------- MODULE MainAccountsProofs -------------------------
(***************************************************************************)
(* The accounts, for any number of accounts, clients and names, any length *)
(* of a day and any zone ahead of UTC.                                     *)
(*                                                                         *)
(* The properties compare what clients and their sessions can do with the  *)
(* orders given.  They become inductive with what the table holds in       *)
(* between: the date of a ban or a mute that was stored (BanStored,        *)
(* MuteStored), what the auth server has already looked up                 *)
(* (AcceptedRightly), and that a rename that is queued writes what its     *)
(* owner was told (NameKnown).                                             *)
(***************************************************************************)
EXTENDS MainAccounts, TLAPS

----------------------------------------------------------------------------
(* The invariant *)

Row == [suspendedUntil : Dates, mutedUntil : Dates, isOnline : BOOLEAN, nickname : Names]

SessionOf(a) == [account : {a}, muted : BOOLEAN, name : Names] \cup {Account0, None}

Types ==
  /\ now \in 1 .. MaxTime /\ commands \in 0 .. MaxCommands
  /\ stored \in [Accounts -> Row]
  /\ who \in [Clients -> Accounts \cup {None}]
  /\ looking \in [client : Clients, admitted : BOOLEAN] \cup {None}
  /\ session = [c \in Clients |-> session[c]] /\ \A c \in Clients : session[c] \in SessionOf(who[c])
  /\ renaming \subseteq Accounts /\ typed \in Names \cup {None}
  /\ renaming # {} => typed \in Names
  /\ banUntil \in [Accounts -> Nat] /\ muteUntil \in [Accounts -> Nat]
  /\ given \in [Accounts -> Names \ Restricted]

\* A client is nowhere before it logs in, at the auth server while that looks the account up,
\* and then on its way to the main server or connected to it.
Whereabouts ==
  /\ authorised \subseteq Clients /\ listed \subseteq {c \in Clients : Open(c)}
  /\ \A c \in Clients :
       /\ c \in authorised \/ Open(c) => who[c] # None
       /\ c \in authorised => ~ Open(c)
  /\ looking # None =>
       /\ who[looking.client] # None
       /\ looking.client \notin authorised /\ ~ Open(looking.client)

\* An account's ban is in the table, unless it is known that it is not.
BanStored(a) ==
  \/ <<"ban", a>> \in unstored
  \/ banUntil[a] = 0
  \/ stored[a].suspendedUntil = banUntil[a] - ZoneOffset

\* A client that has come past the auth server
Accepted(c) == c \in authorised \/ Open(c) \/ (looking # None /\ looking.client = c /\ looking.admitted = TRUE)

AcceptedRightly(c) ==
  Accepted(c) /\ now < banUntil[who[c]] - ZoneOffset => c \in earlier \/ <<"ban", who[c]>> \in unstored

\* An account's mute, or its end, is in the table, unless it is known that it is not.
MuteStored(a) ==
  \/ <<"mute", a>> \in unstored
  \/ stored[a].mutedUntil = IF muteUntil[a] = 0 THEN 0 ELSE muteUntil[a] - ZoneOffset

\* What the session of a client knows of its account's mute
MuteKnown(c) ==
  Open(c) /\ session[c].account # None =>
    LET a == session[c].account IN
    \/ /\ now < muteUntil[a] - ZoneOffset => session[c].muted = TRUE
       /\ muteUntil[a] = 0 => session[c].muted = FALSE
    \/ c \in passedOver \/ <<"mute", a>> \in unstored

\* The table says who is in the session manager, unless it is known that it may not.
StatusKnown(a) ==
  a \notin unsure => stored[a].isOnline = IF ListedOf(a) = {} THEN FALSE ELSE TRUE

\* A rename that is queued writes what its owner was told.
NameKnown(a) ==
  a \notin misnamed => IF a \in renaming THEN typed = given[a] ELSE stored[a].nickname = given[a]

AccInv ==
  /\ Types /\ Whereabouts
  /\ \A a \in Accounts : BanStored(a) /\ MuteStored(a) /\ StatusKnown(a) /\ NameKnown(a)
  /\ \A c \in Clients : AcceptedRightly(c) /\ MuteKnown(c)

----------------------------------------------------------------------------
(* Constants and sessions *)

LEMMA Constants ==
  /\ Day \in Nat /\ ZoneOffset \in Nat /\ MaxTime \in Nat /\ MaxCommands \in Nat
  /\ ZoneOffset <= Day /\ MaxTime >= 1
  /\ None \notin Accounts /\ None \notin Clients /\ None \notin Names
  /\ Accounts \subseteq Names /\ Restricted \subseteq Names \ Accounts
BY ConstantsAssumption

\* The session of a client whose account was read, and of one whose account was not
LEMMA SessionMade ==
  ASSUME NEW a \in Accounts, NEW muted \in BOOLEAN, NEW n \in Names
  PROVE  LET s == [account |-> a, muted |-> muted, name |-> n] IN
         /\ s # None /\ s \in SessionOf(a) /\ s.account = a /\ s.muted = muted /\ s.name = n
         /\ Account0 # None /\ Account0 \in SessionOf(a) /\ Account0.account = None /\ Account0.name = None
<1> DEFINE all == [account : Accounts \cup {None}, muted : BOOLEAN, name : Names \cup {None}]
           s == [account |-> a, muted |-> muted, name |-> n]
<1>1. None \notin all
  BY ConstantsAssumption
<1>2. s \in all /\ Account0 \in all
  BY DEF Account0
<1>3. s # None /\ Account0 # None
  BY <1>1, <1>2, Zenon
<1>4. s.account = a /\ s.name = n /\ Account0.account = None /\ Account0.name = None
  BY DEF Account0
<1>5. s.muted = muted
  BY Zenon
<1>6. s \in [account : {a}, muted : BOOLEAN, name : Names]
  OBVIOUS
<1>7. s \in SessionOf(a) /\ Account0 \in SessionOf(a)
  BY <1>6, Zenon DEF SessionOf
<1> QED
  BY <1>3, <1>4, <1>5, <1>7, Zenon

LEMMA SessionCases ==
  ASSUME Types, Whereabouts, NEW c \in Clients, Open(c)
  PROVE  LET s == session[c] IN
         /\ who[c] \in Accounts /\ s.muted \in BOOLEAN
         /\ s.account = who[c] \/ s.account = None
         /\ s.account \in Accounts => s \in [account : {who[c]}, muted : BOOLEAN, name : Names] /\ s.name \in Names
         /\ s.account \notin Accounts => s = Account0 /\ s.account = None /\ s.name = None
<1>1. session[c] \in SessionOf(who[c]) /\ session[c] # None /\ who[c] \in Accounts
  BY DEF Types, Whereabouts, Open
<1>2. CASE session[c] = Account0
  BY <1>1, <1>2, Constants DEF Account0
<1>3. CASE session[c] \in [account : {who[c]}, muted : BOOLEAN, name : Names]
  BY <1>1, <1>3
<1> QED
  BY <1>1, <1>2, <1>3 DEF SessionOf

\* Whoever is found by name has an account.
LEMMA FoundByName ==
  ASSUME Types, Whereabouts, NEW n \in Names, NEW t \in FindSessionByName(n)
  PROVE  /\ t \in Clients /\ t \in listed /\ Open(t)
         /\ session[t].account = who[t] /\ who[t] \in Accounts /\ session[t].muted \in BOOLEAN
<1>1. t \in listed /\ session[t].name = n
  BY DEF FindSessionByName
<1>2. t \in Clients /\ Open(t)
  BY <1>1 DEF Whereabouts
<1> QED
  BY <1>1, <1>2, SessionCases, Constants

LEMMA OutcomeOfWrite == Written \subseteq BOOLEAN /\ \A c : NameWritten(c) \subseteq BOOLEAN
BY DEF Written, NameWritten

----------------------------------------------------------------------------
(* The statements of PersistentDatabase *)

SameDates(r, s) == r.suspendedUntil = s.suspendedUntil /\ r.mutedUntil = s.mutedUntil
SameStatus(r, s) == r.isOnline = s.isOnline
SameName(r, s) == r.nickname = s.nickname

\* Row r is row s with one field written.
Suspended(r, s, d) ==
  r \in Row /\ r.suspendedUntil = d /\ r.mutedUntil = s.mutedUntil /\ SameStatus(r, s) /\ SameName(r, s)
Muted(r, s, d) ==
  r \in Row /\ r.mutedUntil = d /\ r.suspendedUntil = s.suspendedUntil /\ SameStatus(r, s) /\ SameName(r, s)
Shown(r, s, b) == r \in Row /\ r.isOnline = b /\ SameDates(r, s) /\ SameName(r, s)
Named(r, s, n) == r \in Row /\ r.nickname = n /\ SameDates(r, s) /\ SameStatus(r, s)

LEMMA FieldWritten ==
  ASSUME NEW r \in Row
  PROVE  /\ \A d \in Dates : Suspended([r EXCEPT !.suspendedUntil = d], r, d)
         /\ \A d \in Dates : Muted([r EXCEPT !.mutedUntil = d], r, d)
         /\ \A b \in BOOLEAN : Shown([r EXCEPT !.isOnline = b], r, b)
         /\ \A n \in Names : Named([r EXCEPT !.nickname = n], r, n)
         /\ Suspended(r, r, r.suspendedUntil) /\ Muted(r, r, r.mutedUntil)
         /\ Shown(r, r, r.isOnline) /\ Named(r, r, r.nickname)
<1>1. ASSUME NEW d \in Dates PROVE Suspended([r EXCEPT !.suspendedUntil = d], r, d)
  BY DEF Row, Suspended, SameStatus, SameName
<1>2. ASSUME NEW d \in Dates PROVE Muted([r EXCEPT !.mutedUntil = d], r, d)
  BY DEF Row, Muted, SameStatus, SameName
<1>3. ASSUME NEW b \in BOOLEAN PROVE Shown([r EXCEPT !.isOnline = b], r, b)
  <2> DEFINE on == [r EXCEPT !.isOnline = b]
  <2>1. on \in Row /\ SameDates(on, r) /\ SameName(on, r)
    BY DEF Row, SameDates, SameName
  <2>2. on.isOnline = b
    BY Zenon DEF Row
  <2> QED
    BY <2>1, <2>2, Zenon DEF Shown
<1>4. ASSUME NEW n \in Names PROVE Named([r EXCEPT !.nickname = n], r, n)
  BY DEF Row, Named, SameDates, SameStatus
<1>5. /\ Suspended(r, r, r.suspendedUntil) /\ Muted(r, r, r.mutedUntil)
      /\ Shown(r, r, r.isOnline) /\ Named(r, r, r.nickname)
  BY Zenon DEF Suspended, Muted, Shown, Named, SameDates, SameStatus, SameName
<1> QED
  BY <1>1, <1>2, <1>3, <1>4, <1>5, Zenon

LEMMA SuspensionUpdated ==
  ASSUME NEW db \in [Accounts -> Row], NEW a \in Accounts, NEW d \in Dates, NEW written \in BOOLEAN
  PROVE  LET after == UpdateSuspension(db, a, d, written) IN
         /\ after \in [Accounts -> Row]
         /\ \A b \in Accounts :
              Suspended(after[b], db[b], IF b = a /\ written THEN d ELSE db[b].suspendedUntil)
<1> DEFINE after == UpdateSuspension(db, a, d, written)
<1>1. /\ after = [b \in Accounts |-> after[b]]
      /\ \A b \in Accounts : after[b] = IF b = a /\ written THEN [db[b] EXCEPT !.suspendedUntil = d] ELSE db[b]
  BY DEF UpdateSuspension
<1>2. ASSUME NEW b \in Accounts
      PROVE  Suspended(after[b], db[b], IF b = a /\ written THEN d ELSE db[b].suspendedUntil)
  <2>1. /\ Suspended([db[b] EXCEPT !.suspendedUntil = d], db[b], d)
        /\ Suspended(db[b], db[b], db[b].suspendedUntil)
    BY FieldWritten
  <2> QED
    BY <1>1, <2>1
<1> QED
  BY <1>1, <1>2 DEF Suspended

LEMMA SuspensionLifted ==
  ASSUME NEW db \in [Accounts -> Row], NEW n, NEW written \in BOOLEAN
  PROVE  LET after == UnbanPlayer(db, n, written) IN
         /\ after \in [Accounts -> Row]
         /\ \A b \in Accounts :
              Suspended(after[b], db[b],
                        IF db[b].nickname = n /\ written THEN 0 ELSE db[b].suspendedUntil)
<1> DEFINE after == UnbanPlayer(db, n, written)
<1>1. /\ after = [b \in Accounts |-> after[b]]
      /\ \A b \in Accounts :
           after[b] = IF db[b].nickname = n /\ written THEN [db[b] EXCEPT !.suspendedUntil = 0] ELSE db[b]
  BY DEF UnbanPlayer
<1>2. ASSUME NEW b \in Accounts
      PROVE  Suspended(after[b], db[b],
                       IF db[b].nickname = n /\ written THEN 0 ELSE db[b].suspendedUntil)
  <2>1. 0 \in Dates
    BY Constants DEF Dates
  <2>2. /\ Suspended([db[b] EXCEPT !.suspendedUntil = 0], db[b], 0)
        /\ Suspended(db[b], db[b], db[b].suspendedUntil)
    BY <2>1, FieldWritten
  <2> QED
    BY <1>1, <2>2
<1> QED
  BY <1>1, <1>2 DEF Suspended

LEMMA MuteUpdated ==
  ASSUME NEW db \in [Accounts -> Row], NEW a \in Accounts, NEW d \in Dates, NEW written \in BOOLEAN
  PROVE  LET after == UpdateMute(db, a, d, written)
             lifted == UnmuteAccount(db, a, written)
         IN
         /\ after \in [Accounts -> Row] /\ lifted \in [Accounts -> Row]
         /\ \A b \in Accounts :
              /\ Muted(after[b], db[b], IF b = a /\ written THEN d ELSE db[b].mutedUntil)
              /\ Muted(lifted[b], db[b], IF b = a /\ written THEN 0 ELSE db[b].mutedUntil)
<1> DEFINE after == UpdateMute(db, a, d, written)
           lifted == UnmuteAccount(db, a, written)
<1>1. /\ after = [b \in Accounts |-> after[b]]
      /\ \A b \in Accounts : after[b] = IF b = a /\ written THEN [db[b] EXCEPT !.mutedUntil = d] ELSE db[b]
  BY DEF UpdateMute
<1>2. /\ lifted = [b \in Accounts |-> lifted[b]]
      /\ \A b \in Accounts : lifted[b] = IF b = a /\ written THEN [db[b] EXCEPT !.mutedUntil = 0] ELSE db[b]
  BY DEF UnmuteAccount
<1> HIDE DEF after, lifted
<1>3. ASSUME NEW b \in Accounts
      PROVE  /\ Muted(after[b], db[b], IF b = a /\ written THEN d ELSE db[b].mutedUntil)
             /\ Muted(lifted[b], db[b], IF b = a /\ written THEN 0 ELSE db[b].mutedUntil)
  <2>1. 0 \in Dates
    BY Constants DEF Dates
  <2>2. /\ Muted([db[b] EXCEPT !.mutedUntil = d], db[b], d)
        /\ Muted([db[b] EXCEPT !.mutedUntil = 0], db[b], 0)
        /\ Muted(db[b], db[b], db[b].mutedUntil)
    BY <2>1, FieldWritten
  <2> QED
    BY <1>1, <1>2, <2>2
<1>4. after \in [Accounts -> Row] /\ lifted \in [Accounts -> Row]
  BY <1>1, <1>2, <1>3 DEF Muted
<1> QED
  BY <1>3, <1>4 DEF after, lifted

LEMMA OnlineUpdated ==
  ASSUME NEW db \in [Accounts -> Row], NEW a \in Accounts, NEW written \in BOOLEAN
  PROVE  LET on == UpdateOnlineStatus(db, a, written)
             off == UpdateOfflineStatus(db, a, written)
         IN
         /\ on \in [Accounts -> Row] /\ off \in [Accounts -> Row]
         /\ \A b \in Accounts :
              /\ Shown(on[b], db[b], IF b = a /\ written THEN TRUE ELSE db[b].isOnline)
              /\ Shown(off[b], db[b], IF b = a /\ written THEN FALSE ELSE db[b].isOnline)
<1> DEFINE on == UpdateOnlineStatus(db, a, written)
           off == UpdateOfflineStatus(db, a, written)
<1>1. /\ on = [b \in Accounts |-> on[b]]
      /\ \A b \in Accounts : on[b] = IF b = a /\ written THEN [db[b] EXCEPT !.isOnline = TRUE] ELSE db[b]
  BY DEF UpdateOnlineStatus
<1>2. /\ off = [b \in Accounts |-> off[b]]
      /\ \A b \in Accounts : off[b] = IF b = a /\ written THEN [db[b] EXCEPT !.isOnline = FALSE] ELSE db[b]
  BY DEF UpdateOfflineStatus
<1> HIDE DEF on, off
<1>3. ASSUME NEW b \in Accounts
      PROVE  /\ Shown(on[b], db[b], IF b = a /\ written THEN TRUE ELSE db[b].isOnline)
             /\ Shown(off[b], db[b], IF b = a /\ written THEN FALSE ELSE db[b].isOnline)
  <2>1. /\ Shown([db[b] EXCEPT !.isOnline = TRUE], db[b], TRUE)
        /\ Shown([db[b] EXCEPT !.isOnline = FALSE], db[b], FALSE)
        /\ Shown(db[b], db[b], db[b].isOnline)
    BY FieldWritten
  <2>2. CASE b = a /\ written
    BY <1>1, <1>2, <2>1, <2>2, Zenon
  <2>3. CASE ~ (b = a /\ written)
    BY <1>1, <1>2, <2>1, <2>3, Zenon
  <2> QED
    BY <2>2, <2>3
<1>4. on \in [Accounts -> Row] /\ off \in [Accounts -> Row]
  BY <1>1, <1>2, <1>3 DEF Shown
<1> QED
  BY <1>3, <1>4 DEF on, off

LEMMA NamesUpdated ==
  ASSUME NEW db \in [Accounts -> Row], NEW S \in SUBSET Accounts, S # {} => typed \in Names,
         NEW written \in BOOLEAN
  PROVE  LET after == UpdatePlayerName(db, S, written) IN
         /\ after \in [Accounts -> Row]
         /\ \A b \in Accounts : Named(after[b], db[b], IF b \in S /\ written THEN typed ELSE db[b].nickname)
<1> DEFINE after == UpdatePlayerName(db, S, written)
<1>1. /\ after = [b \in Accounts |-> after[b]]
      /\ \A b \in Accounts : after[b] = IF b \in S /\ written THEN [db[b] EXCEPT !.nickname = typed] ELSE db[b]
  BY DEF UpdatePlayerName
<1> HIDE DEF after
<1>2. ASSUME NEW b \in Accounts
      PROVE  Named(after[b], db[b], IF b \in S /\ written THEN typed ELSE db[b].nickname)
  <2>1. CASE b \in S /\ written
    BY <1>1, <2>1, FieldWritten
  <2>2. CASE ~ (b \in S /\ written)
    <3>1. Names # {} /\ db[b] \in Row
      BY DEF Row
    <3>2. Named(db[b], db[b], db[b].nickname)
      BY <3>1, Zenon DEF Named, SameDates, SameStatus
    <3> QED
      BY <1>1, <2>2, <3>2
  <2> QED
    BY <2>1, <2>2
<1>3. after \in [Accounts -> Row]
  BY <1>1, <1>2 DEF Named
<1> QED
  BY <1>2, <1>3 DEF after

\* SessionsManager::removeSession, of a session of account a, or with none, over a table db
Removal(db, c, a, statusWritten, nameWritten) ==
  /\ stored' \in [Accounts -> Row]
  /\ \A b \in Accounts :
       /\ SameDates(stored'[b], db[b])
       /\ stored'[b].isOnline = IF b = a /\ statusWritten THEN FALSE ELSE db[b].isOnline
       /\ stored'[b].nickname = IF b = a /\ b \in renaming /\ nameWritten THEN typed ELSE db[b].nickname
  /\ renaming' = renaming \ {a} /\ listed' = listed \ {c}
  /\ misnamed' = IF nameWritten THEN misnamed ELSE misnamed \cup (renaming \cap {a})
  /\ unsure' = IF a \notin Accounts THEN unsure
               ELSE IF statusWritten /\ ListedOf(a) = {c} THEN unsure \ {a} ELSE unsure \cup {a}

LEMMA SessionRemoved ==
  ASSUME Types, Whereabouts, NEW db \in [Accounts -> Row], NEW c \in Clients, Open(c),
         NEW statusWritten \in BOOLEAN, NEW nameWritten \in BOOLEAN,
         RemoveSession(db, c, statusWritten, nameWritten)
  PROVE  Removal(db, c, session[c].account, statusWritten, nameWritten)
<1> DEFINE a == session[c].account
           S == renaming \cap {a}
<1>1. a \in Accounts \/ a = None
  BY SessionCases
<1>2. /\ renaming \subseteq Accounts
      /\ renaming # {} => typed \in Names
      /\ None \notin Accounts
  BY Constants DEF Types
<1>3. /\ stored' = IF a = None THEN db
                   ELSE UpdatePlayerName(UpdateOfflineStatus(db, a, statusWritten), S, nameWritten)
      /\ renaming' = renaming \ S /\ listed' = listed \ {c}
      /\ misnamed' = IF nameWritten THEN misnamed ELSE misnamed \cup S
      /\ unsure' = IF a = None THEN unsure
                   ELSE IF statusWritten /\ ListedOf(a) = {c} THEN unsure \ {a} ELSE unsure \cup {a}
  BY DEF RemoveSession
<1> HIDE DEF a
<1>4. CASE a = None
  BY <1>2, <1>3, <1>4 DEF SameDates, Removal, a
<1>5. CASE a \in Accounts
  <2> DEFINE off == UpdateOfflineStatus(db, a, statusWritten)
             after == UpdatePlayerName(off, S, nameWritten)
  <2>1. /\ off \in [Accounts -> Row]
        /\ \A b \in Accounts : Shown(off[b], db[b], IF b = a /\ statusWritten THEN FALSE ELSE db[b].isOnline)
    BY <1>5, OnlineUpdated
  <2> HIDE DEF off
  <2>2. S # {} => renaming # {}
    BY Zenon
  <2>3. S \in SUBSET Accounts
    BY <1>5, Zenon
  <2> HIDE DEF S
  <2>4. /\ after \in [Accounts -> Row]
        /\ \A b \in Accounts : Named(after[b], off[b], IF b \in S /\ nameWritten THEN typed ELSE off[b].nickname)
    BY <1>2, <2>1, <2>2, <2>3, NamesUpdated
  <2>5. stored' = after
    BY <1>2, <1>3, <1>5 DEF off
  <2> HIDE DEF after
  <2>6. ASSUME NEW b \in Accounts
        PROVE  /\ SameDates(stored'[b], db[b])
               /\ stored'[b].isOnline = IF b = a /\ statusWritten THEN FALSE ELSE db[b].isOnline
               /\ stored'[b].nickname = IF b = a /\ b \in renaming /\ nameWritten THEN typed ELSE db[b].nickname
    <3>1. SameDates(off[b], db[b]) /\ off[b].nickname = db[b].nickname
      BY <2>1 DEF Shown, SameName
    <3>2. off[b].isOnline = IF b = a /\ statusWritten THEN FALSE ELSE db[b].isOnline
      BY <2>1, Zenon DEF Shown
    <3>3. /\ SameDates(after[b], off[b])
          /\ after[b].nickname = IF b \in S /\ nameWritten THEN typed ELSE off[b].nickname
      BY <2>4 DEF Named
    <3>4. after[b].isOnline = off[b].isOnline
      BY <2>4, Zenon DEF Named, SameStatus
    <3>5. SameDates(stored'[b], db[b])
      BY <2>5, <3>1, <3>3 DEF SameDates
    <3>6. stored'[b].isOnline = IF b = a /\ statusWritten THEN FALSE ELSE db[b].isOnline
      BY <2>5, <3>2, <3>4, Zenon
    <3>7. stored'[b].nickname = IF b = a /\ b \in renaming /\ nameWritten THEN typed ELSE db[b].nickname
      BY <1>5, <2>5, <3>1, <3>3 DEF S
    <3> QED
      BY <3>5, <3>6, <3>7, Zenon
  <2>7. renaming' = renaming \ {a} /\ misnamed' = IF nameWritten THEN misnamed ELSE misnamed \cup (renaming \cap {a})
    BY <1>3 DEF S
  <2>8. unsure' = IF a \notin Accounts THEN unsure
                  ELSE IF statusWritten /\ ListedOf(a) = {c} THEN unsure \ {a} ELSE unsure \cup {a}
    BY <1>2, <1>3, <1>5
  <2>9. stored' \in [Accounts -> Row]
    BY <2>4, <2>5
  <2> QED
    BY <1>3, <2>6, <2>7, <2>8, <2>9, Zenon DEF Removal, a
<1> QED
  BY <1>1, <1>4, <1>5

----------------------------------------------------------------------------
(* What a step leaves alone *)

SuspensionsKept == \A a \in Accounts : stored'[a].suspendedUntil = stored[a].suspendedUntil
MutesKept == \A a \in Accounts : stored'[a].mutedUntil = stored[a].mutedUntil
StatusKept == \A a \in Accounts : SameStatus(stored'[a], stored[a])
NamesKept == \A a \in Accounts : SameName(stored'[a], stored[a])

LEMMA StoredKept ==
  ASSUME stored' = stored
  PROVE  SuspensionsKept /\ MutesKept /\ StatusKept /\ NamesKept
BY DEF SuspensionsKept, MutesKept, StatusKept, NamesKept, SameStatus, SameName

\* What is known not to be stored stays known.
OrdersKept(kind) == \A a \in Accounts : <<kind, a>> \in unstored => <<kind, a>> \in unstored'

LEMMA OrdersStay ==
  ASSUME unstored' = unstored
  PROVE  OrdersKept("ban") /\ OrdersKept("mute")
BY DEF OrdersKept

\* The bans
LEMMA BansStayStored ==
  ASSUME AccInv, SuspensionsKept, OrdersKept("ban"), banUntil' = banUntil
  PROVE  \A a \in Accounts : BanStored(a)'
BY DEF AccInv, BanStored, SuspensionsKept, OrdersKept

\* Nobody comes past the auth server by this step.
NobodyAccepted ==
  \A c \in Clients : Accepted(c)' => Accepted(c) /\ who'[c] = who[c] /\ (c \in earlier => c \in earlier')

LEMMA AcceptedStayRight ==
  ASSUME AccInv, NobodyAccepted, Types', now' >= now, OrdersKept("ban"), banUntil' = banUntil
  PROVE  \A c \in Clients : AcceptedRightly(c)'
<1> SUFFICES ASSUME NEW c \in Clients, Accepted(c)', now' < banUntil'[who'[c]] - ZoneOffset
             PROVE  c \in earlier' \/ <<"ban", who'[c]>> \in unstored'
  BY DEF AcceptedRightly
<1>1. /\ Accepted(c) /\ who'[c] = who[c]
      /\ c \in earlier => c \in earlier'
  BY DEF NobodyAccepted
<1>2. who[c] \in Accounts
  BY <1>1 DEF AccInv, Types, Whereabouts, Accepted
<1>3. now < banUntil[who[c]] - ZoneOffset
  BY <1>1, <1>2, Constants DEF AccInv, Types
<1> QED
  BY <1>1, <1>2, <1>3 DEF AccInv, AcceptedRightly, OrdersKept

\* The mutes
LEMMA MutesStayStored ==
  ASSUME AccInv, MutesKept, OrdersKept("mute"), muteUntil' = muteUntil
  PROVE  \A a \in Accounts : MuteStored(a)'
BY DEF AccInv, MuteStored, MutesKept, OrdersKept

\* No session learns anything of mutes.
SessionsAsMuted ==
  \A c \in Clients : Open(c)' /\ session'[c].account # None =>
    /\ Open(c) /\ session'[c].account = session[c].account
    /\ session'[c].muted = session[c].muted
    /\ c \in passedOver => c \in passedOver'

LEMMA SessionsKept ==
  ASSUME session' = session, passedOver' = passedOver
  PROVE  SessionsAsMuted
BY DEF SessionsAsMuted, Open

LEMMA MutesStayKnown ==
  ASSUME AccInv, SessionsAsMuted, Types', now' >= now, OrdersKept("mute"), muteUntil' = muteUntil
  PROVE  \A c \in Clients : MuteKnown(c)'
<1> SUFFICES ASSUME NEW c \in Clients, Open(c)', session'[c].account # None
             PROVE  LET a == session'[c].account IN
                    \/ /\ now' < muteUntil'[a] - ZoneOffset => session'[c].muted = TRUE
                       /\ muteUntil'[a] = 0 => session'[c].muted = FALSE
                    \/ c \in passedOver' \/ <<"mute", a>> \in unstored'
  BY DEF MuteKnown
<1> DEFINE a == session[c].account
<1>1. /\ Open(c) /\ session'[c].account = a /\ a # None
      /\ session'[c].muted = session[c].muted
      /\ c \in passedOver => c \in passedOver'
  BY Zenon DEF SessionsAsMuted
<1>2. a \in Accounts
  BY <1>1, SessionCases DEF AccInv
<1>3. now' < muteUntil'[a] - ZoneOffset => now < muteUntil[a] - ZoneOffset
  BY <1>2, Constants DEF AccInv, Types
<1>4. \/ /\ now < muteUntil[a] - ZoneOffset => session[c].muted = TRUE
         /\ muteUntil[a] = 0 => session[c].muted = FALSE
      \/ c \in passedOver \/ <<"mute", a>> \in unstored
  BY <1>1, Zenon DEF AccInv, MuteKnown
<1>5. <<"mute", a>> \in unstored => <<"mute", a>> \in unstored'
  BY <1>2 DEF OrdersKept
<1> HIDE DEF a
<1> QED
  BY <1>1, <1>3, <1>4, <1>5, Zenon

\* Who is listed, and as whose
LEMMA StatusStaysKnown ==
  ASSUME AccInv, StatusKept, unsure' = unsure,
         \A a \in Accounts : ListedOf(a)' = ListedOf(a)
  PROVE  \A a \in Accounts : StatusKnown(a)'
<1> SUFFICES ASSUME NEW a \in Accounts
             PROVE  StatusKnown(a)'
  OBVIOUS
<1>1. StatusKnown(a) /\ stored'[a].isOnline = stored[a].isOnline /\ ListedOf(a)' = ListedOf(a)
  BY DEF AccInv, StatusKept, SameStatus
<1> QED
  BY <1>1, Zenon DEF StatusKnown

LEMMA ListedAsBefore ==
  ASSUME UNCHANGED <<session, listed>>
  PROVE  \A a \in Accounts : ListedOf(a)' = ListedOf(a)
BY DEF ListedOf, SessionsOf, Open

\* The nicknames
LEMMA NamesStayKnown ==
  ASSUME AccInv, NamesKept, UNCHANGED <<renaming, typed, given, misnamed>>
  PROVE  \A a \in Accounts : NameKnown(a)'
<1> SUFFICES ASSUME NEW a \in Accounts
             PROVE  NameKnown(a)'
  OBVIOUS
<1>1. NameKnown(a) /\ stored'[a].nickname = stored[a].nickname
  BY DEF AccInv, NamesKept, SameName
<1> QED
  BY <1>1 DEF NameKnown

----------------------------------------------------------------------------
(* A session is removed *)

\* Only the sessions of t change, if any do.
OthersKeep(t) == \A k \in Clients \ {t} : session'[k] = session[k]

LEMMA ListedAfterRemoval ==
  ASSUME NEW t, OthersKeep(t), listed' = listed \ {t}
  PROVE  \A b \in Accounts : ListedOf(b)' = ListedOf(b) \ {t}
<1> SUFFICES ASSUME NEW b \in Accounts, NEW k
             PROVE  k \in ListedOf(b)' <=> k \in ListedOf(b) \ {t}
  OBVIOUS
<1>1. k \in ListedOf(b)' <=> k \in Clients /\ session'[k] # None /\ session'[k].account = b /\ k \in listed /\ k # t
  BY Zenon DEF ListedOf, SessionsOf, Open
<1>2. k \in ListedOf(b) <=> k \in Clients /\ session[k] # None /\ session[k].account = b /\ k \in listed
  BY Zenon DEF ListedOf, SessionsOf, Open
<1>3. k \in Clients /\ k # t => session'[k] = session[k]
  BY DEF OthersKeep
<1> QED
  BY <1>1, <1>2, <1>3

LEMMA StatusAfterRemoval ==
  ASSUME AccInv, NEW db \in [Accounts -> Row], NEW t \in Clients, t \in listed, OthersKeep(t),
         NEW statusWritten \in BOOLEAN, NEW nameWritten \in BOOLEAN,
         RemoveSession(db, t, statusWritten, nameWritten),
         \A b \in Accounts : SameStatus(db[b], stored[b])
  PROVE  \A b \in Accounts : StatusKnown(b)'
<1> DEFINE a == session[t].account
<1>1. Types /\ Whereabouts /\ Open(t)
  BY DEF AccInv, Whereabouts
<1>0. Removal(db, t, a, statusWritten, nameWritten)
  BY <1>1, SessionRemoved
<1>2. /\ \A b \in Accounts : stored'[b].isOnline = IF b = a /\ statusWritten THEN FALSE ELSE db[b].isOnline
      /\ listed' = listed \ {t}
      /\ unsure' = IF a \notin Accounts THEN unsure
                   ELSE IF statusWritten /\ ListedOf(a) = {t} THEN unsure \ {a} ELSE unsure \cup {a}
  BY <1>0, Zenon DEF Removal
<1>3. \A b \in Accounts : ListedOf(b)' = ListedOf(b) \ {t}
  BY <1>2, ListedAfterRemoval
<1>4. ASSUME NEW b \in Accounts PROVE t \in ListedOf(b) => b = a
  BY DEF ListedOf, SessionsOf
<1> HIDE DEF a
<1> SUFFICES ASSUME NEW b \in Accounts, b \notin unsure'
             PROVE  stored'[b].isOnline = IF ListedOf(b)' = {} THEN FALSE ELSE TRUE
  BY Zenon DEF StatusKnown
<1>5. CASE b = a
  <2>1. statusWritten /\ ListedOf(b) = {t}
    BY <1>2, <1>5
  <2>2. ListedOf(b)' = {}
    BY <1>3, <2>1
  <2> QED
    BY <1>2, <1>5, <2>1, <2>2, Zenon
<1>6. CASE b # a
  <2>1. b \notin unsure /\ ListedOf(b)' = ListedOf(b)
    BY <1>2, <1>3, <1>4, <1>6
  <2>2. stored'[b].isOnline = stored[b].isOnline
    BY <1>2, <1>6, Zenon DEF SameStatus
  <2>3. stored[b].isOnline = IF ListedOf(b) = {} THEN FALSE ELSE TRUE
    BY <2>1, Zenon DEF AccInv, StatusKnown
  <2> QED
    BY <2>1, <2>2, <2>3, Zenon
<1> QED
  BY <1>5, <1>6

\* What is queued for the account is written, or known to be lost.
LEMMA NamesAfterRemoval ==
  ASSUME AccInv, NEW db \in [Accounts -> Row], NEW t \in Clients, t \in listed,
         NEW statusWritten \in BOOLEAN, NEW nameWritten \in BOOLEAN,
         RemoveSession(db, t, statusWritten, nameWritten),
         UNCHANGED <<typed, given>>, \A b \in Accounts : SameName(db[b], stored[b])
  PROVE  \A b \in Accounts : NameKnown(b)'
<1> DEFINE a == session[t].account
<1>1. Types /\ Whereabouts /\ Open(t)
  BY DEF AccInv, Whereabouts
<1>0. Removal(db, t, a, statusWritten, nameWritten)
  BY <1>1, SessionRemoved
<1>2. /\ \A b \in Accounts :
           stored'[b].nickname = IF b = a /\ b \in renaming /\ nameWritten THEN typed ELSE db[b].nickname
      /\ renaming' = renaming \ {a}
      /\ misnamed' = IF nameWritten THEN misnamed ELSE misnamed \cup (renaming \cap {a})
  BY <1>0, Zenon DEF Removal
<1> HIDE DEF a
<1> SUFFICES ASSUME NEW b \in Accounts, b \notin misnamed'
             PROVE  IF b \in renaming' THEN typed' = given'[b] ELSE stored'[b].nickname = given'[b]
  BY DEF NameKnown
<1>3. b \notin misnamed /\ db[b].nickname = stored[b].nickname
  BY <1>2 DEF SameName
<1>4. IF b \in renaming THEN typed = given[b] ELSE stored[b].nickname = given[b]
  BY <1>3 DEF AccInv, NameKnown
<1> QED
  BY <1>2, <1>3, <1>4

----------------------------------------------------------------------------
(* Every step keeps the invariant. *)

\* What is left to show of a step, once it is known what it may change
LEMMA StepKeepsAcc ==
  ASSUME Types', Whereabouts',
         \A a \in Accounts : BanStored(a)', \A a \in Accounts : MuteStored(a)',
         \A a \in Accounts : StatusKnown(a)', \A a \in Accounts : NameKnown(a)',
         \A c \in Clients : AcceptedRightly(c)', \A c \in Clients : MuteKnown(c)'
  PROVE  AccInv'
BY DEF AccInv

LEMMA TickKeepsAcc ==
  ASSUME AccInv, Tick
  PROVE  AccInv'
<1> USE DEF Tick, login, play, naming, orders, names
<1>1. Types'
  BY Constants DEF AccInv, Types
<1>2. Whereabouts'
  BY DEF AccInv, Whereabouts, Open
<1>3. now' >= now
  BY DEF AccInv, Types
<1>4. SuspensionsKept /\ MutesKept /\ StatusKept /\ NamesKept
  BY StoredKept
<1>5. NobodyAccepted
  BY DEF NobodyAccepted, Accepted, Open
<1>6. SessionsAsMuted
  BY SessionsKept
<1>7. \A a \in Accounts : ListedOf(a)' = ListedOf(a)
  BY ListedAsBefore
<1> QED
  BY <1>1, <1>2, <1>3, <1>4, <1>5, <1>6, <1>7, StepKeepsAcc, OrdersStay, BansStayStored, AcceptedStayRight,
     MutesStayStored, MutesStayKnown, StatusStaysKnown, NamesStayKnown

LEMMA BeginLoginKeepsAcc ==
  ASSUME AccInv, NEW c \in Clients, NEW a \in Accounts, BeginLogin(c, a)
  PROVE  AccInv'
<1> USE DEF BeginLogin, play, naming, orders, names
<1>1. /\ looking = None /\ who[c] = None /\ c \notin authorised /\ ~ Open(c) /\ session[c] = None
      /\ who' = [who EXCEPT ![c] = a] /\ UNCHANGED <<now, session, authorised>>
  BY Constants DEF AccInv, Types, Whereabouts, Open
<1>2. Admitted(a) \in BOOLEAN /\ a # None /\ now \in Nat /\ now >= 1
  BY Constants DEF AccInv, Types, Admitted, Row, Dates
<1> HIDE DEF Admitted
<1>3. /\ looking' \in [client : Clients, admitted : BOOLEAN]
      /\ looking' # None
  <2>1. looking' = [client |-> c, admitted |-> Admitted(a)]
    OBVIOUS
  <2>2. looking' \in [client : Clients, admitted : BOOLEAN]
    BY <1>2, <2>1
  <2> QED
    BY <2>2, ConstantsAssumption
<1>4. looking'.client = c
  OBVIOUS
<1>5. looking'.admitted = Admitted(a)
  BY Zenon
<1>6. Types'
  <2>1. who' \in [Clients -> Accounts \cup {None}]
    BY <1>1 DEF AccInv, Types
  <2>2. \A k \in Clients : session'[k] \in SessionOf(who'[k])
    BY <1>1 DEF AccInv, Types, SessionOf
  <2> QED
    BY <1>1, <1>3, <2>1, <2>2 DEF AccInv, Types
<1>7. Whereabouts'
  <2>1. who'[c] # None /\ \A k \in Clients : k # c => who'[k] = who[k]
    BY <1>1, <1>2 DEF AccInv, Types
  <2> QED
    BY <1>1, <1>4, <2>1 DEF AccInv, Whereabouts, Open
<1>8. \A k \in Clients : AcceptedRightly(k)'
  <2> SUFFICES ASSUME NEW k \in Clients, Accepted(k)', now' < banUntil'[who'[k]] - ZoneOffset
               PROVE  k \in earlier' \/ <<"ban", who'[k]>> \in unstored'
    BY DEF AcceptedRightly
  <2>1. CASE k = c
    <3>1. looking'.admitted = TRUE
      BY <1>1, <2>1 DEF Accepted, Open
    <3>2. Admitted(a)
      BY <1>5, <3>1, Zenon
    <3>3. stored[a].suspendedUntil <= now /\ who'[k] = a /\ banUntil[a] \in Nat
      BY <1>1, <2>1, <3>2 DEF Admitted, AccInv, Types
    <3>4. now < banUntil[a] - ZoneOffset
      BY <1>1, <3>3
    <3>5. <<"ban", a>> \in unstored
      BY <1>2, <3>3, <3>4, Constants DEF AccInv, BanStored
    <3> QED
      BY <3>3, <3>5
  <2>2. CASE k # c
    <3>1. Accepted(k) /\ who'[k] = who[k]
      BY <1>1, <1>3, <1>4, <2>2 DEF Accepted, Open, AccInv, Types
    <3>2. now < banUntil[who[k]] - ZoneOffset
      BY <1>1, <3>1
    <3> QED
      BY <3>1, <3>2 DEF AccInv, AcceptedRightly
  <2> QED
    BY <2>1, <2>2
<1>9. SuspensionsKept /\ MutesKept /\ StatusKept /\ NamesKept
  BY StoredKept
<1>10. SessionsAsMuted
  BY SessionsKept
<1>11. \A b \in Accounts : ListedOf(b)' = ListedOf(b)
  BY ListedAsBefore
<1>12. now' >= now /\ UNCHANGED <<banUntil, muteUntil, unstored, unsure, renaming, typed, given, misnamed>>
  BY <1>2
<1> QED
  BY <1>6, <1>7, <1>8, <1>9, <1>10, <1>11, <1>12, StepKeepsAcc, OrdersStay, BansStayStored,
     MutesStayStored, MutesStayKnown, StatusStaysKnown, NamesStayKnown

LEMMA EndLoginKeepsAcc ==
  ASSUME AccInv, EndLogin
  PROVE  AccInv'
<1> USE DEF EndLogin, AddHash, play, naming, names
<1> DEFINE c == looking.client
<1>1. /\ looking # None /\ looking' = None /\ UNCHANGED <<now, stored, session, listed>>
      /\ looking \in [client : Clients, admitted : BOOLEAN]
      /\ c \in Clients /\ c \notin authorised /\ ~ Open(c) /\ who[c] # None /\ session[c] = None
  BY DEF AccInv, Types, Whereabouts, Open
<1>2. \/ /\ looking.admitted = TRUE
         /\ authorised' = authorised \cup {c} /\ UNCHANGED <<who, earlier>>
      \/ /\ who' = [who EXCEPT ![c] = None] /\ earlier' = earlier \ {c}
         /\ UNCHANGED authorised
  <2>1. looking.admitted \in BOOLEAN
    BY <1>1, Zenon
  <2> QED
    BY <2>1, Zenon
<1> HIDE DEF c
<1>3. Types'
  <2>1. who' \in [Clients -> Accounts \cup {None}]
    BY <1>1, <1>2 DEF AccInv, Types
  <2>2. \A k \in Clients : session'[k] \in SessionOf(who'[k])
    BY <1>1, <1>2 DEF AccInv, Types, SessionOf
  <2> QED
    BY <1>1, <2>1, <2>2 DEF AccInv, Types
<1>4. \A k \in Clients : k # c => who'[k] = who[k]
  BY <1>2 DEF AccInv, Types
<1>5. Whereabouts'
  <2>1. authorised' \subseteq Clients /\ \A k \in Clients : k \in authorised' => ~ Open(k)'
    BY <1>1, <1>2 DEF AccInv, Whereabouts, Open
  <2>2. \A k \in Clients : k \in authorised' \/ Open(k)' => who'[k] # None
    BY <1>1, <1>2, <1>4 DEF AccInv, Whereabouts, Open
  <2> QED
    BY <1>1, <2>1, <2>2 DEF AccInv, Whereabouts, Open
<1>6. NobodyAccepted
  <2> SUFFICES ASSUME NEW k \in Clients, Accepted(k)'
               PROVE  Accepted(k) /\ who'[k] = who[k] /\ (k \in earlier => k \in earlier')
    BY DEF NobodyAccepted
  <2>1. k \in authorised' \/ Open(k)
    BY <1>1 DEF Accepted, Open
  <2>2. CASE k = c
    <3>1. looking.admitted = TRUE /\ UNCHANGED <<who, earlier>>
      BY <1>1, <1>2, <2>1, <2>2, Zenon
    <3>2. looking.client = k
      BY <2>2 DEF c
    <3> QED
      BY <1>1, <3>1, <3>2, Zenon DEF Accepted
  <2>3. CASE k # c
    BY <1>2, <1>4, <2>1, <2>3 DEF Accepted
  <2> QED
    BY <2>2, <2>3
<1>7. SuspensionsKept /\ MutesKept /\ StatusKept /\ NamesKept
  BY StoredKept
<1>8. SessionsAsMuted
  BY SessionsKept
<1>9. \A b \in Accounts : ListedOf(b)' = ListedOf(b)
  BY ListedAsBefore
<1>10. now' >= now /\ UNCHANGED <<banUntil, muteUntil, unstored, unsure, renaming, typed, given, misnamed>>
  BY DEF AccInv, Types
<1> QED
  BY <1>3, <1>5, <1>6, <1>7, <1>8, <1>9, <1>10, StepKeepsAcc, OrdersStay, BansStayStored, AcceptedStayRight,
     MutesStayStored, MutesStayKnown, StatusStaysKnown, NamesStayKnown

\* The session of client c is s, of account a or of none.
Entered(c, a, s, written) ==
  /\ session' = [session EXCEPT ![c] = s] /\ s # None
  /\ \/ s = Account0 /\ UNCHANGED <<stored, passedOver, unsure>>
     \/ /\ s.account = a /\ stored' = UpdateOnlineStatus(stored, a, written)
        /\ unsure' = IF written THEN unsure \ {a} ELSE unsure \cup {a}
        /\ \/ c \in passedOver'
           \/ s.muted = TRUE /\ stored[a].mutedUntil > now
           \/ s.muted = FALSE /\ ~ (stored[a].mutedUntil > now)
        /\ passedOver \subseteq passedOver'

LEMMA EnterMainKeepsAcc ==
  ASSUME AccInv, NEW c \in Clients, EnterMain(c)
  PROVE  AccInv'
<1> DEFINE a == who[c]
<1>1. /\ c \in authorised /\ a \in Accounts /\ ~ Open(c) /\ session[c] = None /\ c \notin listed
      /\ authorised' = authorised \ {c} /\ listed' = listed \cup {c}
      /\ UNCHANGED <<now, commands, who, looking, banUntil, muteUntil, unstored, earlier, renaming, typed, given, misnamed>>
      /\ now \in Nat /\ now >= 1 /\ a # None
      /\ looking # None => looking.client # c
  <2>1. c \in authorised /\ UNCHANGED <<now, commands, who, looking, banUntil, muteUntil, unstored, earlier, renaming, typed, given, misnamed>>
    BY DEF EnterMain, naming, names
  <2>2. ~ Open(c) /\ who[c] # None /\ (looking # None => looking.client # c) /\ c \notin listed
    BY <2>1 DEF AccInv, Whereabouts
  <2>3. who[c] \in Accounts /\ session[c] = None
    BY <2>2 DEF AccInv, Types, Open
  <2>4. now \in Nat /\ now >= 1
    BY Constants DEF AccInv, Types
  <2>5. authorised' = authorised \ {c} /\ listed' = listed \cup {c}
    BY DEF EnterMain
  <2> QED
    BY <2>1, <2>2, <2>3, <2>4, <2>5
<1>2. PICK s \in SessionOf(a), written \in BOOLEAN : Entered(c, a, s, written)
  <2>1. PICK info \in PlayerInfo(a) :
          \/ /\ info = None
             /\ session' = [session EXCEPT ![c] = Account0] /\ UNCHANGED <<stored, passedOver, unsure>>
          \/ /\ info # None
             /\ \E muted \in IsMuted(info), written \in Written :
                  /\ session' = [session EXCEPT ![c] = [account |-> info, muted |-> muted,
                                                        name |-> stored[info].nickname]]
                  /\ stored' = UpdateOnlineStatus(stored, info, written)
                  /\ unsure' = IF written THEN unsure \ {info} ELSE unsure \cup {info}
                  /\ passedOver' = IF muted = (stored[info].mutedUntil > now)
                                   THEN passedOver ELSE passedOver \cup {c}
    BY Zenon DEF EnterMain
  <2>2. info \in {a, None}
    BY DEF PlayerInfo
  <2>3. stored[a].nickname \in Names
    BY <1>1 DEF AccInv, Types, Row
  <2>4. CASE info = None
    <3>1. Account0 \in SessionOf(a) /\ Account0 # None
      BY <1>1, <2>3, SessionMade
    <3>2. Entered(c, a, Account0, TRUE)
      BY <2>1, <2>4, <3>1, Zenon DEF Entered
    <3> QED
      BY <3>1, <3>2
  <2>5. CASE info = a
    <3>1. PICK muted \in IsMuted(a), written \in Written :
            /\ session' = [session EXCEPT ![c] = [account |-> a, muted |-> muted,
                                                  name |-> stored[a].nickname]]
            /\ stored' = UpdateOnlineStatus(stored, a, written)
            /\ unsure' = IF written THEN unsure \ {a} ELSE unsure \cup {a}
            /\ passedOver' = IF muted = (stored[a].mutedUntil > now)
                             THEN passedOver ELSE passedOver \cup {c}
      BY <1>1, <2>1, <2>5, Zenon
    <3>2. (stored[a].mutedUntil > now) \in BOOLEAN
      BY <1>1 DEF AccInv, Types, Row, Dates
    <3>3. muted \in BOOLEAN /\ written \in BOOLEAN
      BY <3>2, OutcomeOfWrite, Zenon DEF IsMuted
    <3> DEFINE s == [account |-> a, muted |-> muted, name |-> stored[a].nickname]
    <3>4. s \in SessionOf(a) /\ s # None /\ s.account = a /\ s.muted = muted
      BY <1>1, <2>3, <3>3, SessionMade
    <3> HIDE DEF s
    <3>5. passedOver \subseteq passedOver'
      BY <3>1
    <3>6. \/ c \in passedOver'
          \/ muted = TRUE /\ stored[a].mutedUntil > now
          \/ muted = FALSE /\ ~ (stored[a].mutedUntil > now)
      BY <3>1, <3>2, <3>3, Zenon
    <3>7. session' = [session EXCEPT ![c] = s]
      BY <3>1 DEF s
    <3>8. \/ c \in passedOver'
          \/ s.muted = TRUE /\ stored[a].mutedUntil > now
          \/ s.muted = FALSE /\ ~ (stored[a].mutedUntil > now)
      BY <3>4, <3>6, Zenon
    <3> HIDE DEF a
    <3>9. Entered(c, a, s, written)
      BY <3>1, <3>4, <3>5, <3>7, <3>8, Zenon DEF Entered
    <3> QED
      BY <3>3, <3>4, <3>9
  <2> QED
    BY <2>2, <2>4, <2>5
<1>3. /\ session'[c] = s /\ Open(c)' /\ \A k \in Clients : k # c => session'[k] = session[k]
      /\ session' = [k \in Clients |-> session'[k]]
  BY <1>2 DEF Entered, AccInv, Types, Open
<1>4. /\ stored' \in [Accounts -> Row]
      /\ \A b \in Accounts : Shown(stored'[b], stored[b], stored'[b].isOnline)
      /\ s # Account0 => \A b \in Accounts : stored'[b].isOnline = IF b = a /\ written THEN TRUE ELSE stored[b].isOnline
  <2>1. stored \in [Accounts -> Row]
    BY DEF AccInv, Types
  <2>2. CASE s = Account0 /\ stored' = stored
    <3>1. \A b \in Accounts : Shown(stored[b], stored[b], stored[b].isOnline)
      BY <2>1, FieldWritten
    <3> QED
      BY <2>1, <2>2, <3>1
  <2>3. CASE stored' = UpdateOnlineStatus(stored, a, written)
    <3>1. /\ stored' \in [Accounts -> Row]
          /\ \A b \in Accounts :
               Shown(stored'[b], stored[b], IF b = a /\ written THEN TRUE ELSE stored[b].isOnline)
      BY <1>1, <2>1, <2>3, OnlineUpdated
    <3> QED
      BY <3>1, Zenon DEF Shown
  <2> QED
    BY <1>2, <2>2, <2>3 DEF Entered
<1>5. SuspensionsKept /\ MutesKept /\ NamesKept
  BY <1>4 DEF Shown, SameDates, SuspensionsKept, MutesKept, NamesKept
<1>6. Types'
  <2>1. \A k \in Clients : session'[k] \in SessionOf(who'[k])
    BY <1>1, <1>2, <1>3 DEF AccInv, Types, Entered
  <2> QED
    BY <1>1, <1>3, <1>4, <2>1 DEF AccInv, Types
<1>7. Whereabouts'
  <2>1. \A k \in Clients : k # c => (Open(k)' <=> Open(k))
    BY <1>3 DEF Open
  <2>2. listed' \subseteq {k \in Clients : Open(k)'}
    BY <1>1, <1>3, <2>1 DEF AccInv, Whereabouts
  <2>3. \A k \in Clients : k \in authorised' => ~ Open(k)'
    BY <1>1, <2>1 DEF AccInv, Whereabouts
  <2>4. \A k \in Clients : k \in authorised' \/ Open(k)' => who'[k] # None
    BY <1>1, <2>1 DEF AccInv, Whereabouts
  <2>5. looking # None => looking.client \notin authorised' /\ ~ Open(looking.client)' /\ who'[looking.client] # None
    <3>1. looking # None => looking.client \in Clients /\ looking.client # c
      BY <1>1 DEF AccInv, Types
    <3> QED
      BY <1>1, <2>1, <3>1 DEF AccInv, Whereabouts
  <2> QED
    BY <1>1, <2>2, <2>3, <2>4, <2>5 DEF AccInv, Whereabouts
<1>8. NobodyAccepted
  BY <1>1, <1>3 DEF NobodyAccepted, Accepted, Open
<1>9. ASSUME NEW k \in Clients PROVE MuteKnown(k)'
  <2>1. CASE k # c
    <3>1. /\ session'[k] = session[k] /\ now' = now /\ muteUntil' = muteUntil /\ unstored' = unstored
          /\ k \in passedOver => k \in passedOver'
      BY <1>1, <1>2, <1>3, <2>1 DEF Entered
    <3>2. MuteKnown(k)
      BY DEF AccInv
    <3> QED
      BY <3>1, <3>2, Zenon DEF MuteKnown, Open
  <2>2. CASE k = c
    <3> SUFFICES ASSUME s.account # None, <<"mute", s.account>> \notin unstored, c \notin passedOver'
                 PROVE  /\ now < muteUntil[s.account] - ZoneOffset => s.muted = TRUE
                        /\ muteUntil[s.account] = 0 => s.muted = FALSE
      BY <1>1, <1>3, <2>2, Zenon DEF MuteKnown
    <3>1. /\ s.account = a
          /\ \/ s.muted = TRUE /\ stored[a].mutedUntil > now
             \/ s.muted = FALSE /\ ~ (stored[a].mutedUntil > now)
      BY <1>2 DEF Account0, Entered
    <3>2. stored[a].mutedUntil = IF muteUntil[a] = 0 THEN 0 ELSE muteUntil[a] - ZoneOffset
      BY <1>1, <3>1 DEF AccInv, MuteStored
    <3>3. muteUntil[a] \in Nat
      BY <1>1 DEF AccInv, Types
    <3> HIDE DEF a
    <3>4. now < muteUntil[a] - ZoneOffset => stored[a].mutedUntil > now
      BY <1>1, <3>2, <3>3, Constants
    <3>5. muteUntil[a] = 0 => ~ (stored[a].mutedUntil > now)
      BY <1>1, <3>2, <3>3, Constants
    <3> QED
      BY <3>1, <3>4, <3>5, Zenon
  <2> QED
    BY <2>1, <2>2
<1>10. ASSUME NEW b \in Accounts PROVE StatusKnown(b)'
  <2>1. ASSUME NEW k PROVE k \in ListedOf(b)' <=> IF k = c THEN s.account = b ELSE k \in ListedOf(b)
    BY <1>1, <1>3, Zenon DEF ListedOf, SessionsOf, Open
  <2>2. c \notin ListedOf(b)
    BY <1>1 DEF ListedOf
  <2>3. CASE s = Account0
    <3>1. ListedOf(b)' = ListedOf(b)
      BY <2>1, <2>2, <2>3, Constants DEF Account0
    <3>2. stored' = stored /\ unsure' = unsure
      BY <1>2, <2>3, <1>1 DEF Account0, Entered
    <3>3. StatusKnown(b)
      BY DEF AccInv
    <3> QED
      BY <3>1, <3>2, <3>3, Zenon DEF StatusKnown
  <2>4. CASE s # Account0 /\ b = a
    <3>1. ListedOf(b)' # {}
      BY <1>2, <2>1, <2>4 DEF Entered
    <3>2. b \notin unsure' => written
      BY <1>2, <2>4 DEF Entered
    <3> QED
      BY <1>4, <2>4, <3>1, <3>2, Zenon DEF StatusKnown
  <2>5. CASE s # Account0 /\ b # a
    <3>1. ListedOf(b)' = ListedOf(b)
      BY <1>2, <2>1, <2>2, <2>5 DEF Entered
    <3>2. b \notin unsure' => b \notin unsure
      BY <1>2, <2>5 DEF Entered
    <3>3. StatusKnown(b)
      BY DEF AccInv
    <3>4. stored'[b].isOnline = stored[b].isOnline
      BY <1>4, <2>5, Zenon
    <3> QED
      BY <3>1, <3>2, <3>3, <3>4, Zenon DEF StatusKnown
  <2> QED
    BY <2>3, <2>4, <2>5
<1> QED
  BY <1>1, <1>5, <1>6, <1>7, <1>8, <1>9, <1>10, StepKeepsAcc, OrdersStay, BansStayStored, AcceptedStayRight,
     MutesStayStored, NamesStayKnown

LEMMA LeaveKeepsAcc ==
  ASSUME AccInv, NEW c \in Clients, Leave(c)
  PROVE  AccInv'
<1>1. /\ who' = [who EXCEPT ![c] = None] /\ authorised' = authorised \ {c}
      /\ session' = [session EXCEPT ![c] = None]
      /\ earlier' = earlier \ {c} /\ passedOver' = passedOver \ {c}
      /\ UNCHANGED <<now, commands, looking, typed, banUntil, muteUntil, unstored, given>>
      /\ looking # None => looking.client # c
  BY DEF Leave
<1>2. /\ who'[c] = None /\ session'[c] = None /\ ~ Open(c)'
      /\ \A k \in Clients : k # c => session'[k] = session[k] /\ who'[k] = who[k] /\ (Open(k)' <=> Open(k))
      /\ session' = [k \in Clients |-> session'[k]] /\ who' \in [Clients -> Accounts \cup {None}]
  BY <1>1 DEF AccInv, Types, Open
<1>3. OthersKeep(c)
  BY <1>2 DEF OthersKeep
<1>4. stored \in [Accounts -> Row] /\ \A b \in Accounts : SameStatus(stored[b], stored[b]) /\ SameName(stored[b], stored[b])
  BY DEF AccInv, Types, SameStatus, SameName
<1>5. /\ stored' \in [Accounts -> Row] /\ SuspensionsKept /\ MutesKept
      /\ renaming' \subseteq renaming /\ listed' = listed \ {c}
      /\ \A b \in Accounts : StatusKnown(b)'
      /\ \A b \in Accounts : NameKnown(b)'
  <2>1. CASE c \in listed
    <3>1. PICK statusWritten \in BOOLEAN, nameWritten \in BOOLEAN :
            RemoveSession(stored, c, statusWritten, nameWritten)
      BY <2>1, OutcomeOfWrite, Zenon DEF Leave
    <3>2. Open(c) /\ Types /\ Whereabouts
      BY <2>1 DEF AccInv, Whereabouts
    <3>3. Removal(stored, c, session[c].account, statusWritten, nameWritten)
      BY <1>4, <3>1, <3>2, SessionRemoved
    <3>4. \A b \in Accounts : StatusKnown(b)'
      BY <1>3, <1>4, <2>1, <3>1, StatusAfterRemoval
    <3>5. \A b \in Accounts : NameKnown(b)'
      BY <1>1, <1>4, <2>1, <3>1, NamesAfterRemoval
    <3> QED
      BY <3>3, <3>4, <3>5, Zenon DEF Removal, SuspensionsKept, MutesKept, SameDates
  <2>2. CASE c \notin listed
    <3>1. UNCHANGED <<stored, renaming, misnamed, listed, unsure>>
      BY <2>2 DEF Leave
    <3>2. SuspensionsKept /\ MutesKept /\ StatusKept /\ NamesKept
      BY <3>1, StoredKept
    <3>3. listed' = listed \ {c}
      BY <2>2, <3>1
    <3>4. \A b \in Accounts : ListedOf(b)' = ListedOf(b)
      <4>1. \A b \in Accounts : ListedOf(b)' = ListedOf(b) \ {c}
        BY <1>3, <3>3, ListedAfterRemoval
      <4> QED
        BY <2>2, <4>1 DEF ListedOf
    <3>5. \A b \in Accounts : StatusKnown(b)'
      BY <3>1, <3>2, <3>4, StatusStaysKnown
    <3>6. \A b \in Accounts : NameKnown(b)'
      BY <1>1, <3>1, <3>2, NamesStayKnown
    <3> QED
      BY <1>4, <3>1, <3>2, <3>3, <3>5, <3>6, Zenon
  <2> QED
    BY <2>1, <2>2
<1>6. Types'
  <2>1. \A k \in Clients : session'[k] \in SessionOf(who'[k])
    BY <1>2 DEF AccInv, Types, SessionOf
  <2> QED
    BY <1>1, <1>2, <1>5, <2>1 DEF AccInv, Types
<1>7. Whereabouts'
  <2>1. authorised' \subseteq Clients /\ listed' \subseteq {k \in Clients : Open(k)'}
    BY <1>1, <1>2, <1>5 DEF AccInv, Whereabouts
  <2>2. ASSUME NEW k \in Clients
        PROVE  /\ k \in authorised' \/ Open(k)' => who'[k] # None
               /\ k \in authorised' => ~ Open(k)'
    BY <1>1, <1>2 DEF AccInv, Whereabouts
  <2>3. looking # None => looking.client \in Clients /\ looking.client # c
    BY <1>1 DEF AccInv, Types
  <2>4. looking # None => looking.client \notin authorised' /\ ~ Open(looking.client)' /\ who'[looking.client] # None
    BY <1>1, <1>2, <2>3 DEF AccInv, Whereabouts
  <2> QED
    BY <1>1, <2>1, <2>2, <2>4 DEF Whereabouts
<1>8. NobodyAccepted
  <2> SUFFICES ASSUME NEW k \in Clients, Accepted(k)'
               PROVE  Accepted(k) /\ who'[k] = who[k] /\ (k \in earlier => k \in earlier')
    BY DEF NobodyAccepted
  <2>1. k # c
    BY <1>1, <1>2 DEF Accepted
  <2> QED
    BY <1>1, <1>2, <2>1 DEF Accepted
<1>9. SessionsAsMuted
  BY <1>1, <1>2 DEF SessionsAsMuted
<1>10. now' >= now
  BY <1>1 DEF AccInv, Types
<1> QED
  BY <1>1, <1>5, <1>6, <1>7, <1>8, <1>9, <1>10, StepKeepsAcc, OrdersStay, BansStayStored,
     AcceptedStayRight, MutesStayStored, MutesStayKnown

\* A session that is removed by command stays open: where everybody is does not change.
LEMMA PlacesAfterRemoval ==
  ASSUME AccInv, NEW t, UNCHANGED <<who, looking, authorised, session>>, listed' \subseteq listed
  PROVE  Whereabouts'
BY DEF AccInv, Whereabouts, Open

LEMMA DisconnectKeepsAcc ==
  ASSUME AccInv, NEW c \in Clients, NEW n \in Names, Disconnect(c, n)
  PROVE  AccInv'
<1>1. /\ UNCHANGED <<now, who, looking, authorised, session, typed, banUntil, muteUntil, unstored, earlier, passedOver, given>>
      /\ commands' = commands + 1 /\ commands < MaxCommands
  BY DEF Disconnect, Command, MayCommand, login, orders
<1>2. PICK t \in FindSessionByName(n), statusWritten \in BOOLEAN, nameWritten \in BOOLEAN :
        RemoveSession(stored, t, statusWritten, nameWritten)
  BY OutcomeOfWrite, Zenon DEF Disconnect
<1>3. t \in Clients /\ t \in listed /\ Open(t) /\ Types /\ Whereabouts
  BY FoundByName DEF AccInv
<1>4. stored \in [Accounts -> Row] /\ \A b \in Accounts : SameStatus(stored[b], stored[b]) /\ SameName(stored[b], stored[b])
  BY DEF AccInv, Types, SameStatus, SameName
<1>5. Removal(stored, t, session[t].account, statusWritten, nameWritten)
  BY <1>2, <1>3, <1>4, SessionRemoved
<1>6. /\ stored' \in [Accounts -> Row] /\ SuspensionsKept /\ MutesKept
      /\ renaming' \subseteq renaming /\ listed' \subseteq listed
  BY <1>5, Zenon DEF Removal, SuspensionsKept, MutesKept, SameDates
<1>7. \A b \in Accounts : StatusKnown(b)'
  <2>1. OthersKeep(t)
    BY <1>1 DEF OthersKeep
  <2> QED
    BY <1>2, <1>3, <1>4, <2>1, StatusAfterRemoval
<1>8. \A b \in Accounts : NameKnown(b)'
  BY <1>1, <1>2, <1>3, <1>4, NamesAfterRemoval
<1>9. Types'
  BY <1>1, <1>6, Constants DEF AccInv, Types
<1>10. Whereabouts'
  BY <1>1, <1>6, PlacesAfterRemoval
<1>11. NobodyAccepted /\ SessionsAsMuted
  BY <1>1, SessionsKept DEF NobodyAccepted, Accepted, Open
<1>12. now' >= now
  BY <1>1 DEF AccInv, Types
<1> QED
  BY <1>1, <1>6, <1>7, <1>8, <1>9, <1>10, <1>11, <1>12, StepKeepsAcc, OrdersStay, BansStayStored,
     AcceptedStayRight, MutesStayStored, MutesStayKnown

\* The date that a duration becomes is one that the table can hold.
LEMMA DateOfDuration ==
  ASSUME AccInv, NEW d \in Durations
  PROVE  /\ UntilAfter(d) \in Dates
         /\ d # Forever => d = Day /\ UntilAfter(d) = now + d - ZoneOffset
         /\ (IF d = Forever THEN MaxTime + Day ELSE now + d) \in Nat \ {0}
BY Constants DEF AccInv, Types, Durations, Forever, UntilAfter, Dates

\* What an order of a kind does to what is known not to be stored
LEMMA OrderRecorded ==
  ASSUME NEW kind, NEW a, NEW d, NEW written \in BOOLEAN, Recorded(kind, a, d, written)
  PROVE  /\ <<kind, a>> \in unstored' \/ (written /\ d # Forever)
         /\ \A k, b : (k # kind \/ b # a) => (<<k, b>> \in unstored' <=> <<k, b>> \in unstored)
BY DEF Recorded

LEMMA BanKeepsAcc ==
  ASSUME AccInv, NEW c \in Clients, NEW n \in Names, NEW d \in Durations, Ban(c, n, d)
  PROVE  AccInv'
<1>1. /\ UNCHANGED <<now, who, looking, authorised, session, typed, muteUntil, passedOver, given>>
      /\ commands' = commands + 1 /\ commands < MaxCommands
  BY DEF Ban, Command, MayCommand, login
<1>2. PICK t \in FindSessionByName(n), statusWritten \in BOOLEAN, written \in BOOLEAN, nameWritten \in BOOLEAN :
        LET a == session[t].account IN
        /\ RemoveSession(UpdateSuspension(stored, a, UntilAfter(d), written), t, statusWritten, nameWritten)
        /\ banUntil' = [banUntil EXCEPT ![a] = IF d = Forever THEN MaxTime + Day ELSE now + d]
        /\ earlier' = earlier \cup {k \in Clients : who[k] = a}
        /\ Recorded("ban", a, d, written)
  <2>1. PICK t \in FindSessionByName(n), statusWritten \in Written, written \in Written :
          /\ \E nameWritten \in NameWritten(t) :
               RemoveSession(UpdateSuspension(stored, session[t].account, UntilAfter(d), written), t,
                             statusWritten, nameWritten)
          /\ banUntil' = [banUntil EXCEPT ![session[t].account] = IF d = Forever THEN MaxTime + Day ELSE now + d]
          /\ earlier' = earlier \cup {k \in Clients : who[k] = session[t].account}
          /\ Recorded("ban", session[t].account, d, written)
    BY Zenon DEF Ban
  <2>2. PICK nameWritten \in NameWritten(t) :
          RemoveSession(UpdateSuspension(stored, session[t].account, UntilAfter(d), written), t,
                        statusWritten, nameWritten)
    BY <2>1, Zenon
  <2>3. statusWritten \in BOOLEAN /\ written \in BOOLEAN /\ nameWritten \in BOOLEAN
    BY OutcomeOfWrite, Zenon
  <2> QED
    BY <2>1, <2>2, <2>3, Zenon
<1> DEFINE a == session[t].account
           db == UpdateSuspension(stored, a, UntilAfter(d), written)
<1>3. /\ t \in Clients /\ t \in listed /\ Open(t) /\ Types /\ Whereabouts
      /\ a = who[t] /\ a \in Accounts
  BY FoundByName DEF AccInv
<1>4. /\ UntilAfter(d) \in Dates
      /\ d # Forever => d = Day /\ UntilAfter(d) = now + d - ZoneOffset
      /\ (IF d = Forever THEN MaxTime + Day ELSE now + d) \in Nat \ {0}
  BY DateOfDuration
<1>5. /\ db \in [Accounts -> Row]
      /\ \A b \in Accounts :
           Suspended(db[b], stored[b], IF b = a /\ written THEN UntilAfter(d) ELSE stored[b].suspendedUntil)
  BY <1>3, <1>4, SuspensionUpdated DEF Types
<1>6. /\ RemoveSession(db, t, statusWritten, nameWritten)
      /\ banUntil' = [banUntil EXCEPT ![a] = IF d = Forever THEN MaxTime + Day ELSE now + d]
      /\ earlier' = earlier \cup {k \in Clients : who[k] = a}
      /\ Recorded("ban", a, d, written)
  BY <1>2
<1> HIDE DEF db
<1>7. \A b \in Accounts :
        /\ SameStatus(db[b], stored[b]) /\ SameName(db[b], stored[b])
        /\ db[b].mutedUntil = stored[b].mutedUntil
        /\ db[b].suspendedUntil = IF b = a /\ written THEN UntilAfter(d) ELSE stored[b].suspendedUntil
  BY <1>5 DEF Suspended
<1>8. Removal(db, t, a, statusWritten, nameWritten)
  BY <1>3, <1>5, <1>6, SessionRemoved
<1>9. /\ stored' \in [Accounts -> Row]
      /\ renaming' \subseteq renaming /\ listed' \subseteq listed
      /\ \A b \in Accounts : stored'[b].suspendedUntil = db[b].suspendedUntil
      /\ \A b \in Accounts : stored'[b].mutedUntil = db[b].mutedUntil
  BY <1>8, Zenon DEF Removal, SameDates
<1>10. \A b \in Accounts : StatusKnown(b)'
  <2>1. OthersKeep(t)
    BY <1>1 DEF OthersKeep
  <2> QED
    BY <1>3, <1>5, <1>6, <1>7, <2>1, StatusAfterRemoval
<1>11. \A b \in Accounts : NameKnown(b)'
  BY <1>1, <1>3, <1>5, <1>6, <1>7, NamesAfterRemoval
<1> HIDE DEF a
<1>12. /\ banUntil' \in [Accounts -> Nat]
       /\ \A b \in Accounts : banUntil'[b] = IF b # a THEN banUntil[b] ELSE IF d = Forever THEN MaxTime + Day ELSE now + d
  BY <1>3, <1>4, <1>6 DEF Types
<1>13. Types'
  BY <1>1, <1>3, <1>9, <1>12, Constants DEF Types
<1>14. Whereabouts'
  BY <1>1, <1>9, PlacesAfterRemoval
<1>15. /\ <<"ban", a>> \in unstored' \/ (written /\ d # Forever)
       /\ \A b : b # a => (<<"ban", b>> \in unstored' <=> <<"ban", b>> \in unstored)
       /\ \A b : <<"mute", b>> \in unstored' <=> <<"mute", b>> \in unstored
  <2>1. \A k, b : (k # "ban" \/ b # a) => (<<k, b>> \in unstored' <=> <<k, b>> \in unstored)
    BY <1>6, OrderRecorded
  <2>2. <<"ban", a>> \in unstored' \/ (written /\ d # Forever)
    BY <1>6, OrderRecorded
  <2>3. "mute" # "ban"
    OBVIOUS
  <2> QED
    BY <2>1, <2>2, <2>3, Zenon
<1>16. ASSUME NEW b \in Accounts PROVE BanStored(b)'
  <2>1. CASE b = a
    <3>1. CASE <<"ban", a>> \in unstored'
      BY <2>1, <3>1 DEF BanStored
    <3>2. CASE written /\ d # Forever
      <4>1. stored'[b].suspendedUntil = UntilAfter(d)
        BY <1>7, <1>9, <2>1, <3>2
      <4>2. banUntil'[b] = now + d
        BY <1>12, <2>1, <3>2
      <4>3. UntilAfter(d) = now + d - ZoneOffset /\ d = Day /\ now \in Nat
        BY <1>4, <3>2 DEF AccInv, Types
      <4>4. stored'[b].suspendedUntil = banUntil'[b] - ZoneOffset
        BY <4>1, <4>2, <4>3, Constants
      <4> QED
        BY <4>4 DEF BanStored
    <3> QED
      BY <1>15, <3>1, <3>2
  <2>2. CASE b # a
    <3>1. stored'[b].suspendedUntil = stored[b].suspendedUntil /\ banUntil'[b] = banUntil[b]
      BY <1>7, <1>9, <1>12, <2>2
    <3>2. <<"ban", b>> \in unstored => <<"ban", b>> \in unstored'
      BY <1>15, <2>2, Zenon
    <3>3. BanStored(b)
      BY DEF AccInv
    <3> QED
      BY <3>1, <3>2, <3>3, Zenon DEF BanStored
  <2> QED
    BY <2>1, <2>2
<1>17. ASSUME NEW k \in Clients PROVE AcceptedRightly(k)'
  <2> SUFFICES ASSUME Accepted(k)', now' < banUntil'[who'[k]] - ZoneOffset
               PROVE  k \in earlier' \/ <<"ban", who'[k]>> \in unstored'
    BY DEF AcceptedRightly
  <2>1. CASE who[k] = a
    BY <1>6, <2>1
  <2>2. CASE who[k] # a
    <3>1. Accepted(k) /\ who'[k] = who[k]
      BY <1>1 DEF Accepted, Open
    <3>2. who[k] \in Accounts
      BY <1>3, <3>1 DEF Types, Whereabouts, Accepted
    <3>3. now < banUntil[who[k]] - ZoneOffset
      BY <1>1, <1>12, <2>2, <3>2
    <3> QED
      BY <1>1, <1>6, <1>15, <2>2, <3>1, <3>3 DEF AccInv, AcceptedRightly
  <2> QED
    BY <2>1, <2>2
<1>18. MutesKept /\ OrdersKept("mute")
  BY <1>7, <1>9, <1>15 DEF MutesKept, OrdersKept
<1>19. SessionsAsMuted
  BY <1>1, SessionsKept
<1>20. now' >= now
  BY <1>1 DEF AccInv, Types
<1> QED
  BY <1>1, <1>10, <1>11, <1>13, <1>14, <1>16, <1>17, <1>18, <1>19, <1>20, StepKeepsAcc,
     MutesStayStored, MutesStayKnown

LEMMA UnbanKeepsAcc ==
  ASSUME AccInv, NEW c \in Clients, NEW n \in Names, Unban(c, n)
  PROVE  AccInv'
<1>1. /\ UNCHANGED <<now, who, looking, authorised, session, listed, renaming, typed, muteUntil, unstored,
                     earlier, passedOver, given, misnamed, unsure>>
      /\ commands' = commands + 1 /\ commands < MaxCommands
  BY DEF Unban, Command, MayCommand, login, play, naming, names
<1>2. PICK written \in BOOLEAN :
        /\ stored' = UnbanPlayer(stored, n, written)
        /\ banUntil' = [b \in Accounts |-> IF written /\ stored[b].nickname = n THEN 0 ELSE banUntil[b]]
  BY OutcomeOfWrite, Zenon DEF Unban
<1>3. /\ stored' \in [Accounts -> Row]
      /\ \A b \in Accounts :
           Suspended(stored'[b], stored[b],
                     IF stored[b].nickname = n /\ written THEN 0 ELSE stored[b].suspendedUntil)
  BY <1>2, SuspensionLifted DEF AccInv, Types
<1>4. MutesKept /\ StatusKept /\ NamesKept
  BY <1>3 DEF Suspended, MutesKept, StatusKept, NamesKept
<1>5. Types'
  BY <1>1, <1>2, <1>3, Constants DEF AccInv, Types
<1>6. Whereabouts'
  BY <1>1, PlacesAfterRemoval
<1>7. ASSUME NEW b \in Accounts PROVE BanStored(b)'
  <2>1. CASE written /\ stored[b].nickname = n
    BY <1>2, <2>1 DEF BanStored
  <2>2. CASE ~ (written /\ stored[b].nickname = n)
    <3>1. stored'[b].suspendedUntil = stored[b].suspendedUntil /\ banUntil'[b] = banUntil[b]
      BY <1>2, <1>3, <2>2 DEF Suspended
    <3>2. BanStored(b)
      BY DEF AccInv
    <3> QED
      BY <1>1, <3>1, <3>2 DEF BanStored
  <2> QED
    BY <2>1, <2>2
<1>8. ASSUME NEW k \in Clients PROVE AcceptedRightly(k)'
  <2> SUFFICES ASSUME Accepted(k)', now' < banUntil'[who'[k]] - ZoneOffset
               PROVE  k \in earlier' \/ <<"ban", who'[k]>> \in unstored'
    BY DEF AcceptedRightly
  <2>1. Accepted(k) /\ who'[k] = who[k]
    BY <1>1 DEF Accepted, Open
  <2>2. who[k] \in Accounts
    BY <2>1 DEF AccInv, Types, Whereabouts, Accepted
  <2>3. banUntil'[who[k]] = 0 \/ banUntil'[who[k]] = banUntil[who[k]]
    BY <1>2, <2>2
  <2>4. now < banUntil[who[k]] - ZoneOffset
    BY <1>1, <2>1, <2>3, Constants DEF AccInv, Types
  <2> QED
    BY <1>1, <2>1, <2>4 DEF AccInv, AcceptedRightly
<1>9. SessionsAsMuted /\ \A b \in Accounts : ListedOf(b)' = ListedOf(b)
  BY <1>1, SessionsKept, ListedAsBefore
<1>10. now' >= now
  BY <1>1 DEF AccInv, Types
<1> QED
  BY <1>1, <1>4, <1>5, <1>6, <1>7, <1>8, <1>9, <1>10, StepKeepsAcc, OrdersStay, MutesStayStored,
     MutesStayKnown, StatusStaysKnown, NamesStayKnown

\* What /mute and /unmute have in common: session t is told (muted), the order is remembered
\* as one until a time, 0 for an end of the mute, and stored as a date unless that fails.
MuteOrder(t, muted, until, date, d, written) ==
  LET a == session[t].account IN
  /\ session' = [session EXCEPT ![t].muted = muted]
  /\ stored' \in [Accounts -> Row]
  /\ \A b \in Accounts : Muted(stored'[b], stored[b], IF b = a /\ written THEN date ELSE stored[b].mutedUntil)
  /\ muteUntil' = [muteUntil EXCEPT ![a] = until]
  /\ Recorded("mute", a, d, written) /\ ReachesOnly(t, a)
  /\ UNCHANGED <<now, who, looking, authorised, listed, renaming, typed, banUntil, earlier, given, misnamed, unsure>>
  /\ commands' = commands + 1 /\ commands < MaxCommands

LEMMA MuteOrderKeepsAcc ==
  ASSUME AccInv, NEW n \in Names, NEW t \in FindSessionByName(n), NEW muted \in BOOLEAN,
         NEW until \in Nat, NEW date \in Dates, NEW d, NEW written \in BOOLEAN,
         MuteOrder(t, muted, until, date, d, written),
         \/ muted = TRUE /\ until # 0
         \/ muted = FALSE /\ until = 0,
         d # Forever => date = IF until = 0 THEN 0 ELSE until - ZoneOffset
  PROVE  AccInv'
<1> DEFINE a == session[t].account
<1>1. /\ t \in Clients /\ Open(t) /\ Types /\ Whereabouts /\ a = who[t] /\ a \in Accounts
  BY FoundByName DEF AccInv
<1>2. /\ UNCHANGED <<now, who, looking, authorised, listed, renaming, typed, banUntil, earlier, given, misnamed, unsure>>
      /\ commands' = commands + 1 /\ commands < MaxCommands
      /\ session' = [session EXCEPT ![t].muted = muted]
      /\ muteUntil' = [muteUntil EXCEPT ![a] = until]
      /\ Recorded("mute", a, d, written)
      /\ passedOver' = (passedOver \cup {k \in Clients : who[k] = a}) \ {t}
      /\ stored' \in [Accounts -> Row]
  BY DEF MuteOrder, ReachesOnly
<1>3. \A b \in Accounts :
        Muted(stored'[b], stored[b], IF b = a /\ written THEN date ELSE stored[b].mutedUntil)
  BY DEF MuteOrder
<1>4. /\ session[t] \in [account : {a}, muted : BOOLEAN, name : Names]
      /\ session[t] \in SessionOf(who[t])
  BY <1>1, SessionCases DEF Types
<1> HIDE DEF a
<1>5. /\ session' = [k \in Clients |-> session'[k]]
      /\ session'[t] = [session[t] EXCEPT !.muted = muted]
      /\ \A k \in Clients : k # t => session'[k] = session[k]
  BY <1>1, <1>2 DEF Types
<1>6. /\ session'[t] \in [account : {a}, muted : BOOLEAN, name : Names]
      /\ session'[t].account = a
  BY <1>4, <1>5
<1>7. session'[t].muted = muted
  BY <1>4, <1>5, Zenon
<1>8. session'[t] # None
  BY <1>1, <1>6, ConstantsAssumption
<1>9. Types'
  <2>1. \A k \in Clients : session'[k] \in SessionOf(who'[k])
    BY <1>1, <1>2, <1>5, <1>6 DEF Types, SessionOf
  <2>2. muteUntil' \in [Accounts -> Nat]
    BY <1>1, <1>2 DEF Types
  <2>3. commands' \in 0 .. MaxCommands
    BY <1>1, <1>2, Constants DEF Types
  <2> QED
    BY <1>1, <1>2, <1>5, <2>1, <2>2, <2>3 DEF Types
<1>10. \A k \in Clients : Open(k)' <=> Open(k)
  BY <1>1, <1>5, <1>8 DEF Open
<1>11. Whereabouts'
  <2>1. looking # None => looking.client \in Clients
    BY <1>1 DEF Types
  <2> QED
    BY <1>1, <1>2, <1>10, <2>1 DEF Whereabouts
<1>12. /\ <<"mute", a>> \in unstored' \/ (written /\ d # Forever)
       /\ \A b : b # a => (<<"mute", b>> \in unstored' <=> <<"mute", b>> \in unstored)
       /\ \A b : <<"ban", b>> \in unstored' <=> <<"ban", b>> \in unstored
  <2>1. \A k, b : (k # "mute" \/ b # a) => (<<k, b>> \in unstored' <=> <<k, b>> \in unstored)
    BY <1>2, OrderRecorded
  <2>2. <<"mute", a>> \in unstored' \/ (written /\ d # Forever)
    BY <1>2, OrderRecorded
  <2>3. "mute" # "ban"
    OBVIOUS
  <2> QED
    BY <2>1, <2>2, <2>3, Zenon
<1>13. \A b \in Accounts : muteUntil'[b] = IF b = a THEN until ELSE muteUntil[b]
  BY <1>1, <1>2 DEF Types
<1>14. ASSUME NEW b \in Accounts PROVE MuteStored(b)'
  <2>1. stored'[b].mutedUntil = IF b = a /\ written THEN date ELSE stored[b].mutedUntil
    BY <1>3 DEF Muted
  <2>2. CASE b = a /\ <<"mute", a>> \in unstored'
    BY <2>2 DEF MuteStored
  <2>3. CASE b = a /\ written /\ d # Forever
    BY <1>13, <2>1, <2>3 DEF MuteStored
  <2>4. CASE b # a
    <3>1. MuteStored(b)
      BY DEF AccInv
    <3>2. muteUntil'[b] = muteUntil[b] /\ stored'[b].mutedUntil = stored[b].mutedUntil
      BY <1>13, <2>1, <2>4
    <3>3. <<"mute", b>> \in unstored => <<"mute", b>> \in unstored'
      BY <1>12, <2>4, Zenon
    <3> QED
      BY <3>1, <3>2, <3>3, Zenon DEF MuteStored
  <2> QED
    BY <1>12, <2>2, <2>3, <2>4
<1>15. ASSUME NEW k \in Clients PROVE MuteKnown(k)'
  <2>1. CASE k = t
    <3>1. muteUntil'[a] = until
      BY <1>1, <1>13
    <3>2. now < 0 - ZoneOffset => FALSE
      BY <1>1, Constants DEF Types
    <3>3. now' < muteUntil'[a] - ZoneOffset => session'[t].muted = TRUE
      <4>1. CASE muted = TRUE
        BY <1>7, <4>1, Zenon
      <4>2. CASE until = 0
        BY <1>2, <3>1, <3>2, <4>2
      <4> QED
        BY <4>1, <4>2, Zenon
    <3>4. muteUntil'[a] = 0 => session'[t].muted = FALSE
      BY <1>7, <3>1, Zenon
    <3> QED
      BY <1>6, <2>1, <3>3, <3>4, Zenon DEF MuteKnown
  <2>2. CASE k # t /\ who[k] = a
    <3>1. k \in passedOver'
      BY <1>2, <2>2
    <3> QED
      BY <3>1, Zenon DEF MuteKnown
  <2>3. CASE k # t /\ who[k] # a
    <3>1. session'[k] = session[k] /\ now' = now
      BY <1>2, <1>5, <2>3
    <3>2. CASE ~ Open(k) \/ session[k].account = None
      BY <3>1, <3>2, Zenon DEF MuteKnown, Open
    <3>3. CASE Open(k) /\ session[k].account # None
      <4>1. session[k].account = who[k] /\ who[k] \in Accounts
        BY <1>1, <3>3, SessionCases
      <4> DEFINE b == session[k].account
      <4>2. b \in Accounts /\ b # a
        BY <2>3, <4>1
      <4>3. muteUntil'[b] = muteUntil[b] /\ (<<"mute", b>> \in unstored => <<"mute", b>> \in unstored')
        BY <1>12, <1>13, <4>2, Zenon
      <4>4. k \in passedOver => k \in passedOver'
        BY <1>2, <2>3
      <4>5. \/ /\ now < muteUntil[b] - ZoneOffset => session[k].muted = TRUE
               /\ muteUntil[b] = 0 => session[k].muted = FALSE
            \/ k \in passedOver \/ <<"mute", b>> \in unstored
        BY <3>3, Zenon DEF AccInv, MuteKnown
      <4>6. session'[k].account = b
        BY <3>1
      <4> HIDE DEF b
      <4> QED
        BY <3>1, <4>3, <4>4, <4>5, <4>6, Zenon DEF MuteKnown
    <3> QED
      BY <3>2, <3>3
  <2> QED
    BY <2>1, <2>2, <2>3
<1>16. SuspensionsKept /\ StatusKept /\ NamesKept
  BY <1>3 DEF Muted, SuspensionsKept, StatusKept, NamesKept
<1>17. OrdersKept("ban")
  BY <1>12 DEF OrdersKept
<1>18. NobodyAccepted
  BY <1>2, <1>10 DEF NobodyAccepted, Accepted
<1>19. \A b \in Accounts : ListedOf(b)' = ListedOf(b)
  <2>1. \A k \in Clients : session'[k].account = session[k].account
    BY <1>4, <1>5, <1>6
  <2> QED
    BY <1>2, <1>10, <2>1 DEF ListedOf, SessionsOf
<1>20. now' >= now
  BY <1>1, <1>2 DEF Types
<1> QED
  BY <1>2, <1>9, <1>11, <1>14, <1>15, <1>16, <1>17, <1>18, <1>19, <1>20, StepKeepsAcc,
     BansStayStored, AcceptedStayRight, StatusStaysKnown, NamesStayKnown

LEMMA MuteKeepsAcc ==
  ASSUME AccInv, NEW c \in Clients, NEW n \in Names, NEW d \in Durations, Mute(c, n, d)
  PROVE  AccInv'
<1> DEFINE until == IF d = Forever THEN MaxTime + Day ELSE now + d
<1>1. PICK t \in FindSessionByName(n), written \in BOOLEAN :
        /\ MuteAccount(t, d, written)
        /\ muteUntil' = [muteUntil EXCEPT ![session[t].account] = until]
        /\ Recorded("mute", session[t].account, d, written)
        /\ ReachesOnly(t, session[t].account)
  BY OutcomeOfWrite, Zenon DEF Mute
<1>2. /\ UntilAfter(d) \in Dates
      /\ d # Forever => d = Day /\ UntilAfter(d) = now + d - ZoneOffset
      /\ until \in Nat \ {0}
  BY DateOfDuration
<1>3. /\ t \in Clients /\ session[t].account \in Accounts /\ stored \in [Accounts -> Row]
  BY FoundByName DEF AccInv, Types
<1>4. /\ stored' = UpdateMute(stored, session[t].account, UntilAfter(d), written)
      /\ session' = [session EXCEPT ![t].muted = TRUE]
  BY <1>1 DEF MuteAccount, SetMute
<1>5. /\ stored' \in [Accounts -> Row]
      /\ \A b \in Accounts :
           Muted(stored'[b], stored[b],
                 IF b = session[t].account /\ written THEN UntilAfter(d) ELSE stored[b].mutedUntil)
  BY <1>2, <1>3, <1>4, MuteUpdated
<1>6. /\ UNCHANGED <<now, who, looking, authorised, listed, renaming, typed, banUntil, earlier, given, misnamed, unsure>>
      /\ commands' = commands + 1 /\ commands < MaxCommands
  BY DEF Mute, Command, MayCommand, login, naming, names
<1>7. d # Forever => UntilAfter(d) = IF until = 0 THEN 0 ELSE until - ZoneOffset
  BY <1>2, Constants DEF AccInv, Types
<1> HIDE DEF until
<1>8. MuteOrder(t, TRUE, until, UntilAfter(d), d, written)
  BY <1>1, <1>4, <1>5, <1>6 DEF MuteOrder
<1>9. PICK date \in Dates : date = UntilAfter(d)
  BY <1>2
<1>10. PICK u \in Nat : u = until
  BY <1>2
<1> QED
  BY <1>2, <1>7, <1>8, <1>9, <1>10, MuteOrderKeepsAcc

LEMMA UnmuteKeepsAcc ==
  ASSUME AccInv, NEW c \in Clients, NEW n \in Names, Unmute(c, n)
  PROVE  AccInv'
<1>1. PICK t \in FindSessionByName(n), written \in BOOLEAN :
        /\ LiftMute(t, written)
        /\ muteUntil' = [muteUntil EXCEPT ![session[t].account] = 0]
        /\ Recorded("mute", session[t].account, 0, written)
        /\ ReachesOnly(t, session[t].account)
  BY OutcomeOfWrite, Zenon DEF Unmute
<1>2. 0 \in Dates /\ 0 \in Nat
  BY Constants DEF Dates
<1>3. /\ t \in Clients /\ session[t].account \in Accounts /\ stored \in [Accounts -> Row]
  BY FoundByName DEF AccInv, Types
<1>4. /\ stored' = UnmuteAccount(stored, session[t].account, written)
      /\ session' = [session EXCEPT ![t].muted = FALSE]
  BY <1>1 DEF LiftMute, SetMute
<1>5. /\ stored' \in [Accounts -> Row]
      /\ \A b \in Accounts :
           Muted(stored'[b], stored[b],
                 IF b = session[t].account /\ written THEN 0 ELSE stored[b].mutedUntil)
  BY <1>2, <1>3, <1>4, MuteUpdated
<1>6. /\ UNCHANGED <<now, who, looking, authorised, listed, renaming, typed, banUntil, earlier, given, misnamed, unsure>>
      /\ commands' = commands + 1 /\ commands < MaxCommands
  BY DEF Unmute, Command, MayCommand, login, naming, names
<1>7. MuteOrder(t, FALSE, 0, 0, 0, written)
  BY <1>1, <1>4, <1>5, <1>6 DEF MuteOrder
<1> QED
  BY <1>2, <1>7, MuteOrderKeepsAcc

LEMMA SetNicknameKeepsAcc ==
  ASSUME AccInv, NEW c \in Clients, NEW n \in Names, SetNickname(c, n)
  PROVE  AccInv'
<1> DEFINE a == session[c].account
<1>1. /\ UNCHANGED <<now, stored, who, looking, authorised, listed, banUntil, muteUntil, unstored, earlier, passedOver, unsure>>
      /\ commands' = commands + 1 /\ commands < MaxCommands
      /\ Open(c) /\ a # None /\ typed' = n
  BY DEF SetNickname, Command, MayCommand, MaySpeak, Parsed, login, orders
<1>2. /\ Types /\ Whereabouts /\ a \in Accounts /\ a = who[c]
      /\ session[c] \in [account : {a}, muted : BOOLEAN, name : Names]
  BY <1>1, SessionCases DEF AccInv
<1>3. \/ /\ n \in Restricted
         /\ misnamed' = misnamed \cup (IF n = typed THEN {} ELSE renaming)
         /\ UNCHANGED <<session, renaming, given>>
      \/ /\ n \notin Restricted
         /\ session' = [session EXCEPT ![c].name = n] /\ renaming' = renaming \cup {a}
         /\ given' = [given EXCEPT ![a] = n]
         /\ misnamed' = (misnamed \cup (IF n = typed THEN {} ELSE renaming)) \ {a}
  <2>1. CASE n \in Restricted
    <3>1. TypedOver(n, {}) /\ UNCHANGED <<session, renaming, given>>
      BY <2>1, Zenon DEF SetNickname
    <3>2. misnamed' = (misnamed \cup (IF n = typed THEN {} ELSE renaming)) \ {}
      BY <3>1, Zenon DEF TypedOver
    <3> QED
      BY <2>1, <3>1, <3>2
  <2>2. CASE n \notin Restricted
    BY <2>2, Zenon DEF SetNickname, SetPlayerName, TypedOver
  <2> QED
    BY <2>1, <2>2
<1> HIDE DEF a
<1>4. /\ session' = [k \in Clients |-> session'[k]]
      /\ \A k \in Clients : k # c => session'[k] = session[k]
      /\ session'[c] = session[c] \/ session'[c] = [session[c] EXCEPT !.name = n]
  BY <1>2, <1>3 DEF Types
<1>5. session'[c] \in [account : {a}, muted : BOOLEAN, name : Names] /\ session'[c].account = a
  BY <1>2, <1>4
<1>6. session'[c].muted = session[c].muted
  BY <1>2, <1>4, Zenon
<1>7. session'[c] # None
  BY <1>2, <1>5, ConstantsAssumption
<1>8. Types'
  <2>1. \A k \in Clients : session'[k] \in SessionOf(who'[k])
    BY <1>1, <1>2, <1>4, <1>5 DEF Types, SessionOf
  <2>2. given' \in [Accounts -> Names \ Restricted]
    BY <1>2, <1>3 DEF Types
  <2>3. commands' \in 0 .. MaxCommands
    BY <1>1, <1>2, Constants DEF Types
  <2>4. renaming' \subseteq Accounts /\ typed' \in Names
    BY <1>1, <1>2, <1>3 DEF Types
  <2> QED
    BY <1>1, <1>2, <1>4, <2>1, <2>2, <2>3, <2>4 DEF Types
<1>9. \A k \in Clients : Open(k)' <=> Open(k)
  BY <1>1, <1>4, <1>7 DEF Open
<1>10. Whereabouts'
  <2>1. looking # None => looking.client \in Clients
    BY <1>2 DEF Types
  <2> QED
    BY <1>1, <1>2, <1>9, <2>1 DEF Whereabouts
<1>11. NobodyAccepted
  BY <1>1, <1>9 DEF NobodyAccepted, Accepted
<1>12. SessionsAsMuted
  <2> SUFFICES ASSUME NEW k \in Clients, Open(k)', session'[k].account # None
               PROVE  /\ Open(k) /\ session'[k].account = session[k].account
                      /\ session'[k].muted = session[k].muted
                      /\ k \in passedOver => k \in passedOver'
    BY Zenon DEF SessionsAsMuted
  <2>1. Open(k) /\ (k \in passedOver => k \in passedOver')
    BY <1>1, <1>9
  <2>2. session'[k].account = session[k].account
    BY <1>2, <1>4, <1>5
  <2>3. session'[k].muted = session[k].muted
    BY <1>4, <1>6, Zenon
  <2> QED
    BY <2>1, <2>2, <2>3, Zenon
<1>13. \A b \in Accounts : ListedOf(b)' = ListedOf(b)
  <2>1. \A k \in Clients : session'[k].account = session[k].account
    BY <1>2, <1>4, <1>5
  <2> QED
    BY <1>1, <1>9, <2>1 DEF ListedOf, SessionsOf
<1>14. SuspensionsKept /\ MutesKept /\ StatusKept
  BY <1>1, StoredKept
<1>15. ASSUME NEW b \in Accounts PROVE NameKnown(b)'
  <2> SUFFICES ASSUME b \notin misnamed'
               PROVE  IF b \in renaming' THEN typed' = given'[b] ELSE stored'[b].nickname = given'[b]
    BY DEF NameKnown
  <2>1. CASE b = a /\ n \notin Restricted
    BY <1>1, <1>2, <1>3, <2>1 DEF Types
  <2>2. CASE b # a \/ n \in Restricted
    <3>1. /\ b \notin misnamed /\ given'[b] = given[b]
          /\ b \in renaming' <=> b \in renaming
          /\ b \in renaming => n = typed
      BY <1>2, <1>3, <2>2 DEF Types
    <3>2. IF b \in renaming THEN typed = given[b] ELSE stored[b].nickname = given[b]
      BY <3>1 DEF AccInv, NameKnown
    <3> QED
      BY <1>1, <3>1, <3>2
  <2> QED
    BY <2>1, <2>2
<1>16. now' >= now
  BY <1>1, <1>2 DEF Types
<1> QED
  BY <1>1, <1>8, <1>10, <1>11, <1>12, <1>13, <1>14, <1>15, <1>16, StepKeepsAcc, OrdersStay,
     BansStayStored, AcceptedStayRight, MutesStayStored, MutesStayKnown, StatusStaysKnown

LEMMA PersistKeepsAcc ==
  ASSUME AccInv, Persist
  PROVE  AccInv'
<1>1. /\ UNCHANGED <<now, who, looking, authorised, session, listed, typed, commands, banUntil, muteUntil, unstored,
                     earlier, passedOver, given, unsure>>
      /\ renaming' = {} /\ renaming # {}
  BY DEF Persist, login, play, orders
<1>2. PICK failed \in SUBSET renaming :
        stored' = UpdatePlayerName(stored, renaming \ failed, TRUE) /\ misnamed' = misnamed \cup failed
  BY DEF Persist
<1>3. Types /\ typed \in Names /\ renaming \ failed \in SUBSET Accounts /\ stored \in [Accounts -> Row]
  BY <1>1 DEF AccInv, Types
<1> DEFINE S == renaming \ failed
<1>4. /\ stored' \in [Accounts -> Row]
      /\ \A b \in Accounts :
           Named(stored'[b], stored[b], IF b \in S /\ TRUE THEN typed ELSE stored[b].nickname)
  <2>1. S \in SUBSET Accounts /\ stored' = UpdatePlayerName(stored, S, TRUE)
    BY <1>2, <1>3
  <2> HIDE DEF S
  <2> QED
    BY <1>3, <2>1, NamesUpdated, Zenon
<1>5. SuspensionsKept /\ MutesKept /\ StatusKept
  BY <1>4, Zenon DEF Named, SameDates, SuspensionsKept, MutesKept, StatusKept
<1>6. ASSUME NEW b \in Accounts PROVE NameKnown(b)'
  <2>1. stored'[b].nickname = IF b \in renaming \ failed THEN typed ELSE stored[b].nickname
    BY <1>4 DEF Named
  <2>2. NameKnown(b)
    BY DEF AccInv
  <2> QED
    BY <1>1, <1>2, <2>1, <2>2 DEF NameKnown
<1>7. Types'
  BY <1>1, <1>3, <1>4 DEF Types
<1>8. Whereabouts'
  BY <1>1, PlacesAfterRemoval
<1>9. NobodyAccepted /\ SessionsAsMuted /\ \A b \in Accounts : ListedOf(b)' = ListedOf(b)
  BY <1>1, SessionsKept, ListedAsBefore DEF NobodyAccepted, Accepted, Open
<1>10. now' >= now
  BY <1>1, <1>3 DEF Types
<1> QED
  BY <1>1, <1>5, <1>6, <1>7, <1>8, <1>9, <1>10, StepKeepsAcc, OrdersStay, BansStayStored,
     AcceptedStayRight, MutesStayStored, MutesStayKnown, StatusStaysKnown

LEMMA CrashKeepsAcc ==
  ASSUME AccInv, Crash
  PROVE  AccInv'
<1>1. /\ UNCHANGED <<now, stored, looking, authorised, commands, banUntil, muteUntil, unstored, given>>
      /\ who' = [c \in Clients |-> IF Open(c) THEN None ELSE who[c]]
      /\ session' = [c \in Clients |-> None] /\ listed' = {}
      /\ earlier' = earlier \ {c \in Clients : Open(c)}
      /\ renaming' = {} /\ typed' = None
      /\ misnamed' = misnamed \cup renaming
      /\ unsure' = unsure \cup {a \in Accounts : ListedOf(a) # {}}
  BY DEF Crash
<1>2. Types /\ Whereabouts
  BY DEF AccInv
<1>3. \A c \in Clients : session'[c] = None /\ ~ Open(c)'
  BY <1>1 DEF Open
<1>4. Types'
  <2>1. \A c \in Clients : session'[c] \in SessionOf(who'[c])
    BY <1>3 DEF SessionOf
  <2>2. session' = [c \in Clients |-> session'[c]]
    BY <1>1, <1>3
  <2>3. who' \in [Clients -> Accounts \cup {None}]
    BY <1>1, <1>2 DEF Types
  <2> QED
    BY <1>1, <1>2, <2>1, <2>2, <2>3 DEF Types
<1>5. Whereabouts'
  <2>1. looking # None => looking.client \in Clients /\ who'[looking.client] # None
    BY <1>1, <1>2 DEF Types, Whereabouts
  <2> QED
    BY <1>1, <1>2, <1>3, <2>1 DEF Whereabouts
<1>6. NobodyAccepted
  BY <1>1, <1>2, <1>3 DEF NobodyAccepted, Accepted, Whereabouts
<1>7. SessionsAsMuted
  BY <1>3 DEF SessionsAsMuted
<1>8. SuspensionsKept /\ MutesKept /\ StatusKept /\ NamesKept
  BY <1>1, StoredKept
<1>9. ASSUME NEW b \in Accounts PROVE StatusKnown(b)'
  <2> SUFFICES ASSUME b \notin unsure'
               PROVE  stored'[b].isOnline = IF ListedOf(b)' = {} THEN FALSE ELSE TRUE
    BY Zenon DEF StatusKnown
  <2>1. b \notin unsure /\ ListedOf(b) = {} /\ ListedOf(b)' = {}
    BY <1>1 DEF ListedOf
  <2>2. StatusKnown(b) /\ stored' = stored
    BY <1>1 DEF AccInv
  <2> QED
    BY <2>1, <2>2, Zenon DEF StatusKnown
<1>10. ASSUME NEW b \in Accounts PROVE NameKnown(b)'
  <2>1. NameKnown(b)
    BY DEF AccInv
  <2> QED
    BY <1>1, <2>1 DEF NameKnown
<1>11. now' >= now
  BY <1>1, <1>2 DEF Types
<1> QED
  BY <1>1, <1>4, <1>5, <1>6, <1>7, <1>8, <1>9, <1>10, <1>11, StepKeepsAcc, OrdersStay,
     BansStayStored, AcceptedStayRight, MutesStayStored, MutesStayKnown

LEMMA InitAcc ==
  ASSUME Init
  PROVE  AccInv
<1> USE DEF Init
<1>1. Types
  <2>1. stored \in [Accounts -> Row]
    <3>1. 0 \in Dates
      BY Constants DEF Dates
    <3>2. \A a \in Accounts : [suspendedUntil |-> 0, mutedUntil |-> 0, isOnline |-> FALSE, nickname |-> a] \in Row
      BY <3>1, Constants DEF Row
    <3> QED
      BY <3>2
  <2>2. session = [c \in Clients |-> session[c]] /\ \A c \in Clients : session[c] \in SessionOf(who[c])
    BY DEF SessionOf
  <2>3. given \in [Accounts -> Names \ Restricted]
    BY Constants
  <2> QED
    BY <2>1, <2>2, <2>3, Constants DEF Types
<1>2. Whereabouts
  BY DEF Whereabouts, Open
<1>3. ASSUME NEW a \in Accounts PROVE BanStored(a) /\ MuteStored(a) /\ NameKnown(a)
  BY DEF BanStored, MuteStored, NameKnown
<1>4. ASSUME NEW a \in Accounts PROVE StatusKnown(a)
  <2>1. ListedOf(a) = {}
    BY DEF ListedOf
  <2>2. stored[a].isOnline = FALSE
    BY Zenon
  <2> QED
    BY <2>1, <2>2, Zenon DEF StatusKnown
<1>5. ASSUME NEW c \in Clients PROVE AcceptedRightly(c) /\ MuteKnown(c)
  BY DEF AcceptedRightly, Accepted, MuteKnown, Open
<1> QED
  BY <1>1, <1>2, <1>3, <1>4, <1>5 DEF AccInv

LEMMA StutterKeepsAcc ==
  ASSUME AccInv, UNCHANGED vars
  PROVE  AccInv'
<1> USE DEF vars, login, play, naming, orders, names
<1>1. Types' /\ Whereabouts'
  BY DEF AccInv, Types, Whereabouts, Open
<1>2. SuspensionsKept /\ MutesKept /\ StatusKept /\ NamesKept
  BY StoredKept
<1>3. NobodyAccepted /\ SessionsAsMuted /\ \A b \in Accounts : ListedOf(b)' = ListedOf(b)
  BY SessionsKept, ListedAsBefore DEF NobodyAccepted, Accepted, Open
<1>4. now' >= now
  BY DEF AccInv, Types
<1> QED
  BY <1>1, <1>2, <1>3, <1>4, StepKeepsAcc, OrdersStay, BansStayStored, AcceptedStayRight,
     MutesStayStored, MutesStayKnown, StatusStaysKnown, NamesStayKnown

\* AccInv is an invariant of the two servers and the table between them.
LEMMA AccInvariant == Spec => []AccInv
<1>1. Init => AccInv
  BY InitAcc
<1>2. AccInv /\ [Next]_vars => AccInv'
  <2> SUFFICES ASSUME AccInv, [Next]_vars
               PROVE  AccInv'
    OBVIOUS
  <2>1. ASSUME NEW c \in Clients, NEW a \in Accounts, BeginLogin(c, a)
        PROVE  AccInv'
    BY <2>1, BeginLoginKeepsAcc
  <2>2. CASE EndLogin
    BY <2>2, EndLoginKeepsAcc
  <2>3. ASSUME NEW c \in Clients, EnterMain(c) \/ Leave(c)
        PROVE  AccInv'
    BY <2>3, EnterMainKeepsAcc, LeaveKeepsAcc
  <2>4. ASSUME NEW c \in Clients, NEW n \in Names,
               Disconnect(c, n) \/ Unban(c, n) \/ Unmute(c, n) \/ SetNickname(c, n)
        PROVE  AccInv'
    BY <2>4, DisconnectKeepsAcc, UnbanKeepsAcc, UnmuteKeepsAcc, SetNicknameKeepsAcc
  <2>5. ASSUME NEW c \in Clients, NEW n \in Names, NEW d \in Durations, Ban(c, n, d) \/ Mute(c, n, d)
        PROVE  AccInv'
    BY <2>5, BanKeepsAcc, MuteKeepsAcc
  <2>6. CASE Persist
    BY <2>6, PersistKeepsAcc
  <2>7. CASE Crash
    BY <2>7, CrashKeepsAcc
  <2>8. CASE Tick
    BY <2>8, TickKeepsAcc
  <2>9. CASE UNCHANGED vars
    BY <2>9, StutterKeepsAcc
  <2> QED
    BY <2>1, <2>2, <2>3, <2>4, <2>5, <2>6, <2>7, <2>8, <2>9 DEF Next
<1> QED
  BY <1>1, <1>2, PTL DEF Spec

----------------------------------------------------------------------------
(* The properties *)

\* The variables keep their types: among others every date the table is given is one it can
\* hold, and nobody is at once on the way to the main server and in its session manager.
THEOREM MainAccountsTypes == Spec => []TypeOK
<1>1. AccInv => TypeOK
  <2> SUFFICES ASSUME AccInv PROVE TypeOK
    OBVIOUS
  <2>1. authorised \cap listed = {}
    BY DEF AccInv, Whereabouts
  <2> QED
    BY <2>1 DEF AccInv, Types, Whereabouts, TypeOK, Row, SessionOf
<1> QED
  BY <1>1, AccInvariant, PTL

\* Whoever plays, or is on the way to, while the account is banned, was there when the ban was
\* given, unless the ban was not stored as it was meant: the look of the auth server
\* (getPlayerInfo) is enough, although the main server never asks.
THEOREM AuthServerKeepsBannedOut == Spec => []BannedStayOut
<1>1. AccInv => BannedStayOut
  BY DEF AccInv, AcceptedRightly, Accepted, BannedStayOut
<1> QED
  BY <1>1, AccInvariant, PTL

\* A session that a mute, or its end, has reached obeys it, and so does one that logs in
\* afterwards, however many sessions the account has had and whoever else was muted.
THEOREM MutesAreObeyed == Spec => []MutedStaySilent
<1>1. AccInv => MutedStaySilent
  <2> SUFFICES ASSUME AccInv, NEW c \in Clients, Open(c), session[c].account # None
               PROVE  LET a == session[c].account IN
                      \/ /\ now < muteUntil[a] - ZoneOffset => ~ MaySpeak(c)
                         /\ muteUntil[a] = 0 => MaySpeak(c)
                      \/ c \in passedOver \/ <<"mute", a>> \in unstored
    BY DEF MutedStaySilent
  <2>1. LET a == session[c].account IN
        \/ /\ now < muteUntil[a] - ZoneOffset => session[c].muted = TRUE
           /\ muteUntil[a] = 0 => session[c].muted = FALSE
        \/ c \in passedOver \/ <<"mute", a>> \in unstored
    BY Zenon DEF AccInv, MuteKnown
  <2> QED
    BY <2>1, Zenon DEF MaySpeak
<1> QED
  BY <1>1, AccInvariant, PTL

\* What the table says of an account, its IsOnline and its nickname, is what the session
\* manager and the account's owner know, but for the writes the model counts as lost and the
\* renames whose text was typed over before they were written.
THEOREM TableAsShown == Spec => []AccountsAsStored
<1>1. AccInv => AccountsAsStored
  <2> SUFFICES ASSUME AccInv PROVE AccountsAsStored
    OBVIOUS
  <2>1. StatusAsListed
    <3> SUFFICES ASSUME NEW a \in Accounts, a \notin unsure
                 PROVE  stored[a].isOnline <=> ListedOf(a) # {}
      BY DEF StatusAsListed
    <3>1. stored[a].isOnline = IF ListedOf(a) = {} THEN FALSE ELSE TRUE
      BY Zenon DEF AccInv, StatusKnown
    <3> QED
      BY <3>1, Zenon
  <2>2. NamesAsGiven
    BY DEF AccInv, Types, NameKnown, NamesAsGiven
  <2> QED
    BY <2>1, <2>2 DEF AccountsAsStored
<1> QED
  BY <1>1, AccInvariant, PTL

=============================================================================
