--------------------------- MODULE MainInventory ---------------------------
(***************************************************************************)
(* The items and the purse of one account of the main server: what the     *)
(* session keeps in memory (class Player), what the database holds, and    *)
(* the updates in between, queued by every handler under Handlers/Item,    *)
(* the spin of a capsule, the equipment and the character selection.       *)
(*                                                                         *)
(* Accounts share nothing here but the queue, whose hazards across         *)
(* accounts and threads are MainScheduler's; so one account is modelled,   *)
(* with one session at a time.  Nobody reads its rows while updates are    *)
(* queued, and repetitive updates are written in the order of the calls,   *)
(* before the keyed ones: table is what the repetitive updates leave in    *)
(* the database once written, and only the keyed update of the energy,     *)
(* which is written over them later, is a variable of its own.             *)
(*                                                                         *)
(* An item has a number in memory, the key it is filed under, and one in   *)
(* its serial, which the client names it by.  Numbers are given anew at    *)
(* every login, from 1.  One currency stands for the three, and every      *)
(* price is 1.  The client is honest: it names items it has been told of.  *)
(***************************************************************************)
EXTENDS Naturals, FiniteSets, SequencesExt, Vectors

CONSTANTS
  Characters,   \* ids of the playable characters in use: positive numbers
  Money,        \* balances are kept modulo Money (2^31 in the code)
  Space,        \* m_accountInfo.inventorySpace
  Sold,         \* ids of the items in the shop and in the capsules
  StartingMoney,
  MaxLucky,     \* maxLuckySpin (1000 in the code)
  MaxNumber,    \* bound of the model: numbers of items in one session
  MaxItems,     \* bound of the model: rows in the database
  MaxRequests,  \* bound of the model: requests handled
  None

Ids == {"gun", "hat", "suit"}

\* An update of the energy in the queue: the item's number and energy, the account's battery
EnergyUpdate == [number : Nat, energy : Nat, battery : Nat]

ASSUME ConstantsAssumption ==
  /\ Characters \subseteq Nat \ {0} /\ Characters # {} /\ IsFiniteSet(Characters)
  /\ {Money, StartingMoney, Space, MaxLucky, MaxNumber, MaxItems, MaxRequests} \subseteq Nat
  /\ StartingMoney < Money
  /\ 2 <= MaxItems /\ MaxItems <= MaxNumber  \* the account has two items at first
  /\ Sold \subseteq Ids /\ None \notin EnergyUpdate

VARIABLES
  online,     \* the account has a session
  player,     \* the fields of its Player, see Player
  table,      \* table UserItems of the account in order of rowid, with the queued updates
  purse,      \* the account's row of the table Users, with the queued updates
  energy,     \* the update queued under key 7 (insertEnergyToItem), or None
  excused,    \* history: numbers that a mishap of this session has touched
  renewed,    \* history: numbers renewed in this session
  hidden,     \* history: worn rows that found their slot taken at login
  enriched,   \* history: the account has once got something for nothing
  overfilled, \* history: the inventory once exceeded its space in a way that is not checked
  requests    \* history: requests handled

history == <<excused, renewed, hidden, enriched, overfilled>>
vars == <<online, player, table, purse, energy, history, requests>>

----------------------------------------------------------------------------
(* Items *)

Numbers == 0 .. MaxNumber

\* ItemType; a suit is a set, whose only part is the hat's.
Slots == {"weapon", "head", "set"}
Parts == {"head"}
Slot(id) == CASE id = "gun" -> "weapon" [] id = "suit" -> "set" [] OTHER -> "head"

MaxLevel == 1
Item == [id : Ids \cup {"nothing"}, level : 0 .. MaxLevel, serial : Numbers,
         energy : Nat, fresh : BOOLEAN]

\* A row: the item's number, and the character who wears it, or 0.
Row == [number : Numbers, id : Ids, level : 0 .. MaxLevel, energy : Nat, fresh : BOOLEAN,
        place : Characters \cup {0}]

\* The value-initialised item that operator[] makes; id 0 is of type 0, HAIR.
NoItem == [id |-> "nothing", level |-> 0, serial |-> 0, energy |-> 0, fresh |-> FALSE]

NewItem(id, level, number) ==
  [id |-> id, level |-> level, serial |-> number, energy |-> 0, fresh |-> TRUE]

Put(f, key, value) == [k \in DOMAIN f \cup {key} |-> IF k = key THEN value ELSE f[k]]

\* What a player loses or gains with an item; a level costs what an item does.
Value(item) == item.level + IF item.fresh THEN 1 ELSE 0

----------------------------------------------------------------------------
(* The database *)

Where(rows, number, change(_)) ==
  [i \in DOMAIN rows |-> IF rows[i].number = number THEN change(rows[i]) ELSE rows[i]]

\* addPlayerItem
AsRow(item) ==
  [number |-> item.serial, id |-> item.id, level |-> item.level, energy |-> item.energy,
   fresh |-> item.fresh, place |-> 0]
Inserted(rows, item) == Append(rows, AsRow(item))

\* removePlayerItem
Removed(rows, number) == AtPositions(rows, {i \in DOMAIN rows : rows[i].number # number})

\* PersistentDatabase::replaceItem: the duration and the date, not the number
Renewed(rows, number) == Where(rows, number, LAMBDA row : [row EXCEPT !.fresh = TRUE])

\* PersistentDatabase::equipItem, unequipItem (c = 0) and their succession, swapItems
Placed(rows, number, c) == Where(rows, number, LAMBDA row : [row EXCEPT !.place = c])
\* mutant: the second statement is not executed
SwappedHalf(rows, off, on, c) == Placed(rows, on, c)
Swapped(rows, off, on, c) == Placed(Placed(rows, on, c), off, 0)

\* insertEnergyToItem, the item's half
Energised(rows, update) ==
  IF update = None THEN rows
  ELSE Where(rows, update.number, LAMBDA row : [row EXCEPT !.energy = update.energy])

\* updatePlayerCurrencyByType, updateLatestSelectedCharacter
CurrencyUpdated(row, amount) == [row EXCEPT !.mp = amount]
CharacterUpdated(row, c) == [row EXCEPT !.character = c]

\* The tables after a flush
PendingRows == Energised(table, energy)

Flushed ==
  /\ table' = PendingRows
  /\ purse' = [purse EXCEPT !.battery = IF energy = None THEN @ ELSE energy.battery]
  /\ energy' = None

----------------------------------------------------------------------------
(* Login and logout *)

\* Maps of items whose keys are some of these
Files(keys) == UNION {[K -> Item] : K \in SUBSET keys}

Player ==
  [unworn : Files(Numbers),   \* m_itemsByItemNumber
   worn : Files(Characters \X Slots),  \* m_equippedItemByCharacter
   total : Nat,               \* m_totalEquippedItems
   latest : Numbers,          \* m_latestItemNumber
   character : Characters, mp : 0 .. Money - 1, battery : Nat, lucky : Nat]

NoPlayer ==
  [unworn |-> << >>, worn |-> << >>, total |-> 0, latest |-> 0,
   character |-> CHOOSE c \in Characters : TRUE, mp |-> 0, battery |-> 0, lucky |-> 0]

AsItem(row) ==
  [id |-> row.id, level |-> row.level, serial |-> row.number, energy |-> row.energy,
   fresh |-> row.fresh]

\* getPlayerItems: the rows get new numbers, in the database too.
Renumbered == [i \in DOMAIN table |-> [table[i] EXCEPT !.number = i]]

\* The rows worn by c in a slot; itemMap[...] = currentItem: the last one stays.
WornRows(rows, c, slot) == {i \in DOMAIN rows : rows[i].place = c /\ Slot(rows[i].id) = slot}

\* getPlayerInfo, of which these columns matter; that of the lucky points is never written.
PlayerInfo ==
  [character |-> purse.character, mp |-> purse.mp, battery |-> purse.battery, lucky |-> 0]

\* setUnequippedItems and setEquippedItems
Loaded(rows, info) ==
  LET off == {i \in DOMAIN rows : rows[i].place = 0}
      taken == {w \in Characters \X Slots : WornRows(rows, w[1], w[2]) # {}}
  IN  [unworn |-> [n \in off |-> AsItem(rows[n])],
       worn |-> [w \in taken |-> AsItem(rows[Max(WornRows(rows, w[1], w[2]))])],
       total |-> Cardinality(DOMAIN rows \ off), latest |-> Len(rows),
       character |-> info.character, mp |-> info.mp, battery |-> info.battery,
       lucky |-> info.lucky]

\* handleAuthorization, and handleInventoryInformation, which the client asks for once
Login ==
  /\ ~online
  /\ online' = TRUE
  /\ table' = Renumbered
  /\ player' = Loaded(Renumbered, PlayerInfo)
  /\ hidden' = {i \in DOMAIN table :
                  table[i].place # 0
                  /\ i < Max(WornRows(table, table[i].place, Slot(table[i].id)))}
  /\ excused' = hidden'
  /\ renewed' = {}
  /\ overfilled' = (overfilled \/ Len(table) > Space)
  /\ UNCHANGED <<purse, energy, enriched, requests>>

\* removeSession: Session::clear, persistFor
Logout ==
  /\ online
  /\ online' = FALSE
  /\ Flushed
  /\ player' = NoPlayer
  /\ excused' = {} /\ renewed' = {} /\ hidden' = {}
  /\ UNCHANGED <<enriched, overfilled, requests>>

\* The scheduler thread: persist
Persist ==
  /\ energy # None
  /\ Flushed
  /\ UNCHANGED <<online, player, history, requests>>

----------------------------------------------------------------------------
(* What handlers do to the player and the table, as functions of v = [p, rows] *)

Now == [p |-> player, rows |-> table]

\* The slots of the selected character
Here(v, slot) == <<v.p.character, slot>>
IsWorn(v, slot) == Here(v, slot) \in DOMAIN v.p.worn

\* Both functions named unequipItem (one as Player::unequipItemImpl)
Unequip(v, slot) ==
  IF ~IsWorn(v, slot) THEN v
  ELSE LET item == v.p.worn[Here(v, slot)] IN
       [p |-> [v.p EXCEPT !.unworn = Put(@, item.serial, item),
                          !.worn = Restrict(@, DOMAIN @ \ {Here(v, slot)}),
                          !.total = @ - 1],
        rows |-> Placed(v.rows, item.serial, 0)]

\* What equipItem does at last: the item takes an empty slot, or its holder's place
PutOn(v, n, item) ==
  LET w == Here(v, Slot(item.id))
      p == [v.p EXCEPT !.unworn = Restrict(@, DOMAIN @ \ {n})]
  IN  IF w \in DOMAIN p.worn
      THEN LET off == p.worn[w] IN
           [p |-> [p EXCEPT !.unworn = Put(@, off.serial, off), !.worn[w] = item],
            rows |-> Swapped(v.rows, off.serial, item.serial, p.character)]
      ELSE [p |-> [p EXCEPT !.worn = Put(@, w, item), !.total = @ + 1],
            rows |-> Placed(v.rows, item.serial, p.character)]

\* Player::equipItem: a set and its parts exclude each other
Equip(v, n) ==
  LET item == IF n \in DOMAIN v.p.unworn THEN v.p.unworn[n] ELSE NoItem
      slot == Slot(item.id)
      bare == CASE slot = "set" -> Unequip(v, "head")
                [] slot \in Parts -> Unequip(v, "set")
                [] OTHER -> v
  IN  PutOn(bare, n, item)

\* deleteItemBasic finds an unworn item of this serial.
Deletable(v, n) == n \in DOMAIN v.p.unworn /\ v.p.unworn[n].serial = n

\* Session::deleteItem and Session::deleteItemBasic
Delete(v, n) ==
  IF ~Deletable(v, n) THEN v
  ELSE [p |-> [v.p EXCEPT !.unworn = Restrict(@, DOMAIN @ \ {n})],
        rows |-> Removed(v.rows, n)]

\* Player::addItem and addItems: an item of the same number is overwritten.
Hold(p, item) == [p EXCEPT !.unworn = Put(@, item.serial, item)]

\* Session::addItem
Add(v, item) ==
  [p |-> Hold(v.p, item), rows |-> Inserted(v.rows, item)]

\* addItems queues one update for all of them, addPlayerItems, which calls addPlayerItem for
\* each.  Their numbers differ.
AddItems(v, items) ==
  LET named(n) == {i \in DOMAIN items : items[i].serial = n} IN
  [p |-> [v.p EXCEPT !.unworn = [n \in DOMAIN @ \cup {items[i].serial : i \in DOMAIN items} |->
            IF named(n) # {} THEN items[CHOOSE i \in named(n) : TRUE] ELSE @[n]]],
   rows |-> v.rows \o [i \in DOMAIN items |-> AsRow(items[i])]]

\* findItemBySerialInfo: an unworn item, or one that the selected character wears
WornHere(n) == {w \in DOMAIN player.worn : w[1] = player.character /\ player.worn[w].serial = n}
Held(n) == Deletable(Now, n) \/ WornHere(n) # {}
Find(n) == IF Deletable(Now, n) THEN player.unworn[n]
           ELSE player.worn[CHOOSE w \in WornHere(n) : TRUE]

\* Player::replaceItem: the new serial is number 0; the item stays filed where it was.
Replaced(n) ==
  IF n \in DOMAIN player.unworn THEN [player EXCEPT !.unworn[n].serial = 0]
  ELSE [player EXCEPT !.worn[CHOOSE w \in WornHere(n) : TRUE].serial = 0]

\* Session::replaceItem
ReplaceItem(n) == [p |-> Replaced(n), rows |-> Renewed(table, n)]

\* Player::addEnergyToItem
EnergyAdded(n) ==
  LET p == [player EXCEPT !.battery = @ - 1] IN
  IF Deletable(Now, n) THEN [p EXCEPT !.unworn[n].energy = @ + 1]
  ELSE [p EXCEPT !.worn[CHOOSE w \in WornHere(n) : TRUE].energy = @ + 1]

\* hasEnoughInventorySpace: what is free is an unsigned number.
Used == player.total + Cardinality(DOMAIN player.unworn)
\* mutant: one free place is enough for any number of items
HasSpaceForOne(wanted) == Used > Space \/ Space - Used > 0
HasSpace(wanted) == Used > Space \/ Space - Used > wanted

\* mutant: the balance is signed
AfterSigned(cost) == player.mp - cost
\* The balance after a payment, an unsigned number
After(cost) == (player.mp + Money - cost) % Money

Bounded(v) == v.p.latest <= MaxNumber /\ Len(v.rows) <= MaxItems

\* setAccountMicroPoints, in memory and in the queue
SetMicroPoints(v, amount) ==
  /\ Bounded(v)
  /\ player' = [v.p EXCEPT !.mp = amount]
  /\ table' = v.rows
  /\ purse' = CurrencyUpdated(purse, amount)

FreeOfCharge(v) ==
  /\ Bounded(v)
  /\ player' = v.p
  /\ table' = v.rows
  /\ UNCHANGED purse

Unharmed == UNCHANGED history
\* An item enters without hasEnoughInventorySpace having been asked for it.
Unchecked(gratis) ==
  /\ enriched' = (enriched \/ gratis)
  /\ overfilled' = (overfilled \/ player'.total + Cardinality(DOMAIN player'.unworn) > Space)

Numbered(ids, latest) == [i \in DOMAIN ids |-> NewItem(ids[i], 0, latest + i)]

----------------------------------------------------------------------------
(* The handlers *)

\* The session has a request to handle.
Handled ==
  /\ online
  /\ requests < MaxRequests
  /\ requests' = requests + 1
  /\ UNCHANGED online

\* mutant: the balance is not looked at
BuyItemsOnCredit(ids) ==
  /\ Handled
  /\ HasSpace(Len(ids))
  /\ LET v == AddItems(Now, Numbered(ids, player.latest)) IN
     SetMicroPoints([v EXCEPT !.p.latest = @ + Len(ids)], After(Len(ids)))
  /\ Unharmed
  /\ UNCHANGED energy

\* handleBoughtItem, new items: the request is refused as a whole, or paid as a whole.
BuyItems(ids) ==
  /\ Handled
  /\ HasSpace(Len(ids))
  /\ Len(ids) <= player.mp
  /\ LET v == AddItems(Now, Numbered(ids, player.latest)) IN
     SetMicroPoints([v EXCEPT !.p.latest = @ + Len(ids)], After(Len(ids)))
  /\ Unharmed
  /\ UNCHANGED energy

\* handleBoughtItem, renewal of an expired item: it is replaced, under a serial whose number
\* is 0, before the balance is compared with the price.  The client keeps the old serial.
RenewItem(n) ==
  /\ Handled
  /\ Held(n) /\ ~Find(n).fresh
  /\ IF player.mp >= 1
     THEN SetMicroPoints(ReplaceItem(n), After(1)) /\ UNCHANGED enriched
     ELSE FreeOfCharge(ReplaceItem(n)) /\ enriched' = TRUE
  /\ excused' = excused \cup {n}
  /\ renewed' = renewed \cup {n}
  /\ UNCHANGED <<energy, hidden, overfilled>>

\* handleItemDelete: of several items only the first is found, as the request is read in
\* steps of 4 bytes and a serial has 8.
DeleteItems(n) ==
  /\ Handled
  /\ Deletable(Now, n)
  /\ FreeOfCharge(Delete(Now, n))
  /\ Unharmed
  /\ UNCHANGED energy

\* handleItemRefund: the client names the amount, which is paid even if nothing was removed.
RefundItem(n) ==
  /\ Handled
  /\ Held(n)
  /\ player.mp + Value(Find(n)) < Money
  /\ SetMicroPoints(Delete(Now, n), player.mp + Value(Find(n)))
  /\ enriched' = (enriched \/ ~Deletable(Now, n))
  /\ UNCHANGED <<energy, excused, renewed, hidden, overfilled>>

\* An item is deleted, if it is unworn, and one takes its number; the energy that is queued
\* for the old one will be the new one's.
Respawned(n, item) == Add(Delete(Now, n), item)
EnergyPending(n) == energy # None /\ energy.number = n
Excuse(n) ==
  /\ excused' = excused \cup (IF EnergyPending(n) \/ ~Deletable(Now, n) THEN {n} ELSE {})
  /\ Unchecked(~Deletable(Now, n))
  /\ UNCHANGED <<renewed, hidden>>

Upgradable(n) == Held(n) /\ Find(n).id = "gun" /\ Find(n).fresh

\* handleItemUpgrade, 15 % of the time: the item is replaced by one without energy.
FailUpgrade(n) ==
  /\ Handled
  /\ Upgradable(n)
  /\ FreeOfCharge(Respawned(n, NewItem(Find(n).id, Find(n).level, n)))
  /\ Excuse(n)
  /\ UNCHANGED energy

\* handleItemUpgrade otherwise
UpgradeItem(n) ==
  /\ Handled
  /\ Upgradable(n)
  /\ Find(n).level < MaxLevel
  /\ player.mp >= 1
  /\ SetMicroPoints(Respawned(n, NewItem(Find(n).id, Find(n).level + 1, n)), After(1))
  /\ Excuse(n)
  /\ UNCHANGED energy

\* handleGambleItem: another item of the type, which is unlimited; nothing happens to an
\* item that is worn.
GambleItem(n) ==
  /\ Handled
  /\ player.mp >= 1
  /\ Deletable(Now, n)
  /\ SetMicroPoints(Respawned(n, NewItem(Find(n).id, 0, n)), After(1))
  /\ Excuse(n)
  /\ UNCHANGED energy

\* Session::addEnergyToItem: m_databaseCallbacks has one entry for the energy of all the items
\* of an account.
QueueEnergy(n, filled, left) == energy' = [number |-> n, energy |-> filled, battery |-> left]

\* handleItemUpgrade, energy for an item
AddEnergy(n) ==
  /\ Handled
  /\ player.battery >= 1
  /\ Held(n)
  /\ player' = EnergyAdded(n)
  /\ QueueEnergy(n, Find(n).energy + 1, player'.battery)
  /\ excused' = excused \cup (IF energy = None \/ EnergyPending(n) THEN {} ELSE {energy.number})
  /\ UNCHANGED <<table, purse, renewed, hidden, enriched, overfilled>>

\* The loop of handleCapsuleSpin from k > 0 spins to go and luckyPoints l: how many items it
\* gives, and charges, and what luckyPoints is then.  Each spin adds a point; but the spin that
\* finds more than MaxLucky is a lucky one, which does not count and sets the points to 0.  So
\* luckyPoints goes round from 0 to MaxLucky + 1, and there is a lucky spin to every
\* MaxLucky + 1 others, none of which is the last.
SpunItems(k, l) == k + (l + k - 1) \div (MaxLucky + 1)
LuckyAfter(spun, l) == (l + spun) % (MaxLucky + 2)

\* handleCapsuleSpin: space and balance are checked for the spins asked for.
SpinCapsule(k, id) ==
  /\ Handled
  /\ player.mp >= k
  /\ HasSpace(k)
  /\ LET spun == SpunItems(k, player.lucky)
         ids == [i \in 1 .. spun |-> id]
         v == AddItems(Now, Numbered(ids, player.latest))
     IN  /\ SetMicroPoints([v EXCEPT !.p.latest = @ + spun, !.p.lucky = LuckyAfter(spun, @)],
                           After(spun))
         /\ Unchecked(spun > player.mp)
  /\ UNCHANGED <<energy, excused, renewed, hidden>>

\* /getitem: SpawnItem::execute
SpawnItem(id) ==
  /\ Handled
  /\ LET v == Add(Now, NewItem(id, 0, player.latest + 1)) IN
     FreeOfCharge([v EXCEPT !.p.latest = @ + 1])
  /\ Unchecked(TRUE)
  /\ UNCHANGED <<energy, excused, renewed, hidden>>

\* handleEquippedItemSwitch, for each item to be equipped.  After a renewal the client may
\* name an item that is no longer filed under its number: then operator[] makes one.
EquipItem(n) ==
  /\ Handled
  /\ n \in (DOMAIN player.unworn \ {0}) \cup renewed
  /\ FreeOfCharge(Equip(Now, n))
  /\ IF n \in DOMAIN player.unworn THEN UNCHANGED <<enriched, overfilled>> ELSE Unchecked(FALSE)
  /\ UNCHANGED <<energy, excused, renewed, hidden>>

\* handleEquippedItemSwitch, for each type to be unequipped: Session::unequipItem
UnequipItem(slot) ==
  /\ Handled
  /\ IsWorn(Now, slot)
  /\ FreeOfCharge(Unequip(Now, slot))
  /\ Unharmed
  /\ UNCHANGED energy

\* Session::setAccountLatestCharacterSelected, in memory and in the queue
SetLatestCharacterSelected(c) ==
  /\ player' = [player EXCEPT !.character = c]
  /\ purse' = CharacterUpdated(purse, c)

\* handleCharacterSelection
SelectCharacter(c) ==
  /\ Handled
  /\ SetLatestCharacterSelected(c)
  /\ Unharmed
  /\ UNCHANGED <<table, energy>>

----------------------------------------------------------------------------
(* Specification *)

\* An account with two items, the first of which has expired.
Init ==
  /\ online = FALSE
  /\ player = NoPlayer
  /\ energy = None
  /\ table = << [number |-> 0, id |-> "hat", level |-> 0, energy |-> 0, fresh |-> FALSE, place |-> 0],
               [number |-> 0, id |-> "suit", level |-> 0, energy |-> 0, fresh |-> TRUE, place |-> 0] >>
  /\ purse = [mp |-> StartingMoney, character |-> CHOOSE c \in Characters : TRUE, battery |-> 2]
  /\ excused = {} /\ renewed = {} /\ hidden = {}
  /\ enriched = FALSE /\ overfilled = FALSE
  /\ requests = 0

Next ==
  \/ Login \/ Logout \/ Persist
  \/ \E id \in Sold : BuyItems(<<id>>) \/ BuyItems(<<id, id>>) \/ SpawnItem(id)
  \/ \E k \in 1 .. 2, id \in Sold : SpinCapsule(k, id)
  \/ \E n \in 1 .. MaxNumber :
       \/ RenewItem(n) \/ DeleteItems(n) \/ RefundItem(n)
       \/ FailUpgrade(n) \/ UpgradeItem(n) \/ GambleItem(n)
       \/ AddEnergy(n) \/ EquipItem(n)
  \/ \E slot \in Slots : UnequipItem(slot)
  \/ \E c \in Characters : SelectCharacter(c)

Spec == Init /\ [][Next]_vars

----------------------------------------------------------------------------
(* Properties *)

\* The types of the variables
TypeOK ==
  /\ online \in BOOLEAN
  /\ player.total \in Nat /\ player.latest \in Numbers
  /\ player.character \in Characters /\ player.mp \in 0 .. Money - 1
  /\ \A n \in DOMAIN player.unworn : n \in Numbers /\ player.unworn[n] \in Item
  /\ \A w \in DOMAIN player.worn : w \in Characters \X Slots /\ player.worn[w] \in Item
  /\ \A i \in DOMAIN table : table[i] \in Row
  /\ purse.mp \in 0 .. Money - 1 /\ purse.character \in Characters
  /\ excused \cup renewed \cup hidden \subseteq Numbers

\* What a number names: the rows of the table, and the characters who wear the item
RowsOf(rows, n) == {rows[i] : i \in {j \in DOMAIN rows : rows[j].number = n}}
WornAs(p, n) == {w \in DOMAIN p.worn : p.worn[w].serial = n}
Wearers(p, n) == {w[1] : w \in WornAs(p, n)}

Same(row, item) ==
  /\ row.id = item.id /\ row.level = item.level
  /\ row.energy = item.energy /\ row.fresh = item.fresh

\* What rows of number n say is what the player holds under n.
Agree(p, rows, n) ==
  /\ \A row \in rows : Wearers(p, n) = {row.place} \ {0}
  /\ n \in DOMAIN p.unworn => \E row \in rows : row.place = 0 /\ Same(row, p.unworn[n])
  /\ \A w \in WornAs(p, n) : \E row \in rows : Same(row, p.worn[w])
  /\ rows # {} => n \in DOMAIN p.unworn \/ Wearers(p, n) # {}

\* What the next flush leaves in the database is what the session holds, number by number:
\* the same item, the same energy, worn by the same character.  Numbers that a mishap has
\* touched are excused: renewed under serial 0; upgraded while worn; energy whose update
\* was replaced by another item's, or is written over the item that took its place.
HeldAsStored ==
  online =>
    \A n \in (1 .. MaxNumber) \ excused : Agree(player, RowsOf(PendingRows, n), n)

\* A number names one row, and new numbers are fresh, unless an item was upgraded while worn.
NumbersUnique ==
  online =>
    \A i \in DOMAIN table :
      /\ table[i].number <= player.latest
      /\ \A j \in DOMAIN table \ {i} :
           table[i].number = table[j].number => table[i].number \in excused

\* Both together: a relogin after the next flush finds every item, once and where it was.
ItemsAsStored == HeldAsStored /\ NumbersUnique

\* m_totalEquippedItems, which bounds the inventory, counts the items that are worn by all
\* the characters, and those that found their slot taken at login.
WornCounted == player.total = Cardinality(DOMAIN player.worn) + Cardinality(hidden)

\* The value of what the database will hold: the balance and the items, one by one what
\* makes their Value
Units(rows) ==
  {u \in (DOMAIN rows) \X (0 .. MaxLevel) :
     IF u[2] = 0 THEN rows[u[1]].fresh ELSE u[2] <= rows[u[1]].level}
Wealth == purse.mp + Cardinality(Units(table))

\* No sequence of purchases, spins, upgrades, refunds and relogins makes an account richer,
\* but for the known ways: /getitem, a renewal without money, the upgrade or the refund of an
\* item that is worn, and a lucky spin that takes the balance below zero.
WealthNeverGrows ==
  Wealth <= StartingMoney + 1 \/ enriched

\* Purchases and spins keep within the space of the inventory, unless it was exceeded by
\* another way before: then hasEnoughInventorySpace always holds.
WithinSpace ==
  online => Used <= Space \/ overfilled

\* Both together: the count is right, so that the bound on it bounds the items.
SpaceRespected == WithinSpace /\ WornCounted

============================================================================
