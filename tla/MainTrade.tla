----------------------------- MODULE MainTrade -----------------------------
(***************************************************************************)
(* Trades between players of the main server: the handlers of              *)
(* Handlers/Trade, the part of Player they work on (m_tradedItems,         *)
(* m_hasPlayerLocked, m_currentlyTradingWithAccountId, m_playerState, the  *)
(* items by number), and what else changes that part: connecting and       *)
(* losing the connection, leaving a room, changing state, equipping items. *)
(*                                                                         *)
(* All of it runs on the io_context thread, a handler at a time.  There is *)
(* no trade object: each session has its own idea of its partner, and the  *)
(* handlers look the partner up by account id and trust what they find.    *)
(*                                                                         *)
(* Requests refused for the level, the fee, the inventory space or because *)
(* the players are not friends change nothing and are left out, and so are *)
(* the fees.  Clients ask for a trade while the server does not have them  *)
(* in STATE_TRADE, send the other requests while it has, answer requests   *)
(* they were shown, and change an offer only before they confirm ("the     *)
(* client prevents changing items after lock already", MainEnums.h).  The  *)
(* server itself does not crash here.                                      *)
(***************************************************************************)
EXTENDS Naturals, FiniteSets, Sequences, TLC, SequencesExt, FiniteSetsExt

CONSTANTS
  Accounts,
  Things,        \* what keeps its identity when an item changes hands, and its number
  MaxTraded,     \* an offer is full beyond this size (10 in the code)
  MaxNumber,     \* bound of the model on item numbers
  MaxWorn,       \* bound of the model on the items an account wears
  MaxMishaps,    \* bound of the model on the two histories together
  MaxAsked,      \* bound of the model on requests waiting for an answer
  None

ASSUME ConstantsAssumption ==
  /\ MaxTraded \in Nat
  /\ MaxNumber \in Nat \ {0}
  /\ {MaxWorn, MaxMishaps, MaxAsked} \subseteq Nat
  /\ IsFiniteSet(Accounts) /\ None \notin Accounts
  /\ Cardinality(Things) <= MaxNumber

VARIABLES
  online,
  state,       \* m_playerState: in the lobby (LOBBY or NORMAL), trading, or away
  partner,     \* m_currentlyTradingWithAccountId, or None
  offer,       \* m_tradedItems
  locked,      \* None, or m_hasPlayerLocked and history: whom the player confirmed for
  items,       \* m_itemsByItemNumber: number -> thing
  worn,        \* m_equippedItemByCharacter of the selected character: number -> thing
  latest,      \* m_latestItemNumber
  asked,       \* the clients: <<p, q>> when q is shown p's request to trade
  careless,      \* history: how often an item was offered worn or twice, or put on while offered
  disturbances   \* history: how often a trade was interfered with from outside

inventory == <<items, worn, latest>>
vars == <<online, state, partner, offer, locked, inventory, asked, careless, disturbances>>

Numbers == 1 .. MaxNumber

Serial == [number : Numbers, thing : Things]
Inventory == UNION {[S -> Things] : S \in SUBSET Numbers}

\* The entries of f, and those of g under other keys
Over(f, g) == [k \in (DOMAIN f) \cup (DOMAIN g) |-> IF k \in DOMAIN f THEN f[k] ELSE g[k]]

Held(p) == Range(items[p]) \cup Range(worn[p])
HoldsUnworn(p, s) == s.number \in DOMAIN items[p] /\ items[p][s.number] = s.thing

Owns(p, s) ==
  \/ HoldsUnworn(p, s)
  \/ s.number \in DOMAIN worn[p] /\ worn[p][s.number] = s.thing

Disturbs(happens) ==
  /\ disturbances' = IF happens THEN disturbances + 1 ELSE disturbances
  /\ disturbances' + careless <= MaxMishaps

Careless(happens) ==
  /\ careless' = IF happens THEN careless + 1 ELSE careless
  /\ careless' + disturbances <= MaxMishaps

----------------------------------------------------------------------------
(* Connections, and what players do outside the trades *)

\* A new Player: setUnequippedItems and setEquippedItems restore the latest number.
Connect(p) ==
  /\ p \notin online
  /\ online' = online \cup {p}
  /\ latest' = [latest EXCEPT ![p] = Max({0} \cup DOMAIN items[p] \cup DOMAIN worn[p])]
  /\ UNCHANGED <<state, partner, offer, locked, items, worn, asked, careless, disturbances>>

\* The partner is not told: removeSession knows about friends and rooms only.
Disconnect(p) ==
  /\ p \in online
  /\ online' = online \ {p}
  /\ state' = [state EXCEPT ![p] = "away"]
  /\ partner' = [partner EXCEPT ![p] = None]
  /\ offer' = [offer EXCEPT ![p] = << >>]
  /\ locked' = [locked EXCEPT ![p] = None]
  /\ latest' = [latest EXCEPT ![p] = 0]
  /\ asked' = {r \in asked : r[2] # p}
  /\ Disturbs(state[p] = "trade")
  /\ UNCHANGED <<items, worn, careless>>

PlayerState(p, s) ==
  /\ p \in online
  /\ state[p] # "trade"
  /\ s \in {"lobby", "away"}
  /\ state' = [state EXCEPT ![p] = s]
  /\ UNCHANGED <<online, partner, offer, locked, inventory, asked, careless, disturbances>>

\* The player is kicked out of a room, or its match ends: back to the lobby, trade or not.
LeaveRoom(p) ==
  /\ p \in online
  /\ state' = [state EXCEPT ![p] = "lobby"]
  /\ Disturbs(state[p] = "trade")
  /\ UNCHANGED <<online, partner, offer, locked, inventory, asked, careless>>

\* The items of the same type, or of the types of a set, are taken off.
EquipItem(p, n, off) ==
  /\ p \in online
  /\ n \in DOMAIN items[p]
  /\ Cardinality(DOMAIN worn[p] \ off) < MaxWorn
  /\ items' = [items EXCEPT ![p] =
       Over(Restrict(worn[p], off), Restrict(items[p], DOMAIN items[p] \ {n}))]
  /\ worn' = [worn EXCEPT ![p] =
       Over(Restrict(items[p], {n}), Restrict(worn[p], DOMAIN worn[p] \ off))]
  /\ Careless(\E s \in ToSet(offer[p]) : s.number = n)
  /\ UNCHANGED <<online, state, partner, offer, locked, latest, asked, disturbances>>

UnequipItem(p, n) ==
  /\ p \in online
  /\ n \in DOMAIN worn[p]
  /\ items' = [items EXCEPT ![p] = Over(Restrict(worn[p], {n}), items[p])]
  /\ worn' = [worn EXCEPT ![p] = Restrict(worn[p], DOMAIN worn[p] \ {n})]
  /\ UNCHANGED <<online, state, partner, offer, locked, latest, asked, careless, disturbances>>

----------------------------------------------------------------------------
(* Beginning a trade *)

TradeAck(p, q) ==
  /\ p \in online /\ q \in online
  /\ p # q
  /\ state[p] # "trade"
  /\ state[q] = "lobby"
  /\ asked' = asked \cup {<<p, q>>}
  /\ Cardinality(asked') <= MaxAsked
  /\ UNCHANGED <<online, state, partner, offer, locked, inventory, careless, disturbances>>

\* mutant: the asking player does not learn who the partner is
TradeAcceptHalf(p, q) ==
  /\ <<p, q>> \in asked
  /\ asked' = asked \ {<<p, q>>}
  /\ IF p \in online /\ state[p] = "lobby"
       THEN /\ state' = [state EXCEPT ![p] = "trade", ![q] = "trade"]
            /\ partner' = [partner EXCEPT ![q] = p]
            /\ Disturbs(state[q] = "trade")
       ELSE UNCHANGED <<state, partner, disturbances>>
  /\ UNCHANGED <<online, offer, locked, inventory, careless>>

\* q accepts p's request.  Only the state of p is looked at, and neither is reset.
TradeAccept(p, q) ==
  /\ <<p, q>> \in asked
  /\ asked' = asked \ {<<p, q>>}
  /\ IF p \in online /\ state[p] = "lobby"
       THEN /\ state' = [state EXCEPT ![p] = "trade", ![q] = "trade"]
            /\ partner' = [partner EXCEPT ![p] = q, ![q] = p]
            /\ Disturbs(state[q] = "trade")
       ELSE UNCHANGED <<state, partner, disturbances>>
  /\ UNCHANGED <<online, offer, locked, inventory, careless>>

\* q declines p's request.  sendInitialTradeInfo makes q p's partner all the same.
TradeDecline(p, q) ==
  /\ <<p, q>> \in asked
  /\ asked' = asked \ {<<p, q>>}
  /\ IF p \in online
       THEN /\ partner' = [partner EXCEPT ![p] = q]
            /\ Disturbs(state[p] = "trade")
       ELSE UNCHANGED <<partner, disturbances>>
  /\ UNCHANGED <<online, state, offer, locked, inventory, careless>>

----------------------------------------------------------------------------
(* During a trade *)

Trading(p) == p \in online /\ state[p] = "trade"
PartnerFound(p) == partner[p] \in online

\* mutant: the confirmation outlives the trade
ResetTradeInfoKeepingLock(S) ==
  /\ locked' = locked
  /\ offer' = [p \in Accounts |-> IF p \in S THEN << >> ELSE offer[p]]
  /\ partner' = [p \in Accounts |-> IF p \in S THEN None ELSE partner[p]]
  /\ state' = [p \in Accounts |-> IF p \in S THEN "away" ELSE state[p]]

\* resetTradeInfo of the players in S; they are in STATE_INVENTORY after it.
ResetTradeInfo(S) ==
  /\ locked' = [p \in Accounts |-> IF p \in S THEN None ELSE locked[p]]
  /\ offer' = [p \in Accounts |-> IF p \in S THEN << >> ELSE offer[p]]
  /\ partner' = [p \in Accounts |-> IF p \in S THEN None ELSE partner[p]]
  /\ state' = [p \in Accounts |-> IF p \in S THEN "away" ELSE state[p]]

\* Any request of a player whose partner has gone ends the trade on its side.
PartnerGone(p) ==
  /\ ~PartnerFound(p)
  /\ ResetTradeInfo({p})
  /\ UNCHANGED <<online, inventory, asked, careless, disturbances>>

\* mutant: the limit is checked with one item too many
TradeAddItemOverfull(p, s) ==
  /\ Trading(p)
  /\ locked[p] = None
  /\ Owns(p, s)
  /\ PartnerFound(p)
  /\ Len(offer[p]) <= MaxTraded + 1
  /\ offer' = [offer EXCEPT ![p] = Append(@, s)]
  /\ Careless(~HoldsUnworn(p, s) \/ s \in ToSet(offer[p]))
  /\ UNCHANGED <<online, state, partner, locked, inventory, asked, disturbances>>

\* Nothing keeps a player from offering an item that is worn, or offered already.
TradeAddItem(p, s) ==
  /\ Trading(p)
  /\ locked[p] = None
  /\ Owns(p, s)
  /\ \/ /\ PartnerFound(p)
        /\ Len(offer[p]) <= MaxTraded
        /\ offer' = [offer EXCEPT ![p] = Append(@, s)]
        /\ Careless(~HoldsUnworn(p, s) \/ s \in ToSet(offer[p]))
        /\ UNCHANGED <<online, state, partner, locked, inventory, asked, disturbances>>
     \/ PartnerGone(p)

\* The first entry that is equal is taken out.
TradeItemRemoval(p, s) ==
  /\ Trading(p)
  /\ locked[p] = None
  /\ Owns(p, s)
  /\ \/ /\ PartnerFound(p)
        /\ offer' = [offer EXCEPT ![p] = RemoveFirst(@, s)]
        /\ UNCHANGED <<online, state, partner, locked, inventory, asked, careless, disturbances>>
     \/ PartnerGone(p)

\* With a partner this is only a message.
TradeLock(p) ==
  /\ Trading(p)
  /\ PartnerGone(p)

TradeCancellation(p) ==
  /\ Trading(p)
  /\ \/ /\ PartnerFound(p)
        /\ ResetTradeInfo({p, partner[p]})
        /\ UNCHANGED <<online, inventory, asked, careless, disturbances>>
     \/ PartnerGone(p)

----------------------------------------------------------------------------
(* Finalization *)

\* deleteItems stops at the first item that is not among the unworn ones.
Deletable(p, k) ==
  /\ \A i \in 1 .. k : HoldsUnworn(p, offer[p][i])
  /\ \A i, j \in 1 .. k : i # j => offer[p][i] # offer[p][j]

DeletedItems(p) ==
  LET k == Max({i \in 0 .. Len(offer[p]) : Deletable(p, i)})
      gone == {offer[p][i].number : i \in 1 .. k}
  IN  Restrict(items[p], DOMAIN items[p] \ gone)

\* The items of an offer under the numbers that follow the receiver's latest one.
Renumbered(s, receiver) ==
  [n \in latest[receiver] + 1 .. latest[receiver] + Len(s) |-> s[n - latest[receiver]].thing]

\* p deletes what it offered and, with q's items spawned, has what q offered.
Traded(p, q) == Over(Renumbered(offer[q], p), DeletedItems(p))

\* mutant: the latest number of the receiver is not stored
ExchangeUnderOldNumbers(p, q) ==
  /\ items' = [items EXCEPT ![p] = Traded(p, q), ![q] = Traded(q, p)]
  /\ latest' = latest
  /\ latest[p] + Len(offer[q]) <= MaxNumber /\ latest[q] + Len(offer[p]) <= MaxNumber
  /\ ResetTradeInfo({p, q})
  /\ UNCHANGED <<online, worn, asked, careless, disturbances>>

Exchange(p, q) ==
  /\ items' = [items EXCEPT ![p] = Traded(p, q), ![q] = Traded(q, p)]
  /\ latest' = [latest EXCEPT ![p] = @ + Len(offer[q]), ![q] = @ + Len(offer[p])]
  /\ latest'[p] <= MaxNumber /\ latest'[q] <= MaxNumber
  /\ ResetTradeInfo({p, q})
  /\ UNCHANGED <<online, worn, asked, careless, disturbances>>

\* The partner that is found decides by its lock alone, whoever it was meant for.
TradeFinalization(p) ==
  /\ Trading(p)
  /\ \/ /\ PartnerFound(p)
        /\ locked[partner[p]] # None
        /\ Exchange(p, partner[p])
     \/ /\ PartnerFound(p)
        /\ locked[partner[p]] = None
        /\ locked[p] = None
        /\ locked' = [locked EXCEPT ![p] = partner[p]]
        /\ UNCHANGED <<online, state, partner, offer, inventory, asked, careless, disturbances>>
     \/ PartnerGone(p)

----------------------------------------------------------------------------
\* The things belong to somebody each, under numbers from 1.
Init ==
  /\ online = {}
  /\ state = [p \in Accounts |-> "away"]
  /\ partner = [p \in Accounts |-> None]
  /\ offer = [p \in Accounts |-> << >>]
  /\ locked = [p \in Accounts |-> None]
  /\ items \in [Accounts -> {f \in Inventory : IsInjective(f) /\ DOMAIN f = 1 .. Cardinality(DOMAIN f)}]
  /\ \A t \in Things : Cardinality({p \in Accounts : t \in Range(items[p])}) = 1
  /\ worn = [p \in Accounts |-> << >>]
  /\ latest = [p \in Accounts |-> 0]
  /\ asked = {}
  /\ careless = 0
  /\ disturbances = 0

Next ==
  \/ \E p \in Accounts :
       \/ Connect(p) \/ Disconnect(p) \/ LeaveRoom(p)
       \/ \E s \in {"lobby", "away"} : PlayerState(p, s)
       \/ \E n \in Numbers, off \in SUBSET DOMAIN worn[p] : EquipItem(p, n, off)
       \/ \E n \in Numbers : UnequipItem(p, n)
       \/ \E s \in Serial : TradeAddItem(p, s) \/ TradeItemRemoval(p, s)
       \/ TradeLock(p) \/ TradeFinalization(p) \/ TradeCancellation(p)
  \/ \E p, q \in Accounts : TradeAck(p, q) \/ TradeAccept(p, q) \/ TradeDecline(p, q)

Spec == Init /\ [][Next]_vars

----------------------------------------------------------------------------
(* Properties *)

\* The types of the variables; an offer holds one item more than the limit at most.
TypeOK ==
  /\ online \subseteq Accounts
  /\ state \in [Accounts -> {"lobby", "trade", "away"}]
  /\ partner \in [Accounts -> Accounts \cup {None}]
  /\ \A p \in Accounts : Len(offer[p]) <= MaxTraded + 1 /\ ToSet(offer[p]) \subseteq Serial
  /\ locked \in [Accounts -> Accounts \cup {None}]
  /\ \A p \in Accounts : items[p] \in Inventory /\ worn[p] \in Inventory
  /\ latest \in [Accounts -> 0 .. MaxNumber]
  /\ asked \subseteq Accounts \X Accounts
  /\ careless \in 0 .. MaxMishaps /\ disturbances \in 0 .. MaxMishaps

\* Whatever the players do, and whoever loses the connection at whatever point, a thing
\* never disappears: handleTradeFinalization spawns what it deletes under a number that
\* is not in use.
NothingLost == \A t \in Things : \E p \in Accounts : t \in Held(p)

\* As long as nobody offers an item that is worn or offered already, or puts on an item
\* that is offered, a trade duplicates nothing: deleteItems (TradeFinalizeHandler.h: "Might
\* fail! how to recover?!") finds all of the items.
NothingDuplicated ==
  careless = 0 => \A t \in Things :
    Cardinality({h \in Accounts \X Numbers : Owns(h[1], [number |-> h[2], thing |-> t])}) = 1

\* After the same precautions, what is offered is there to be given, to the last item.
OffersAreHeld == careless = 0 => \A p \in Accounts : Deletable(p, Len(offer[p]))

\* All of these together: what the players have is conserved by the exchange, which deletes
\* and spawns item by item and undoes nothing when a deletion fails.
ThingsConserved == NothingLost /\ NothingDuplicated /\ OffersAreHeld

\* As long as nothing interferes with a trade, both sides have the same idea of it.
PartnersAgree ==
  disturbances = 0 => \A p \in Accounts : Trading(p) =>
    partner[p] # None /\ Trading(partner[p]) /\ partner[partner[p]] = p

\* p ends a trade that its partner q has confirmed, for p.
Concludes(p, q) == Trading(p) /\ partner[p] = q /\ locked[q] = p

HoldingsChange(p) == Held(p)' # Held(p)

\* As long as nothing interferes with a trade, things change hands only between a player
\* who confirms and a partner who has confirmed for this player.
ConfirmedUnlessDisturbed ==
  [][disturbances = 0 => \A p \in Accounts : HoldingsChange(p) =>
       \E q \in Accounts : Concludes(p, q) \/ Concludes(q, p)]_vars

=============================================================================
