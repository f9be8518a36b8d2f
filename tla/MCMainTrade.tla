---------------------------- MODULE MCMainTrade ----------------------------
\* The model that TLC checks: which player is which, and which thing, makes no difference.
EXTENDS MainTrade

Symmetry == Permutations(Accounts) \cup Permutations(Things)

\* What distinguishes two states.  Only a trading player's partner is read, and whoever
\* begins to trade is given a new one.
View ==
  <<online, state, [p \in Accounts |-> IF Trading(p) THEN partner[p] ELSE None],
    offer, locked, inventory, asked, careless, disturbances>>
=============================================================================
