--------------------------- MODULE MCMainAccounts ---------------------------
\* An instance of MainAccounts: a tester, a player who may log in twice, and a name nobody
\* may take.
EXTENDS MainAccounts, TLC

CONSTANTS tester, player, gm, c1, c2, c3

MCGrade == (tester :> GRADE_TESTER) @@ (player :> 2)

MCKnows == [c \in Clients |-> IF c = c1 THEN {tester} ELSE {player}]

Symmetry == Permutations({c2, c3})
=============================================================================
