---------------------------- MODULE MCMainSocial ----------------------------
(* MainSocial for TLC: addresses of sessions, accounts and seconds are told *)
(* apart by nothing but their being different.                              *)
EXTENDS MainSocial

Symmetry == Permutations(Sessions) \cup Permutations(Accounts) \cup Permutations(Seconds)

=============================================================================
