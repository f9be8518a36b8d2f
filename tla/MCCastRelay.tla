---------------------------- MODULE MCCastRelay ----------------------------
(* CastRelay for TLC: an order of every kind. *)
EXTENDS CastRelay, TLC

MCOrders ==
  {JoinOrder, CreateOrder, LeaveOrder, CrashOrder, MatchEndOrder, MatchLeaveOrder,
   MatchStartOrder, LoadingOrder, PositionOrder, RespawnOrder, 266, 147, 94, 166, 408}

MCPositions == {[size |-> 28, weapon |-> 3, bullet4 |-> 0],
                [size |-> 40, weapon |-> 3, bullet4 |-> 21]}

MCSymmetry == Permutations(Sessions \ Attackers)
=============================================================================
