-------------------------- MODULE MCCommonSession --------------------------
(* CommonSession for TLC: requests of every kind, with data of several lengths. *)
EXTENDS CommonSession

MCRequests ==
  { [Packet(0, 1, order, 3, 6, SubSeq(<<1, 7, 2, 0, 5, 3, 4, 6, 1, 2, 7, 7, 3>>, 1, n)) EXCEPT !.crypt = c] :
      <<c, order, n>> \in {<<0, Refused, 0>>, <<1, Listed, 1>>, <<2, Echoed, 7>>, <<3, Echoed, 8>>,
                          <<4, Echoed, 13>>, <<0, 6, 3>>} }
=============================================================================
