------------------------------- MODULE MCMarket -------------------------------
(* A click by one of two accounts, and requests of anybody about its service, whose id can be
   written in two ways. The prices typed in come to nothing, to one STAR and to seven. *)
EXTENDS Market
MCEntered == {0, 2, 13}
=============================================================================
