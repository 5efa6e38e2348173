------------------------------ MODULE MCGateway ------------------------------
(* The gateway with one relay and one origin service.                         *)
EXTENDS Gateway

CONSTANTS weather, quotes

MCServiceIds == {weather, quotes}
MCRelays     == {quotes}
=============================================================================
