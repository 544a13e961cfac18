---------------------------- MODULE MCRoCoBridge ----------------------------
(***************************************************************************)
(* A small instance of the bridge.                                          *)
(***************************************************************************)
EXTENDS RoCoBridge, TLC

CONSTANTS c1, c2

\* c1 has the server's limit, c2 a shorter one of its own.
MCClients == {c1, c2}
MCClientMaxSteps == c1 :> MaxEpisodeSteps @@ c2 :> 1
=============================================================================
