----------------------------- MODULE MCGateway -----------------------------
(* One track, readable or not; commands of two requests, of one, and two   *)
(* kinds that ask Liquidsoap nothing.                                      *)
EXTENDS Gateway

MCTitle == [t \in Tracks |-> t]
MCKind  == [m \in Msgs |-> IF m = "skip" THEN "single" ELSE m]
=============================================================================
