--------------------------- MODULE MCNetworkStart ---------------------------
(***************************************************************************)
(* Constants of NetworkStart for TLC: two servers on one network.          *)
(***************************************************************************)
EXTENDS NetworkStart

Addresses == [s \in Server |-> IF s = "A" THEN "a" ELSE "b"]
Routers == [s \in Server |-> IF s = "A" THEN "ra" ELSE "rb"]
StaticAddress == [ip |-> "s", gateway |-> "rs"]
=============================================================================
