------------------------- MODULE MCMMFileTransport -------------------------
(***************************************************************************)
(* Small instances of MMFileTransport for TLC.                             *)
(***************************************************************************)
EXTENDS MMFileTransportProperties

CONSTANTS m1, m2, m3

TwoOne == [e \in End |-> IF e = "A" THEN 2 ELSE 1]
=============================================================================
