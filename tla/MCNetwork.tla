----------------------------- MODULE MCNetwork -----------------------------
(***************************************************************************)
(* Small instances of Network for TLC.                                     *)
(***************************************************************************)
EXTENDS NetworkProperties

MCMaxSends == [r \in Router |-> IF r = "a" THEN 2 ELSE 1]

=============================================================================
