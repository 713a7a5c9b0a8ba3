--------------------------- MODULE MCSocketBundle ---------------------------
(***************************************************************************)
(* Small instances of SocketBundle for TLC.                                *)
(***************************************************************************)
EXTENDS SocketBundleProperties

TwoOne == [r \in Router |-> IF r = "a" THEN 2 ELSE 1]
One == [r \in Router |-> IF r = "a" THEN 1 ELSE 0]
FirstOfA == {[from |-> "a", n |-> 1]}
=============================================================================
