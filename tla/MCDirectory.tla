---------------------------- MODULE MCDirectory ----------------------------
(***************************************************************************)
(* Small instances of Directory for TLC.                                   *)
(***************************************************************************)
EXTENDS DirectoryProperties

CONSTANTS hub, spoke, remote, x, y, local, test

Dirs == {hub, spoke, remote}
TwoMachines == [d \in Dirs |-> IF d = remote THEN 2 ELSE 1]
OneHub == [d \in Dirs |-> IF d = spoke THEN {hub} ELSE {}]
OneNetHub == [d \in Dirs |-> IF d = remote THEN hub ELSE None]
Served1 == [d \in Dirs |-> {test}]
\* x is an agent of the spoke, y of the hub
Homes == [a \in {x, y} |-> IF a = x THEN spoke ELSE hub]
OfferSets == [a \in {x, y} |->
    IF a = x THEN {{local}, {local, test}} ELSE {{test}, NoVnets}]

=============================================================================
