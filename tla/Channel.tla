------------------------------ MODULE Channel ------------------------------
(***************************************************************************)
(* What one direction of a connection promises: messages are taken in the  *)
(* order in which they were put, each once, none before it was put.  Once  *)
(* the channel is cut, the newest of those under way may be lost.          *)
(***************************************************************************)
EXTENDS Sequences, Naturals

CONSTANT Data
VARIABLES pipe,     \* put and not yet taken, oldest first
          taken,    \* what the receiver has taken
          cut

Init == pipe = <<>> /\ taken = <<>> /\ cut = FALSE

Put ==
    /\ ~cut
    /\ \E d \in Data : pipe' = Append(pipe, d)
    /\ UNCHANGED <<taken, cut>>

Take ==
    /\ pipe # <<>>
    /\ taken' = Append(taken, Head(pipe))
    /\ pipe' = Tail(pipe)
    /\ UNCHANGED cut

Cut ==
    /\ cut' = TRUE
    /\ \E n \in 0..Len(pipe) : pipe' = SubSeq(pipe, 1, n)
    /\ UNCHANGED taken

Next == Put \/ Take \/ Cut

Spec == Init /\ [][Next]_<<pipe, taken, cut>>

=============================================================================
