------------------------------ MODULE RingQueue ------------------------------
(***************************************************************************)
(* What a command ring promises: the GPU reads the committed commands once *)
(* and in order, and a command it has not read is lost only when the GPU   *)
(* is stopped.                                                             *)
(***************************************************************************)
EXTENDS Integers, Sequences

CONSTANT Capacity

VARIABLES
  pending,  \* the committed commands the GPU has not read
  on        \* the GPU may read

vars == <<pending, on>>

Init == pending = <<>> /\ on = TRUE

Submit ==
  /\ Len(pending) < Len(pending') /\ Len(pending') < Capacity
  /\ SubSeq(pending', 1, Len(pending)) = pending
  /\ UNCHANGED on

Execute ==
  /\ on /\ pending # <<>>
  /\ pending' = Tail(pending)
  /\ UNCHANGED on

Stop == on /\ on' = FALSE /\ UNCHANGED pending

Continue == ~on /\ on' = TRUE /\ pending' \in {pending, <<>>}

Next == Submit \/ Execute \/ Stop \/ Continue

Spec == Init /\ [][Next]_vars
=============================================================================
