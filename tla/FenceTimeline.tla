---------------------------- MODULE FenceTimeline ----------------------------
(***************************************************************************)
(* What the fence sequence of one ring promises to everyone who waits on   *)
(* it: fences are numbered as they are emitted, the ring finishes them in  *)
(* order, and the published sequence follows the finished work from        *)
(* behind.  It never moves back and never runs ahead of the hardware.      *)
(***************************************************************************)
EXTENDS Seq64

VARIABLES
    emitted,    \* the last fence put on the ring
    finished,   \* the last fence the ring has executed or been forced past
    published   \* the last fence the driver reports as complete

timelineVars == <<emitted, finished, published>>

Init == emitted = Zero /\ finished = Zero /\ published = Zero

Emit == /\ emitted' = Next64(emitted)
        /\ UNCHANGED <<finished, published>>

Finish == /\ finished' \in Between(finished, emitted)
          /\ UNCHANGED <<emitted, published>>

Publish == /\ published' \in Between(published, finished)
           /\ UNCHANGED <<emitted, finished>>

Next == Emit \/ Finish \/ Publish

Spec == Init /\ [][Next]_timelineVars
==============================================================================
