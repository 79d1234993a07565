------------------------------ MODULE MCFenceSeq ------------------------------
(* Instances of FenceSeq: halves of a few values, so that a few fences wrap    *)
(* the lower half the hardware reports.                                        *)
EXTENDS FenceSeq

CONSTANTS worker, resetter, irq

MCThree == {worker, resetter, irq}
MCTwo == {worker, resetter}
MCIrq == {irq}
MCShort == [hi |-> 1, lo |-> 0]
MCLong == [hi |-> 1, lo |-> 1]
==============================================================================
