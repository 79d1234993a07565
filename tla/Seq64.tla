-------------------------------- MODULE Seq64 --------------------------------
(***************************************************************************)
(* The 64-bit fence sequence, kept as the upper half and the lower half    *)
(* that the masks 0xffffffff00000000 and 0xffffffff of radeon_fence.c take *)
(* apart.  Only the lower half is written by the hardware.  Half is 2^32   *)
(* in the driver; the upper half never overflows.                          *)
(***************************************************************************)
EXTENDS Integers

CONSTANT Half

ASSUME HalfAssumption == Half \in Nat \ {0}

Word == [hi : Nat, lo : 0 .. Half - 1]

Zero == [hi |-> 0, lo |-> 0]

\* u64 comparison
Before(a, b) == \/ a.hi < b.hi
                \/ a.hi = b.hi /\ a.lo < b.lo

AtMost(a, b) == \/ a.hi < b.hi
                \/ a.hi = b.hi /\ a.lo <= b.lo

\* seq + 1
Next64(a) == IF a.lo + 1 < Half THEN [hi |-> a.hi, lo |-> a.lo + 1]
                                ELSE [hi |-> a.hi + 1, lo |-> 0]

\* the upper half of one word joined with a lower half
Join(a, low) == [hi |-> a.hi, lo |-> low]

\* a <= b < a + 2^32: the lower halves of such words tell them apart
Within(a, b) == \/ b.hi = a.hi /\ a.lo <= b.lo
                \/ b.hi = a.hi + 1 /\ b.lo < a.lo

\* every word above a and not above b
Between(a, b) ==
    {w \in [hi : a.hi .. b.hi, lo : 0 .. Half - 1] : Before(a, w) /\ AtMost(w, b)}

\* the number a word stands for, for the one place that subtracts
Value(a) == a.hi * Half + a.lo
==============================================================================
