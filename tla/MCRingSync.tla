----------------------------- MODULE MCRingSync -----------------------------
(* Three rings, all with semaphores or the third without. *)
EXTENDS RingSync

CONSTANTS a, b, s1, s2
MCBo == {a, b}
OneBo == {a}
MCSlot == {s1, s2}
OneSlot == {s1}
MCMutes == {{}, {3}}
=============================================================================
