---------------------------- MODULE MCRadeonRing ----------------------------
(***************************************************************************)
(* Instances of RadeonRing.  The sizes keep, in units of one padded job    *)
(* of 32 words, the proportions of r300: the request of radeon_ib_schedule *)
(* exceeds what a job writes by as much as the start block needs.          *)
(***************************************************************************)
EXTENDS RadeonRing

\* r100_ring_ib_execute, one word for each packet
R100Layout == <<"save", "ib", "fence">>

Packet(words, kind) == [i \in 1 .. words |-> IF i = words THEN kind ELSE "part"]

\* cayman_vm_flush, cayman_ring_ib_execute and cayman_fence_ring_emit, word for
\* word: the save's last word is written 2 words after the place it counts from
CaymanLayout ==
  Packet(2, "sync") \o Packet(2, "sync") \o Packet(2, "sync") \o Packet(7, "sync")
  \o Packet(2, "sync") \o Packet(2, "sync") \o Packet(3, "save") \o Packet(4, "ib")
  \o Packet(5, "sync") \o Packet(5, "sync") \o Packet(6, "fence")
=============================================================================
