---------------------------- MODULE MCFenceWait ----------------------------
(* Two tasks that sleep on fences, perhaps on the same one, and one that polls. *)
EXTENDS FenceWait

CONSTANTS left, right
Left == {left}
Right == {right}
Both == {left, right}
=============================================================================
