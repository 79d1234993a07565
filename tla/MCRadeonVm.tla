----------------------------- MODULE MCRadeonVm -----------------------------
(* Small instances of RadeonVm. *)
EXTENDS RadeonVm, TLC

CONSTANTS vm1, vm2, bo1, bo2
OneVm == {vm1}
TwoVms == {vm1, vm2}
OneBo == {bo1}
TwoBos == {bo1, bo2}
=============================================================================
