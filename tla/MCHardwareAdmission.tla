------------------------ MODULE MCHardwareAdmission ------------------------
(***************************************************************************)
(* Small instances of HardwareAdmission.  Each run gives the tasks a role  *)
(* of the driver: ioctl paths and destructors (client), reset and power    *)
(* management (mover), unload (unloader), the failure paths that park the  *)
(* device (parker).                                                        *)
(***************************************************************************)
EXTENDS HardwareAdmissionInv, TLC

CONSTANTS client, mover, other

Accesses == {"access", "accessWait", "tx", "txWait"}

\* The whole lifecycle, parking and publishing, against a user that may itself
\* park the device from its transaction, and an unload beside them.
LifecycleOps ==
    (client :> Accesses \cup {"latch"})
    @@ (mover :> Lifecycle \cup {"tx", "publish", "park"}) @@ (other :> {"shutdown"})

\* Progress: a user that retries for ever, and may park the device from its
\* transaction, against resets without end and the unload.
ProgressOps ==
    (client :> {"accessWait", "tx", "latch"}) @@ (mover :> {"reset", "shutdown"})

\* A destructor that takes a transaction inside its own.
NestedOps == (client :> {"txWait", "nestedWait"}) @@ (mover :> {"reset"})
=============================================================================
