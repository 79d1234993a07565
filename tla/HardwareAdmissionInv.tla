------------------------ MODULE HardwareAdmissionInv ------------------------
(***************************************************************************)
(* The inductive invariant behind the safety of HardwareAdmission: how the *)
(* counters, the locks and the owner follow from where each actor is.      *)
(***************************************************************************)
EXTENDS HardwareAdmission

\* What an actor counts as a set of pairs: its first n increments.
Leases(f, n) == {p \in Actor \X (1..n) : p[2] <= f[p[1]]}

\* The two atomic counters are exact.
Counted ==
    /\ transactions = Cardinality(Leases(tx, MaxTx))
    /\ readers = Cardinality(Leases(rd, MaxRd))

\* Each call keeps to its own code, and its counters have room.
InCall(a) ==
    /\ pc[a] \in RdPc => call[a] \in {"access", "accessWait"}
    /\ pc[a] \in TxPc => call[a] \in {"tx", "txWait"}
    /\ pc[a] \in TrPc => call[a] \in Lifecycle
    /\ pc[a] = "wait" => call[a] \in {"accessWait", "txWait"}
    /\ pc[a] \in LaPc => call[a] \in {"park", "latch", "publish", "work"}
    /\ call[a] = "work" => a = Worker
    /\ pc[a] \in {"rd_check", "rd_inc"} => rd[a] < MaxRd
    /\ pc[a] = "wait" /\ call[a] = "accessWait" => rd[a] < MaxRd
    /\ pc[a] \in {"rd_state", "rd_valid", "rd_undo"} => rd[a] > 0
    /\ pc[a] \in {"tx_check", "tx_closing", "tx_inc"} => tx[a] < MaxTx
    /\ pc[a] \in QcPc \cup {"wait"} /\ call[a] \in {"tx", "txWait"} => tx[a] < MaxTx
    /\ pc[a] \in {"tx_state", "tx_valid", "tx_undo"} => tx[a] > 0

\* The kworker only ever publishes.
WorkerPublishes ==
    /\ pc[Worker] \in {"top"} \cup LaPc \cup PpPc \cup QcPc \cup WkPc
    /\ call[Worker] = IF pc[Worker] = "top" THEN "none" ELSE "work"
    /\ tx[Worker] = 0 /\ rd[Worker] = 0 /\ role[Worker] = "none"

\* The transition lock is held from transition_begin to transition_end, and by
\* a publisher that owns no transition.
InTransition(a) ==
    pc[a] \in (TrPc \ {"tr_lock"}) \cup TePc \/ role[a] # "none"
HoldsTrLock(a) ==
    \/ InTransition(a)
    \/ pc[a] \in {"pp_pubLock", "pp_drain", "pp_contain", "pp_unlock"}

\* The owner field is set from its store to its clearing.
Owns(a) ==
    \/ pc[a] \in {"tr_publish", "tr_drainRd", "tr_confirm", "tr_withdraw",
                  "tr_disown"}
    \/ role[a] # "none" /\ pc[a] # "te_state"

\* Where a transition owner may be: in a nested call or in its end.
OwnerCalls(a) ==
    role[a] # "none" =>
        pc[a] \in {"top", "wait", "te_drain", "te_disown", "te_state"}
                  \cup RdPc \cup TxPc \cup LaPc \cup PpPc \cup QcPc

LocksFollowPc ==
    /\ \A a \in Actor : HoldsTrLock(a) <=> trLock = a
    /\ \A a \in Actor : Owns(a) <=> owner = a
    /\ \A a \in Actor : OwnerCalls(a)

\* The transaction drain is over: closing is set and no other actor has an
\* admitted transaction.
TxDrained(t) ==
    pc[t] \in {"tr_parked", "tr_own", "tr_publish", "tr_drainRd", "tr_confirm"}
        \/ role[t] # "none"
RdDrained(t) == pc[t] = "tr_confirm" \/ role[t] # "none"
StateClosed(t) == pc[t] = "tr_drainRd" \/ RdDrained(t)

Drained ==
    \A t \in Task :
        /\ pc[t] = "tr_drainTx" \/ TxDrained(t) => closing
        /\ StateClosed(t) => state # "RUNNING"
        /\ TxDrained(t) => \A u \in Actor \ {t} : ~AdmittedTx(u)
        /\ RdDrained(t) =>
             \A u \in Actor \ {t} :
                 ~AdmittedRd(u) /\ (pc[u] = "rd_valid" => seen[u] # "RUNNING")

InCalls == \A a \in Actor : InCall(a)

AdmissionInv ==
    /\ TypeOK
    /\ Counted
    /\ InCalls
    /\ WorkerPublishes
    /\ LocksFollowPc
    /\ Drained

------------------------------------------------------------------------------
(***************************************************************************)
(* What the other safety properties rest on, each part inductive together  *)
(* with AdmissionInv and the parts before it.                              *)
(***************************************************************************)
Terminal == {"PARKED", "SHUTTING_DOWN", "SHUTDOWN"}

\* rs4xx_hardware_state_lock is held across two steps by the latch and by
\* transition_end, and the latch leaves nothing half closed behind it.
StateLockHeld ==
    \A a \in Actor : pc[a] \in {"la_closing", "la_state", "te_closing"} <=> stLock = a

ParkedInv ==
    /\ StateLockHeld
    /\ \A a \in Actor :
         /\ pc[a] \in {"la_closing", "la_state"} => parked
         /\ pc[a] = "la_state" => closing
         /\ pc[a] = "te_closing" /\ parked =>
              closing /\ state \in Terminal /\ seen[a] # "RUNNING"
    /\ ParkedStaysClosed

\* A device that is off is closed to arrivals, and nobody owns a transition:
\* the owner that is about to switch it off holds no access itself.
Off == state \in {"SUSPENDED", "SHUTDOWN"}

OffInv ==
    /\ Off => /\ closing
              /\ \A a \in Actor :
                   ~Admitted(a) /\ (pc[a] = "rd_valid" => seen[a] # "RUNNING")
    /\ \A t \in Task :
         /\ StateClosed(t) => ~Off
         /\ pc[t] \in TrPc \cup TePc => tx[t] = 0 /\ rd[t] = 0
         /\ pc[t] = "te_closing" => seen[t] = state

\* There is one unload, and its SHUTDOWN is the last state of all.
Unloading(t) == "shutdown" \in {call[t], role[t]} \/ call[t] = "unload"
Ending(t) == pc[t] \in {"te_drain", "te_disown", "te_state"}

ShutdownInv ==
    /\ \A t, u \in Task : Unloading(t) /\ Unloading(u) => t = u
    /\ state = "SHUTDOWN" =>
         \A t \in Task : "shutdown" \notin {call[t], role[t]}
    /\ \A t \in Task :
         /\ pc[t] \in TePc => call[t] \in {"end", "unload"}
         /\ pc[t] \in {"tq_disable", "tq_sync"} => call[t] = "unload"
         /\ Ending(t) => /\ seen[t] = "SHUTDOWN" <=> role[t] = "shutdown"
                         /\ call[t] = "unload" <=> role[t] = "shutdown"
                         /\ role[t] # "none"
         /\ call[t] = "unload" /\ ~Ending(t) => state = "SHUTDOWN"

\* A contained device is latched or shut down.
ContainedInv ==
    /\ \A a \in Actor : pc[a] \in PpPc => parked
    /\ contained => parked \/ state = "SHUTDOWN"
    /\ ContainedMeansIdle

\* A disabled work item stays off its queue.
PublisherInv ==
    /\ disabled => ~queued
    /\ \A t \in Task : pc[t] = "tq_sync" => disabled
    /\ ~initialized => disabled
    /\ PublisherIsKept

\* Whoever publishes PARKED without waking anyone does so after the latch.
WakeInv ==
    /\ state = "PARKED" => parked
    /\ \A a \in Actor : pc[a] \in {"tr_refuse", "tr_withdraw"} => parked
    /\ \A a \in Actor : Ending(a) /\ seen[a] = "PARKED" => parked
    /\ NoMissedWakeup

AdmissionSafe ==
    /\ AdmissionInv
    /\ ParkedInv
    /\ OffInv
    /\ ShutdownInv
    /\ ContainedInv
    /\ PublisherInv
    /\ WakeInv
=============================================================================
