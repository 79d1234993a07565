-------------------------- MODULE HardwareAdmission --------------------------
(***************************************************************************)
(* The RS400/RS480 hardware admission protocol of radeon_device.c: bounded *)
(* register readers and callback-bearing transactions are counted, a       *)
(* lifecycle transition (reset, suspend, resume, shutdown) closes          *)
(* admission, drains both counters and then owns the hardware, and a       *)
(* terminal latch parks the device for good and hands the CPU-only         *)
(* containment to a publisher work item.                                   *)
(*                                                                         *)
(* One action is one atomic operation of the code on shared state.  The    *)
(* code orders its counter and state accesses with full barriers           *)
(* (smp_mb, smp_mb__after_atomic), so the interleaving is sequentially     *)
(* consistent.  A wake_up_all is part of the step before it: a sleeper     *)
(* that tests its condition between the two is merely woken once too often.*)
(***************************************************************************)
EXTENDS Naturals, FiniteSets

CONSTANTS Task,      \* kernel tasks that use the device
          Worker,    \* the kworker that runs rs4xx_parked_publish_work
          NoTask,    \* the NULL owner and the free lock
          MaxTx,     \* how deep one task nests transactions
          MaxRd,     \* how deep one task nests readers
          Ops        \* Ops[t]: the calls task t makes

Actor == Task \cup {Worker}

Lifecycle == {"reset", "suspend", "resume", "shutdown"}

\* The calls of the protocol.  "nestedWait" lets a task make a wait-capable
\* transaction call inside its own transaction, the way radeon_gem_object_free
\* reaches radeon_ttm_bo_destroy.
Calls == {"access", "accessWait", "tx", "txWait", "nestedWait",
          "park", "latch", "publish"} \cup Lifecycle

ASSUME AdmissionAssumption ==
    /\ IsFiniteSet(Task)
    /\ Worker \notin Task
    /\ NoTask \notin Actor
    /\ MaxTx \in Nat \ {0}
    /\ MaxRd \in Nat \ {0}
    /\ Ops \in [Task -> SUBSET Calls]

HwState == {"RUNNING", "RESETTING", "SUSPENDING", "SUSPENDED", "RESUMING",
            "SHUTTING_DOWN", "SHUTDOWN", "PARKED"}

VARIABLES
    state,         \* rs4xx_hardware_state
    parked,        \* gpu_parked
    closing,       \* rs4xx_hardware_closing
    transactions,  \* rs4xx_hardware_transactions
    readers,       \* rs4xx_hardware_readers
    owner,         \* rs4xx_hardware_owner
    trLock,        \* holder of rs4xx_hardware_transition_lock
    pubLock,       \* holder of rs4xx_parked_publish_lock
    stLock,        \* holder of rs4xx_hardware_state_lock across two steps
    asleep,        \* actors sleeping on rs4xx_hardware_wait
    pending,       \* rs4xx_parked_publish_pending
    running,       \* rs4xx_parked_publish_running
    initialized,   \* rs4xx_parked_publish_work_initialized
    queued,        \* the work item is on its queue
    disabled,      \* disable_work_sync was called
    contained,     \* the CPU-only containment of a parked device has run
    pc,            \* where each actor is
    call,          \* the call each actor is executing
    seen,          \* the local variable "state" of each actor
    tx,            \* transactions each actor has counted
    rd,            \* readers each actor has counted
    role           \* the transition each actor owns

gate     == <<state, parked, closing>>
counts   == <<transactions, readers, tx, rd>>
locks    == <<trLock, pubLock>>
work     == <<pending, running, initialized, queued, disabled, contained>>
hardware == <<gate, counts, owner, locks, stLock>>
shared   == <<hardware, asleep, work>>
local    == <<call, seen, role>>
vars     == <<shared, pc, local>>

RdPc == {"rd_check", "rd_inc", "rd_state", "rd_valid", "rd_undo"}
TxPc == {"tx_check", "tx_closing", "tx_inc", "tx_state", "tx_valid", "tx_undo"}
TrPc == {"tr_lock", "tr_check", "tr_close", "tr_drainTx", "tr_parked",
         "tr_refuse", "tr_drainRefused", "tr_own", "tr_publish", "tr_drainRd",
         "tr_confirm", "tr_withdraw", "tr_disown", "tr_unlock"}
TePc == {"te_drain", "te_disown", "te_state", "te_closing", "te_unlock"}
LaPc == {"la_parked", "la_closing", "la_state", "la_pending"}
PpPc == {"pp_lock", "pp_pubLock", "pp_drain", "pp_contain", "pp_unlock"}
QcPc == {"qc_flags", "qc_txns"}
WkPc == {"wk_init", "wk_clear", "wk_done"}
TqPc == {"tq_disable", "tq_sync"}
Pc   == {"top", "wait"} \cup RdPc \cup TxPc \cup TrPc \cup TePc \cup LaPc
            \cup PpPc \cup QcPc \cup WkPc \cup TqPc

FlagsOK ==
    /\ parked \in BOOLEAN
    /\ closing \in BOOLEAN
    /\ pending \in BOOLEAN
    /\ running \in BOOLEAN
    /\ initialized \in BOOLEAN
    /\ queued \in BOOLEAN
    /\ disabled \in BOOLEAN
    /\ contained \in BOOLEAN

TypeOK ==
    /\ FlagsOK
    /\ state \in HwState
    /\ transactions \in Nat
    /\ readers \in Nat
    /\ owner \in Task \cup {NoTask}
    /\ trLock \in Actor \cup {NoTask}
    /\ pubLock \in Actor \cup {NoTask}
    /\ stLock \in Actor \cup {NoTask}
    /\ asleep \in SUBSET Actor
    /\ pc \in [Actor -> Pc]
    /\ call \in [Actor -> Calls \cup {"none", "txEnd", "end", "unload", "work"}]
    /\ seen \in [Actor -> HwState]
    /\ tx \in [Actor -> 0..MaxTx]
    /\ rd \in [Actor -> 0..MaxRd]
    /\ role \in [Actor -> Lifecycle \cup {"none"}]

\* radeon_device_init: the device starts open, with the publisher set up.
Init ==
    /\ state = "RUNNING"
    /\ parked = FALSE
    /\ closing = FALSE
    /\ transactions = 0
    /\ readers = 0
    /\ owner = NoTask
    /\ trLock = NoTask
    /\ pubLock = NoTask
    /\ stLock = NoTask
    /\ asleep = {}
    /\ pending = FALSE
    /\ running = FALSE
    /\ initialized = TRUE
    /\ queued = FALSE
    /\ disabled = FALSE
    /\ contained = FALSE
    /\ pc = [a \in Actor |-> "top"]
    /\ call = [a \in Actor |-> "none"]
    /\ seen = [a \in Actor |-> "RUNNING"]
    /\ tx = [a \in Actor |-> 0]
    /\ rd = [a \in Actor |-> 0]
    /\ role = [a \in Actor |-> "none"]

------------------------------------------------------------------------------
\* Helpers shared by the calls.

Errno(s) ==
    CASE s = "PARKED" -> "EIO"
      [] s = "SUSPENDED" -> "EHOSTDOWN"
      [] s \in {"SHUTTING_DOWN", "SHUTDOWN"} -> "ESHUTDOWN"
      [] s \in {"RESETTING", "SUSPENDING", "RESUMING"} -> "EBUSY"
      [] s = "RUNNING" -> "EALREADY"

OwnedStates == {"RESETTING", "SUSPENDING", "RESUMING", "SHUTTING_DOWN"}

OwnerAdmitted(t, s) == ~parked /\ s \in OwnedStates /\ owner = t

\* radeon_rs4xx_hardware_disposition_available
Disposition ==
    \/ parked
    \/ state = "RUNNING" /\ ~closing
    \/ state \in {"PARKED", "SHUTTING_DOWN", "SHUTDOWN"}

Goto(a, l) == pc' = [pc EXCEPT ![a] = l]

Step(t, from, to) == pc[t] = from /\ Goto(t, to)

\* The call returns: its local variables are forgotten.
Finish(a) ==
    /\ Goto(a, "top")
    /\ call' = [call EXCEPT ![a] = "none"]
    /\ seen' = [seen EXCEPT ![a] = "RUNNING"]

\* The call is refused with errno e: a wait-capable call waits for a stable
\* disposition and retries, any other call returns e.
Refuse(a, e) ==
    IF call[a] \in {"accessWait", "txWait"} /\ e \in {"EBUSY", "EHOSTDOWN"}
    THEN Goto(a, "wait") /\ UNCHANGED <<call, seen>>
    ELSE Finish(a)

\* wait_event(rs4xx_hardware_wait, cond), then on to label l.
WaitEvent(a, cond, l) ==
    /\ a \notin asleep
    /\ \/ cond /\ Goto(a, l) /\ UNCHANGED asleep
       \/ ~cond /\ asleep' = asleep \cup {a} /\ UNCHANGED pc

WakeAll == asleep' = {}

\* The sleeper's retry of a refused wait-capable call.
DispositionWait(a) ==
    /\ pc[a] = "wait"
    /\ WaitEvent(a, Disposition,
                 IF call[a] = "accessWait" THEN "rd_check" ELSE "tx_check")
    /\ UNCHANGED <<hardware, work, local>>

Begins(t, c) == pc[t] = "top" /\ c \in Ops[t] /\ call' = [call EXCEPT ![t] = c]

\* A task with nothing counted and no transition of its own.
Idle(t) == tx[t] = 0 /\ rd[t] = 0 /\ role[t] = "none"
------------------------------------------------------------------------------
\* Readers: radeon_rs4xx_hardware_access_begin, _access_wait_begin, _access_end.

AccessBegin(t, c) ==
    /\ Begins(t, c)
    /\ c \in {"access", "accessWait"}
    /\ rd[t] < MaxRd
    /\ c = "accessWait" => rd[t] = 0
    /\ Goto(t, "rd_check")
    /\ UNCHANGED <<shared, seen, role>>

\* The first test reads the state and the latch, and refuses without counting.
ReaderCheck(t) ==
    /\ pc[t] = "rd_check"
    /\ CASE parked -> Refuse(t, "EIO")
         [] ~parked /\ state # "RUNNING" /\ ~OwnerAdmitted(t, state)
              -> Refuse(t, Errno(state))
         [] OTHER -> Goto(t, "rd_inc") /\ UNCHANGED <<call, seen>>
    /\ UNCHANGED <<shared, role>>

ReaderInc(t) ==
    /\ pc[t] = "rd_inc"
    /\ readers' = readers + 1
    /\ rd' = [rd EXCEPT ![t] = @ + 1]
    /\ Goto(t, "rd_state")
    /\ UNCHANGED <<gate, transactions, tx, owner, locks, stLock, asleep, work,
                   local>>

ReaderReread(t) ==
    /\ pc[t] = "rd_state"
    /\ seen' = [seen EXCEPT ![t] = state]
    /\ Goto(t, "rd_valid")
    /\ UNCHANGED <<shared, call, role>>

\* Mutant: the revalidation after the increment is dropped.
ReaderAdmitsUnchecked(t) == TRUE

ReaderAdmits(t) ==
    \/ seen[t] = "RUNNING" /\ ~parked
    \/ OwnerAdmitted(t, seen[t])

ReaderValidate(t) ==
    /\ pc[t] = "rd_valid"
    /\ \/ ReaderAdmits(t) /\ Finish(t)
       \/ ~ReaderAdmits(t) /\ Goto(t, "rd_undo") /\ UNCHANGED <<call, seen>>
    /\ UNCHANGED <<shared, role>>

\* atomic_dec_and_test(readers), waking the waiters at zero.
ReaderDec(t) ==
    /\ readers' = readers - 1
    /\ rd' = [rd EXCEPT ![t] = @ - 1]
    /\ IF readers = 1 THEN WakeAll ELSE UNCHANGED asleep
    /\ UNCHANGED <<transactions, tx>>

ReaderUndo(t) ==
    /\ pc[t] = "rd_undo"
    /\ ReaderDec(t)
    /\ Refuse(t, Errno(seen[t]))
    /\ UNCHANGED <<gate, owner, locks, stLock, work, role>>

AccessEnd(t) ==
    /\ pc[t] = "top"
    /\ rd[t] > 0
    /\ ReaderDec(t)
    /\ UNCHANGED <<gate, owner, locks, stLock, work, pc, local>>

------------------------------------------------------------------------------
\* Transactions: radeon_rs4xx_hardware_transaction_begin, _wait_begin, _end.

TransactionBegin(t, c) ==
    /\ pc[t] = "top"
    /\ c \in Ops[t]
    /\ rd[t] = 0
    /\ tx[t] < MaxTx
    /\ \/ c \in {"tx", "txWait"} /\ (c = "txWait" => tx[t] = 0)
       \/ c = "nestedWait" /\ tx[t] > 0
    /\ call' = [call EXCEPT ![t] = IF c = "tx" THEN "tx" ELSE "txWait"]
    /\ Goto(t, "tx_check")
    /\ UNCHANGED <<shared, seen, role>>

TxCheck(t) ==
    /\ pc[t] = "tx_check"
    /\ CASE parked -> Refuse(t, "EIO")
         [] ~parked /\ state # "RUNNING" /\ ~OwnerAdmitted(t, state)
              -> Refuse(t, Errno(state))
         [] OTHER -> /\ Goto(t, "tx_closing")
                     /\ seen' = [seen EXCEPT ![t] = state]
                     /\ UNCHANGED call
    /\ UNCHANGED <<shared, role>>

\* Mutant: the closing flag is tested only after the increment.
TxClosingLate(t) ==
    /\ Step(t, "tx_closing", "tx_inc")
    /\ UNCHANGED <<shared, local>>

\* Only a root that saw RUNNING is turned away by the closing flag.
TxClosing(t) ==
    /\ pc[t] = "tx_closing"
    /\ IF seen[t] = "RUNNING" /\ closing
       THEN Refuse(t, "EBUSY")
       ELSE Goto(t, "tx_inc") /\ UNCHANGED <<call, seen>>
    /\ UNCHANGED <<shared, role>>

TxInc(t) ==
    /\ pc[t] = "tx_inc"
    /\ transactions' = transactions + 1
    /\ tx' = [tx EXCEPT ![t] = @ + 1]
    /\ Goto(t, "tx_state")
    /\ UNCHANGED <<gate, readers, rd, owner, locks, stLock, asleep, work,
                   local>>

TxReread(t) ==
    /\ pc[t] = "tx_state"
    /\ seen' = [seen EXCEPT ![t] = state]
    /\ Goto(t, "tx_valid")
    /\ UNCHANGED <<shared, call, role>>

\* Mutant: the revalidation forgets the closing flag.
TxAdmitsClosing(t) ==
    \/ OwnerAdmitted(t, seen[t])
    \/ seen[t] = "RUNNING" /\ ~parked

TxAdmits(t) ==
    \/ OwnerAdmitted(t, seen[t])
    \/ seen[t] = "RUNNING" /\ ~parked /\ ~closing

TxValidate(t) ==
    /\ pc[t] = "tx_valid"
    /\ \/ TxAdmits(t) /\ Finish(t)
       \/ ~TxAdmits(t) /\ Goto(t, "tx_undo") /\ UNCHANGED <<call, seen>>
    /\ UNCHANGED <<shared, role>>

\* The errno of a transaction that fails its revalidation.
TxErrno(t) == IF seen[t] = "RUNNING" THEN "EBUSY" ELSE Errno(seen[t])

\* atomic_dec_and_test(transactions), waking the waiters at zero.  The task that
\* reaches zero also runs radeon_rs4xx_queue_parked_publish before it returns.
TxDec(t) ==
    /\ transactions' = transactions - 1
    /\ tx' = [tx EXCEPT ![t] = @ - 1]
    /\ IF transactions = 1 THEN WakeAll ELSE UNCHANGED asleep
    /\ UNCHANGED <<readers, rd>>

TxUndo(t) ==
    /\ pc[t] = "tx_undo"
    /\ TxDec(t)
    /\ IF transactions = 1
       THEN Goto(t, "qc_flags") /\ UNCHANGED <<call, seen>>
       ELSE Refuse(t, TxErrno(t))
    /\ UNCHANGED <<gate, owner, locks, stLock, work, role>>

\* Mutant: the last transaction wakes the waiters but queues no publisher.
TransactionEndNoQueue(t) ==
    /\ pc[t] = "top"
    /\ tx[t] > 0
    /\ rd[t] = 0
    /\ TxDec(t)
    /\ UNCHANGED <<gate, owner, locks, stLock, work, pc, local>>

TransactionEnd(t) ==
    /\ pc[t] = "top"
    /\ tx[t] > 0
    /\ rd[t] = 0
    /\ TxDec(t)
    /\ IF transactions = 1
       THEN Goto(t, "qc_flags") /\ call' = [call EXCEPT ![t] = "txEnd"]
       ELSE UNCHANGED <<pc, call>>
    /\ UNCHANGED <<gate, owner, locks, stLock, work, seen, role>>

\* radeon_rs4xx_queue_parked_publish, called by the last transaction to end, by
\* a latch and by the worker.  It reads the request, then the transactions.
QueueCheckReturns(a) ==
    IF call[a] \in {"tx", "txWait"}
    THEN Refuse(a, TxErrno(a))
    ELSE Finish(a)

QueueFlags(a) ==
    /\ pc[a] = "qc_flags"
    /\ IF initialized /\ pending /\ ~running
       THEN Goto(a, "qc_txns") /\ UNCHANGED <<call, seen>>
       ELSE QueueCheckReturns(a)
    /\ UNCHANGED <<shared, role>>

\* queue_work is refused by a disabled work item.
QueueTransactions(a) ==
    /\ pc[a] = "qc_txns"
    /\ queued' = (queued \/ (transactions = 0 /\ ~disabled))
    /\ QueueCheckReturns(a)
    /\ UNCHANGED <<hardware, asleep, pending, running, initialized, disabled,
                   contained, role>>

------------------------------------------------------------------------------
\* Transitions: radeon_rs4xx_hardware_transition_begin, _shutdown_begin and
\* _transition_start_locked.

Expected(c) == IF c = "resume" THEN "SUSPENDED" ELSE "RUNNING"

Closed(c) ==
    CASE c = "reset" -> "RESETTING"
      [] c = "suspend" -> "SUSPENDING"
      [] c = "resume" -> "RESUMING"
      [] c = "shutdown" -> "SHUTTING_DOWN"

\* Unload runs once: rs4xx_unload_lock and rs4xx_unload_completed.
Unloads == \/ state = "SHUTDOWN"
           \/ \E u \in Task : "shutdown" \in {call[u], role[u]} \/ call[u] = "unload"

TransitionBegin(t, c) ==
    /\ Begins(t, c)
    /\ c \in Lifecycle
    /\ Idle(t)
    /\ c = "shutdown" => ~Unloads
    /\ Goto(t, "tr_lock")
    /\ UNCHANGED <<shared, seen, role>>

TransitionLock(t) ==
    /\ Step(t, "tr_lock", IF call[t] = "shutdown" THEN "tr_close" ELSE "tr_check")
    /\ trLock = NoTask
    /\ trLock' = t
    /\ UNCHANGED <<gate, counts, owner, pubLock, stLock, asleep, work, local>>

TransitionCheck(t) ==
    /\ Step(t, "tr_check", IF parked \/ state # Expected(call[t])
                           THEN "tr_unlock" ELSE "tr_close")
    /\ UNCHANGED <<shared, local>>

TransitionClose(t) ==
    /\ Step(t, "tr_close", "tr_drainTx")
    /\ closing' = TRUE
    /\ UNCHANGED <<state, parked, counts, owner, locks, stLock, asleep, work,
                   local>>

TransitionDrainTx(t) ==
    /\ pc[t] = "tr_drainTx"
    /\ WaitEvent(t, transactions = 0, "tr_parked")
    /\ UNCHANGED <<hardware, work, local>>

TransitionParked(t) ==
    /\ Step(t, "tr_parked", IF call[t] # "shutdown" /\ parked
                            THEN "tr_refuse" ELSE "tr_own")
    /\ UNCHANGED <<shared, local>>

\* radeon_rs4xx_publish_parked_hardware_state_locked
PublishParked ==
    state' = IF state \in {"PARKED", "SHUTDOWN"} THEN state ELSE "PARKED"

TransitionRefuse(t) ==
    /\ Step(t, "tr_refuse", "tr_drainRefused")
    /\ stLock = NoTask
    /\ PublishParked
    /\ WakeAll
    /\ UNCHANGED <<parked, closing, counts, owner, locks, stLock, work, local>>

TransitionDrainRefused(t) ==
    /\ pc[t] = "tr_drainRefused"
    /\ WaitEvent(t, readers = 0, "tr_unlock")
    /\ UNCHANGED <<hardware, work, local>>

TransitionOwn(t) ==
    /\ Step(t, "tr_own", "tr_publish")
    /\ owner' = t
    /\ UNCHANGED <<gate, counts, locks, stLock, asleep, work, local>>

\* A terminal shutdown closes whatever the state is; any other transition only
\* the state it expects.
TransitionPublish(t) ==
    /\ pc[t] = "tr_publish"
    /\ stLock = NoTask
    /\ IF call[t] = "shutdown" \/ state = Expected(call[t])
       THEN state' = Closed(call[t]) /\ Goto(t, "tr_drainRd") /\ WakeAll
       ELSE UNCHANGED <<state, asleep>> /\ Goto(t, "tr_disown")
    /\ UNCHANGED <<parked, closing, counts, owner, locks, stLock, work, local>>

TransitionDrainRd(t) ==
    /\ pc[t] = "tr_drainRd"
    /\ WaitEvent(t, readers = 0, "tr_confirm")
    /\ UNCHANGED <<hardware, work, local>>

\* The call returns 0 and its caller owns the hardware.
TransitionConfirm(t) ==
    /\ pc[t] = "tr_confirm"
    /\ IF call[t] # "shutdown" /\ (parked \/ state = "PARKED")
       THEN Goto(t, "tr_withdraw") /\ UNCHANGED <<local>>
       ELSE Finish(t) /\ role' = [role EXCEPT ![t] = call[t]]
    /\ UNCHANGED <<shared>>

TransitionWithdraw(t) ==
    /\ Step(t, "tr_withdraw", "tr_disown")
    /\ stLock = NoTask
    /\ PublishParked
    /\ UNCHANGED <<parked, closing, counts, owner, locks, stLock, asleep, work,
                   local>>

\* Mutant: the refused transition stays the owner.
TransitionStaysOwner(t) ==
    /\ Step(t, "tr_disown", "tr_unlock")
    /\ WakeAll
    /\ UNCHANGED <<hardware, work, local>>

TransitionDisown(t) ==
    /\ Step(t, "tr_disown", "tr_unlock")
    /\ owner' = NoTask
    /\ WakeAll
    /\ UNCHANGED <<gate, counts, locks, stLock, work, local>>

TransitionUnlock(t) ==
    /\ pc[t] = "tr_unlock"
    /\ trLock' = NoTask
    /\ Finish(t)
    /\ UNCHANGED <<gate, counts, owner, pubLock, stLock, asleep, work, role>>

------------------------------------------------------------------------------
\* radeon_rs4xx_hardware_transition_end.  seen[t] holds its final_state argument,
\* then its published_state.

\* What the suspend, resume, reset and unload paths pass as final state.
Finals(c) ==
    CASE c = "reset" -> {"RUNNING"}
      [] c = "suspend" -> {"SUSPENDED", "RUNNING"}
      [] c = "resume" -> {"RUNNING", "SUSPENDED"}
      [] c = "shutdown" -> {"SHUTDOWN"}

TransitionEnd(t, final) ==
    /\ pc[t] = "top"
    /\ role[t] \in Lifecycle
    /\ tx[t] = 0 /\ rd[t] = 0
    /\ \/ final \in Finals(role[t])
       \/ final = "PARKED" /\ parked /\ role[t] # "shutdown"
    /\ seen' = [seen EXCEPT ![t] = final]
    /\ call' = [call EXCEPT ![t] = IF role[t] = "shutdown" THEN "unload" ELSE "end"]
    /\ Goto(t, "te_drain")
    /\ UNCHANGED <<shared, role>>

EndDrain(t) ==
    /\ pc[t] = "te_drain"
    /\ WaitEvent(t, transactions = 0 /\ readers = 0, "te_disown")
    /\ UNCHANGED <<hardware, work, local>>

EndDisown(t) ==
    /\ Step(t, "te_disown", "te_state")
    /\ owner' = NoTask
    /\ UNCHANGED <<gate, counts, locks, stLock, asleep, work, local>>

\* Mutant: the final state is published over a latch that came first.
PublishedStateBlind(final) == final

PublishedState(final) ==
    IF final # "SHUTDOWN" /\ (state = "PARKED" \/ parked) THEN "PARKED" ELSE final

EndState(t) ==
    /\ Step(t, "te_state", "te_closing")
    /\ stLock = NoTask
    /\ stLock' = t
    /\ state' = PublishedState(seen[t])
    /\ seen' = [seen EXCEPT ![t] = PublishedState(seen[t])]
    /\ role' = [role EXCEPT ![t] = "none"]
    /\ UNCHANGED <<parked, closing, counts, owner, locks, asleep, work, call>>

\* Mutant: the end of a transition wakes nobody.
EndClosingSilent(t) ==
    /\ Step(t, "te_closing", "te_unlock")
    /\ closing' = CASE seen[t] = "RUNNING" -> FALSE
                    [] seen[t] = "PARKED" -> TRUE
                    [] OTHER -> closing
    /\ stLock' = NoTask
    /\ UNCHANGED <<state, parked, counts, owner, locks, asleep, work, local>>

EndClosing(t) ==
    /\ Step(t, "te_closing", "te_unlock")
    /\ closing' = CASE seen[t] = "RUNNING" -> FALSE
                    [] seen[t] = "PARKED" -> TRUE
                    [] OTHER -> closing
    /\ stLock' = NoTask
    /\ WakeAll
    /\ UNCHANGED <<state, parked, counts, owner, locks, work, local>>

\* Mutant: unload quiesces the publisher under the transition lock.
EndUnlockLate(t) ==
    /\ pc[t] = "te_unlock"
    /\ IF call[t] = "unload"
       THEN Goto(t, "tq_disable") /\ UNCHANGED <<trLock, call, seen>>
       ELSE Finish(t) /\ trLock' = NoTask
    /\ UNCHANGED <<gate, counts, owner, pubLock, stLock, asleep, work, role>>

\* Unload goes on to radeon_rs4xx_terminal_quiesce when it retains the device.
EndUnlock(t) ==
    /\ pc[t] = "te_unlock"
    /\ trLock' = NoTask
    /\ \/ Finish(t)
       \/ /\ call[t] = "unload"
          /\ Goto(t, "tq_disable")
          /\ UNCHANGED <<call, seen>>
    /\ UNCHANGED <<gate, counts, owner, pubLock, stLock, asleep, work, role>>

------------------------------------------------------------------------------
\* The terminal latch: radeon_rs4xx_latch_parked_state ("park"),
\* _latch_parked_publication ("latch") and _publish_parked_state ("publish").

Latch(t, c) ==
    /\ Begins(t, c)
    /\ \/ c = "latch"
       \/ c = "park" /\ role[t] # "none"
       \/ c = "publish" /\ tx[t] = 0 /\ rd[t] = 0
    /\ Goto(t, "la_parked")
    /\ UNCHANGED <<shared, seen, role>>

LatchParked(a) ==
    /\ Step(a, "la_parked", "la_closing")
    /\ stLock = NoTask
    /\ stLock' = a
    /\ parked' = TRUE
    /\ UNCHANGED <<state, closing, counts, owner, locks, asleep, work, local>>

LatchClosing(a) ==
    /\ Step(a, "la_closing", "la_state")
    /\ closing' = TRUE
    /\ UNCHANGED <<state, parked, counts, owner, locks, stLock, asleep, work,
                   local>>

LatchState(a) ==
    /\ pc[a] = "la_state"
    /\ PublishParked
    /\ stLock' = NoTask
    /\ WakeAll
    /\ CASE call[a] = "park"  -> Finish(a)
         [] call[a] = "latch" -> Goto(a, "la_pending") /\ UNCHANGED <<call,
                                                                      seen>>
         [] OTHER             -> Goto(a, "pp_lock") /\ UNCHANGED <<call, seen>>
    /\ UNCHANGED <<parked, closing, counts, owner, locks, work, role>>

LatchPending(a) ==
    /\ Step(a, "la_pending", "qc_flags")
    /\ pending' = TRUE
    /\ UNCHANGED <<hardware, asleep, running, initialized, queued, disabled,
                   contained, local>>

\* A transition owner publishes under the lock it already holds.
PublishLock(a) ==
    /\ Step(a, "pp_lock", "pp_pubLock")
    /\ \/ owner = a /\ UNCHANGED trLock
       \/ owner # a /\ trLock = NoTask /\ trLock' = a
    /\ UNCHANGED <<gate, counts, owner, pubLock, stLock, asleep, work, local>>

PublishPubLock(a) ==
    /\ Step(a, "pp_pubLock", "pp_drain")
    /\ pubLock = NoTask
    /\ pubLock' = a
    /\ UNCHANGED <<gate, counts, owner, trLock, stLock, asleep, work, local>>

\* Mutant: only the transactions are drained.
PublishDrainTx(a) ==
    /\ pc[a] = "pp_drain"
    /\ WaitEvent(a, transactions = 0, "pp_contain")
    /\ UNCHANGED <<hardware, work, local>>

PublishDrain(a) ==
    /\ pc[a] = "pp_drain"
    /\ WaitEvent(a, transactions = 0 /\ readers = 0, "pp_contain")
    /\ UNCHANGED <<hardware, work, local>>

\* Page flips quiesce, interrupts go, fences end with an error: no hardware.
PublishContain(a) ==
    /\ Step(a, "pp_contain", "pp_unlock")
    /\ contained' = TRUE
    /\ UNCHANGED <<hardware, asleep, pending, running, initialized, queued,
                   disabled, local>>

PublishUnlock(a) ==
    /\ pc[a] = "pp_unlock"
    /\ pubLock' = NoTask
    /\ trLock' = IF owner = a THEN trLock ELSE NoTask
    /\ IF call[a] = "work"
       THEN Goto(a, "wk_done") /\ UNCHANGED <<call, seen>>
       ELSE Finish(a)
    /\ UNCHANGED <<gate, counts, owner, stLock, asleep, work, role>>

------------------------------------------------------------------------------
\* radeon_rs4xx_parked_publish_work: the workqueue takes the item off the queue
\* before it runs, so it can be queued again meanwhile.

WorkerStart ==
    /\ Step(Worker, "top", "wk_init")
    /\ queued
    /\ queued' = FALSE
    /\ call' = [call EXCEPT ![Worker] = "work"]
    /\ UNCHANGED <<hardware, asleep, pending, running, initialized, disabled,
                   contained, seen, role>>

WorkerInit ==
    /\ pc[Worker] = "wk_init"
    /\ IF initialized
       THEN /\ running' = TRUE
            /\ Goto(Worker, "wk_clear")
            /\ UNCHANGED <<pending, call, seen>>
       ELSE /\ pending' = FALSE
            /\ Finish(Worker)
            /\ UNCHANGED running
    /\ UNCHANGED <<hardware, asleep, initialized, queued, disabled, contained,
                   role>>

WorkerClear ==
    /\ Step(Worker, "wk_clear", "la_parked")
    /\ pending' = FALSE
    /\ UNCHANGED <<hardware, asleep, running, initialized, queued, disabled,
                   contained, local>>

\* Mutant: the worker does not look for a request made while it ran.
WorkerDoneNoRequeue ==
    /\ pc[Worker] = "wk_done"
    /\ running' = FALSE
    /\ Finish(Worker)
    /\ UNCHANGED <<hardware, asleep, pending, initialized, queued, disabled,
                   contained, role>>

WorkerDone ==
    /\ Step(Worker, "wk_done", "qc_flags")
    /\ running' = FALSE
    /\ UNCHANGED <<hardware, asleep, pending, initialized, queued, disabled,
                   contained, local>>

------------------------------------------------------------------------------
\* radeon_rs4xx_terminal_quiesce, after the unload path has ended its shutdown.

QuiesceDisable(t) ==
    /\ Step(t, "tq_disable", "tq_sync")
    /\ disabled' = TRUE
    /\ queued' = FALSE
    /\ UNCHANGED <<hardware, asleep, pending, running, initialized, contained,
                   local>>

\* disable_work_sync returns once the worker is idle; the helpers that follow
\* run the containment again.
QuiesceSync(t) ==
    /\ pc[t] = "tq_sync"
    /\ pc[Worker] = "top"
    /\ initialized' = FALSE
    /\ pending' = FALSE
    /\ running' = FALSE
    /\ contained' = TRUE
    /\ Finish(t)
    /\ UNCHANGED <<hardware, asleep, queued, disabled, role>>

------------------------------------------------------------------------------
\* The steps of an actor: those that start a call, those that give back what it
\* holds, and those that continue the call it is in.

Start(t) ==
    \E c \in Calls : \/ AccessBegin(t, c)
                     \/ TransactionBegin(t, c)
                     \/ TransitionBegin(t, c)
                     \/ Latch(t, c)

AccessStep(t) ==
    \/ ReaderCheck(t) \/ ReaderInc(t) \/ ReaderReread(t) \/ ReaderValidate(t)
    \/ ReaderUndo(t) \/ DispositionWait(t)

TransactionStep(t) ==
    \/ TxCheck(t) \/ TxClosing(t) \/ TxInc(t) \/ TxReread(t) \/ TxValidate(t)
    \/ TxUndo(t)

TransitionStep(t) ==
    \/ TransitionLock(t) \/ TransitionCheck(t) \/ TransitionClose(t)
    \/ TransitionDrainTx(t) \/ TransitionParked(t) \/ TransitionRefuse(t)
    \/ TransitionDrainRefused(t) \/ TransitionOwn(t) \/ TransitionPublish(t)
    \/ TransitionDrainRd(t) \/ TransitionConfirm(t) \/ TransitionWithdraw(t)
    \/ TransitionDisown(t) \/ TransitionUnlock(t)

EndStep(t) ==
    \/ EndDrain(t) \/ EndDisown(t) \/ EndState(t) \/ EndClosing(t) \/ EndUnlock(t)
    \/ QuiesceDisable(t) \/ QuiesceSync(t)

PublishStep(a) ==
    \/ LatchParked(a) \/ LatchClosing(a) \/ LatchState(a) \/ LatchPending(a)
    \/ PublishLock(a) \/ PublishPubLock(a) \/ PublishDrain(a)
    \/ PublishContain(a) \/ PublishUnlock(a)
    \/ QueueFlags(a) \/ QueueTransactions(a)

WorkerStep == WorkerStart \/ WorkerInit \/ WorkerClear \/ WorkerDone

Continue(t) ==
    AccessStep(t) \/ TransactionStep(t) \/ TransitionStep(t) \/ EndStep(t)

EndTransition(t) == \E final \in HwState : TransitionEnd(t, final)

Next ==
    \/ \E t \in Task : \/ Start(t) \/ Continue(t)
                       \/ AccessEnd(t) \/ TransactionEnd(t) \/ EndTransition(t)
    \/ \E a \in Actor : PublishStep(a)
    \/ WorkerStep

Spec == Init /\ [][Next]_vars

\* A call that has begun runs on and the kworker runs.  The kernel's mutex hands
\* off to a waiter and its spinlock queues, and driver code gives back what it
\* was admitted for, however many calls it makes meanwhile.
TakesLock(a) ==
    \/ PublishLock(a) \/ PublishPubLock(a) \/ LatchParked(a)
    \/ /\ a \in Task
       /\ \/ TransitionLock(a) \/ TransitionRefuse(a) \/ TransitionPublish(a)
          \/ TransitionWithdraw(a) \/ EndState(a)

Fairness ==
    /\ \A t \in Task : /\ WF_vars(Continue(t))
                       /\ SF_vars(AccessEnd(t))
                       /\ SF_vars(TransactionEnd(t))
                       /\ SF_vars(EndTransition(t))
    /\ \A a \in Actor : WF_vars(PublishStep(a)) /\ SF_vars(TakesLock(a))
    /\ WF_vars(WorkerStep)

FairSpec == Spec /\ Fairness

------------------------------------------------------------------------------
\* What the protocol must guarantee.

\* The accesses of actor a that were admitted: what it has counted, except an
\* increment that is still to be revalidated or taken back.
AdmittedTx(a) ==
    tx[a] > (IF pc[a] \in {"tx_state", "tx_valid", "tx_undo"} THEN 1 ELSE 0)
AdmittedRd(a) ==
    rd[a] > (IF pc[a] \in {"rd_state", "rd_valid", "rd_undo"} THEN 1 ELSE 0)
Admitted(a) == AdmittedTx(a) \/ AdmittedRd(a)

\* Once transition_begin has returned 0, and until transition_end publishes the
\* final state, no other actor is admitted to the hardware: the drains of
\* transition_start_locked miss nobody, whatever a late increment had read.
ExclusiveOwner ==
    \A t \in Task : role[t] # "none" =>
        \A u \in Actor \ {t} : role[u] = "none" /\ ~Admitted(u)

\* No access is admitted while the ASIC is powered down or torn down: the
\* SUSPENDED and SHUTDOWN states are published only over a drained device.
OffMeansIdle == state \in {"SUSPENDED", "SHUTDOWN"} => \A a \in Actor : ~Admitted(a)

\* The containment of a parked device (interrupts freed, fences ended) starts
\* over a drained device, and nobody is admitted to it ever after.
ContainedMeansIdle ==
    contained \/ (\E a \in Actor : pc[a] = "pp_contain")
        => \A a \in Actor : ~Admitted(a)

\* Neither a powered-off nor a contained device is in anybody's hands.
ClosedMeansIdle == OffMeansIdle /\ ContainedMeansIdle

\* A latch and a transition_end that race for rs4xx_hardware_state_lock leave a
\* parked device closed: state and closing flag agree with gpu_parked whenever
\* the lock is free, except under the shutdown that follows.
ParkedStaysClosed ==
    parked /\ stLock = NoTask =>
        closing /\ state \in {"PARKED", "SHUTTING_DOWN", "SHUTDOWN"}

\* A publication request is never lost between the latch, the last transaction
\* and the worker that clears it: a request with nobody in the queue check, no
\* transaction counted and no worker running has put the work on its queue.
RequestIsQueued ==
    pending /\ initialized /\ ~disabled /\ ~running /\ transactions = 0
        /\ (\A a \in Actor : pc[a] \notin QcPc \cup {"wk_init"})
        => queued

\* After terminal quiescence the publisher is gone for good: not running and not
\* queued, whatever latch was on its way to queue_work.
QuiescedMeansNoWorker == ~initialized => pc[Worker] = "top" /\ ~queued

\* The publisher serves every request it is owed and none after its end.
PublisherIsKept == RequestIsQueued /\ QuiescedMeansNoWorker

\* No sleeper on rs4xx_hardware_wait misses the wake-up of its condition: while
\* the condition holds, the step that made it true is still to call wake_up_all.
NoMissedWakeup ==
    \A a \in asleep :
        CASE pc[a] = "wait" -> Disposition => stLock # NoTask
          [] pc[a] = "tr_drainTx" -> transactions # 0
          [] pc[a] \in {"tr_drainRd", "tr_drainRefused"} -> readers # 0
          [] pc[a] \in {"te_drain", "pp_drain"} -> transactions # 0 \/ readers # 0
          [] OTHER -> FALSE

\* A call that a closed state or the closing flag turns away returns an errno
\* that says so: RUNNING refuses nobody.
RefusalNamesClosedState ==
    \A t \in Task : pc[t] = "rd_undo" => Errno(seen[t]) # "EALREADY"

\* A drain waits only for accesses that will end: no actor it waits for is
\* itself waiting for the disposition that the drain is to bring about.
DrainWaitsForNoWaiter ==
    \A t, u \in Task :
        pc[t] = "tr_drainTx" /\ t \in asleep /\ tx[u] > 0 => pc[u] # "wait" \/ u \notin asleep

\* A transition that starts to drain gets its answer, against any number of
\* later arrivals: they turn away before they count.
TransitionAnswers ==
    \A t \in Task : (pc[t] = "tr_close") ~> (pc[t] = "top")

\* A publication request is eventually carried out.
RequestIsServed == pending ~> contained

\* The unload that retains a device gets past disable_work_sync: the worker it
\* waits for never waits for a lock or a drain that the unload holds up.
UnloadFinishes == \A t \in Task : (pc[t] = "tq_disable") ~> (pc[t] = "top")

\* Admission implements the lease: a transition owns the hardware from the
\* return of transition_begin to the publication in transition_end.
Lease == INSTANCE HardwareLease
    WITH Nobody <- NoTask,
         holders <- {a \in Actor : Admitted(a)},
         exclusive <- IF \E t \in Task : role[t] # "none"
                      THEN CHOOSE t \in Task : role[t] # "none" ELSE NoTask,
         dead <- parked

ImplementsLease == Lease!LeaseSpec
==============================================================================
