------------------------------ MODULE FenceWait ------------------------------
(***************************************************************************)
(* Who is told that a fence has finished, on an RS400/RS480: the callbacks *)
(* that dma_fence waiters leave on the fence queue, the waiters that poll  *)
(* a sequence, the reference each of them holds on the software interrupt, *)
(* the interrupt handler and the lockup work that publish the sequence and *)
(* wake the queue, and the transitions and the parking that close the      *)
(* hardware under all of them.  A parked device stands for a clean unload  *)
(* too, whose waits end with -ESHUTDOWN instead of -EIO.                   *)
(*                                                                         *)
(* One ring, whose fences 1 .. N are emitted.  How a sequence is rebuilt   *)
(* from the hardware's half of it is in FenceSeq, how hardware accesses    *)
(* are counted and drained in HardwareAdmission.                           *)
(***************************************************************************)
EXTENDS Integers, FiniteSets

CONSTANTS
  Sleeper,    \* the tasks that wait for a callback
  Poller,     \* the tasks that wait for a sequence
  N,          \* bound: the fences emitted
  MaxLockup,  \* bound: lockup verdicts
  MaxMove     \* bound: transitions begun

Waiter == Sleeper \cup Poller
NoTask == "none"
Publisher == "publisher"

ASSUME WaitAssumption ==
  /\ IsFiniteSet(Waiter) /\ {NoTask, Publisher} \cap Waiter = {}
  /\ N \in Nat \ {0} /\ MaxLockup \in Nat /\ MaxMove \in Nat

Fence == 1 .. N

VARIABLES
  sync_seq,     \* the last fence emitted
  done,         \* the last fence the GPU has finished
  last_seq,     \* the last fence the driver has published
  hw,           \* rs4xx_hardware_state, closing flag and gpu_parked
  kind,         \* the transition going on
  stage,        \* where the owner of a transition or the publisher stands
  armed,        \* the ring's bit in the interrupt register
  intr,         \* an interrupt of the ring is raised
  ring_int,     \* rdev->irq.ring_int
  delayed_irq,
  work,         \* the lockup work is queued
  needs_reset,
  sig,          \* the fence: unsignalled, signalled, or signalled with an error
  enabled,      \* DMA_FENCE_FLAG_ENABLE_SIGNAL_BIT
  held,         \* fence->irq_ref_held
  entry,        \* fence->fence_wake is on the fence queue
  lock,         \* who holds fence_queue.lock over several steps
  pc, target,   \* of each waiter: where it stands, the fence it waits for, always
  res,          \* of each waiter: what its hardware access or its wait returned
  irq, worker,  \* where the interrupt handler and the lockup work stand
  lockups, moves

gpu == <<done, armed, intr>>
refs == <<ring_int, delayed_irq>>
fences == <<sig, enabled, held, entry>>
device == <<sync_seq, hw, kind, stage, moves>>
waiters == <<pc, target, res>>
service == <<irq, worker, lockups>>
vars == <<sync_seq, done, last_seq, hw, kind, stage, armed, intr, ring_int, delayed_irq, work,
          needs_reset, sig, enabled, held, entry, lock, pc, target, res, irq, worker,
          lockups, moves>>

Stage == {"none", "publish", "own", "drain", "drainWake", "quiet", "quietWake",
          "test", "testWake", "latch", "parked", "clear", "force", "cancel", "dead"}

TypeOK ==
  /\ sync_seq \in Fence /\ done \in 0 .. sync_seq /\ last_seq \in 0 .. done
  /\ kind \in {"none", "reset", "suspend"}
  /\ hw \in {"running", "closing", "shut", "parked"} /\ stage \in Stage
  /\ armed \in BOOLEAN /\ intr \in BOOLEAN /\ delayed_irq \in BOOLEAN
  /\ work \in BOOLEAN /\ needs_reset \in BOOLEAN
  /\ ring_int \in 0 .. N + Cardinality(Waiter)
  /\ sig \in [Fence -> {"no", "ok", "error"}]
  /\ enabled \in [Fence -> BOOLEAN] /\ held \in [Fence -> BOOLEAN]
  /\ entry \in [Fence -> BOOLEAN]
  /\ lock \in Waiter \cup {NoTask, Publisher}
  /\ pc \in [Waiter -> {"idle", "add", "get", "getDelayed", "mark", "poll", "queue",
                        "check", "sleep", "leave", "seqTest", "seqWake", "seqGet",
                        "seqInc", "seqLoop", "seqLoopWake", "seqPut", "seqSignal"}]
  /\ target \in [Waiter -> Fence] /\ res \in [Waiter -> {"ok", "busy", "dead", "late"}]
  /\ irq \in {"idle", "wake"} /\ worker \in {"idle", "unmask", "poll", "wake"}
  /\ lockups \in 0 .. MaxLockup /\ moves \in 0 .. MaxMove

-----------------------------------------------------------------------------
\* radeon_rs4xx_hardware_access_begin: a closing device still admits readers
Admit == hw \in {"running", "closing"}
Access == IF Admit THEN "ok" ELSE IF hw = "parked" THEN "dead" ELSE "busy"

\* radeon_fence_rs4xx_terminal_error and radeon_fence_rs4xx_state_error
Terminal == hw = "parked"
StateError == hw # "running"

Free == lock = NoTask

Init ==
  /\ sync_seq = 1 /\ done = 0 /\ last_seq = 0
  /\ hw = "running" /\ kind = "none" /\ stage = "none"
  /\ armed = FALSE /\ intr = FALSE /\ ring_int = 0 /\ delayed_irq = FALSE
  /\ work = TRUE /\ needs_reset = FALSE
  /\ sig = [f \in Fence |-> "no"] /\ enabled = [f \in Fence |-> FALSE]
  /\ held = [f \in Fence |-> FALSE] /\ entry = [f \in Fence |-> FALSE]
  /\ lock = NoTask /\ pc = [w \in Waiter |-> "idle"]
  /\ target \in [Waiter -> Fence] /\ res = [w \in Waiter |-> "ok"]
  /\ irq = "idle" /\ worker = "idle" /\ lockups = 0 /\ moves = 0

Goto(w, l) == pc' = [pc EXCEPT ![w] = l]

\* radeon_fence_activity, whose progress wakes the queue
Progress == Admit /\ done > last_seq
Activity == IF Admit THEN last_seq' = done /\ work' = (work \/ done < sync_seq)
            ELSE UNCHANGED <<last_seq, work>>

\* radeon_irq_kms_sw_irq_get, given what its hardware access returned
IrqGet(access) ==
  /\ ring_int' = ring_int + 1
  /\ armed' = (armed \/ (ring_int = 0 /\ access = "ok" /\ ~Terminal))
  /\ delayed_irq' = (delayed_irq \/ (ring_int = 0 /\ access = "busy"))

\* n references returned by radeon_irq_kms_sw_irq_put
IrqPut(n, access) ==
  /\ ring_int' = ring_int - n
  /\ LET last == n > 0 /\ ring_int = n
         allowed == access = "ok" /\ ~Terminal
     IN /\ armed' = (armed /\ ~(last /\ allowed))
        /\ delayed_irq' = (delayed_irq /\ ~(last /\ ~allowed))

\* Mutant: the reference is returned whether or not the fence still holds it.
RemoveTwice(F) ==
  /\ held' = [f \in Fence |-> held[f] /\ f \notin F]
  /\ entry' = [f \in Fence |-> entry[f] /\ f \notin F]
  /\ IrqPut(Cardinality({f \in F : enabled[f]}), Access)

\* radeon_fence_remove_irq_wait_locked
Remove(F) ==
  LET gone == {f \in F : held[f]}
  IN /\ held' = [f \in Fence |-> held[f] /\ f \notin F]
     /\ entry' = [f \in Fence |-> entry[f] /\ f \notin gone]
     /\ IrqPut(Cardinality(gone), Access)

Signal(F, error) ==
  sig' = [f \in Fence |-> IF f \in F /\ sig[f] = "no" THEN error ELSE sig[f]]

Outcome == IF Terminal THEN "error" ELSE "ok"

\* Mutant: a terminal device signals its fences without an error.
WakeAllSilent ==
  LET told == {f \in Fence : entry[f] /\ (Terminal \/ f <= last_seq)}
  IN Signal(told, "ok") /\ Remove(told)

\* wake_up_all(&rdev->fence_queue): radeon_fence_check_signaled of every entry
WakeAll ==
  LET told == {f \in Fence : entry[f] /\ (Terminal \/ f <= last_seq)}
  IN Signal(told, Outcome) /\ Remove(told)

-----------------------------------------------------------------------------
(* The GPU, the interrupt handler and the lockup work *)

\* radeon_fence_emit, of a submission that no transition has turned away
Emit ==
  /\ hw = "running" /\ sync_seq < N
  /\ sync_seq' = sync_seq + 1 /\ work' = TRUE
  /\ UNCHANGED <<gpu, last_seq, refs, needs_reset, fences, lock, hw, kind, stage, moves,
                 waiters, service>>

Complete ==
  /\ done < sync_seq /\ stage \notin {"quiet", "quietWake"}
  /\ done' = done + 1
  /\ intr' = (intr \/ armed)
  /\ UNCHANGED <<last_seq, armed, refs, work, needs_reset, fences, lock, device, waiters,
                 service>>

\* radeon_driver_irq_handler_kms: refused, the interrupt is lost
Handle ==
  /\ intr /\ irq = "idle"
  /\ intr' = FALSE
  /\ irq' = IF Progress THEN "wake" ELSE "idle"
  /\ Activity
  /\ UNCHANGED <<done, armed, refs, needs_reset, fences, lock, device, waiters, worker,
                 lockups>>

HandleWake ==
  /\ irq = "wake" /\ Free
  /\ WakeAll /\ irq' = "idle"
  /\ UNCHANGED <<done, last_seq, intr, work, needs_reset, enabled, lock, device, waiters,
                 worker, lockups>>

\* Mutant: a refused worker forgets the interrupt it owes.
WorkStartsOnce ==
  /\ work /\ worker = "idle"
  /\ work' = FALSE
  /\ worker' = CASE Admit -> "unmask" [] Terminal -> "wake" [] OTHER -> "idle"
  /\ delayed_irq' = (delayed_irq /\ Admit)
  /\ UNCHANGED <<gpu, last_seq, ring_int, needs_reset, fences, lock, device, waiters, irq,
                 lockups>>

\* radeon_fence_check_lockup: refused, it comes again if an interrupt is owed
WorkStart ==
  /\ work /\ worker = "idle"
  /\ work' = (hw = "shut" /\ delayed_irq)
  /\ worker' = CASE Admit -> "unmask" [] Terminal -> "wake" [] OTHER -> "idle"
  /\ delayed_irq' = (delayed_irq /\ ~Terminal)
  /\ UNCHANGED <<gpu, last_seq, ring_int, needs_reset, fences, lock, device, waiters, irq,
                 lockups>>

\* the delayed interrupt is written to the register
WorkUnmask ==
  /\ worker = "unmask" /\ worker' = "poll"
  /\ LET owed == delayed_irq /\ ~Terminal
     IN /\ armed' = IF owed THEN ring_int > 0 ELSE armed
        /\ delayed_irq' = (delayed_irq /\ ~owed)
  /\ UNCHANGED <<done, last_seq, intr, ring_int, work, needs_reset, fences, lock, device,
                 waiters, irq, lockups>>

WorkPoll ==
  /\ worker = "poll"
  /\ Activity
  /\ \/ worker' = (IF Progress THEN "wake" ELSE "idle") /\ UNCHANGED <<needs_reset, lockups>>
     \/ /\ ~Progress /\ ~Terminal /\ done < sync_seq /\ lockups < MaxLockup
        /\ lockups' = lockups + 1 /\ needs_reset' = TRUE /\ worker' = "wake"
  /\ UNCHANGED <<gpu, refs, fences, lock, device, waiters, irq>>

WorkWake ==
  /\ worker = "wake" /\ Free
  /\ WakeAll /\ worker' = "idle"
  /\ UNCHANGED <<done, last_seq, intr, work, needs_reset, enabled, lock, device, waiters,
                 irq, lockups>>

-----------------------------------------------------------------------------
(* radeon_fence_default_wait: dma_fence_add_callback, radeon_fence_enable_signaling *)

\* dma_fence_wait_timeout, which returns at once for a signalled fence
Wait(w) ==
  /\ pc[w] = "idle" /\ target[w] <= sync_seq /\ sig[target[w]] = "no"
  /\ Goto(w, "add")
  /\ UNCHANGED <<gpu, last_seq, refs, work, needs_reset, fences, lock, device, target, res,
                 service>>

\* the first callback of a fence enables its signalling; the lock is kept
AddCallback(w) ==
  LET f == target[w] IN
  /\ pc[w] = "add" /\ Free
  /\ enabled' = [enabled EXCEPT ![f] = TRUE]
  /\ IF sig[f] # "no" \/ enabled[f]
     THEN Goto(w, IF sig[f] = "no" THEN "check" ELSE "idle") /\ UNCHANGED <<sig, lock>>
     ELSE IF Terminal \/ f <= last_seq
     THEN Signal({f}, Outcome) /\ Goto(w, "idle") /\ UNCHANGED lock
     ELSE Goto(w, IF Admit THEN "get" ELSE "getDelayed") /\ lock' = w /\ UNCHANGED sig
  /\ UNCHANGED <<gpu, last_seq, refs, work, needs_reset, held, entry, device, target, res,
                 service>>

Get(w) ==
  /\ pc[w] = "get" /\ Goto(w, "poll")
  /\ IrqGet(Access) /\ held' = [held EXCEPT ![target[w]] = TRUE]
  /\ UNCHANGED <<done, last_seq, intr, work, needs_reset, sig, enabled, entry, lock,
                 device, target, res, service>>

\* Mutant: the fence is not checked again once its interrupt is enabled.
PollUnchecked(w) ==
  /\ pc[w] = "poll"
  /\ Activity /\ Goto(w, "queue")
  /\ UNCHANGED <<gpu, refs, needs_reset, fences, lock, device, target, res, service>>

\* the activity wakes the queue without dropping the lock, then f is checked again
Poll(w) ==
  LET f == target[w]
      seen == IF Progress THEN done ELSE last_seq
      finished == Terminal \/ f <= seen
      told == {g \in Fence : Progress /\ entry[g] /\ g <= seen}
      over == IF finished THEN told \cup {f} ELSE told
  IN /\ pc[w] = "poll"
     /\ Activity
     /\ Signal(over, Outcome) /\ Remove(over)
     /\ IF finished THEN Goto(w, "idle") /\ lock' = NoTask ELSE Goto(w, "queue") /\ UNCHANGED lock
     /\ UNCHANGED <<done, intr, needs_reset, enabled, device, target, res, service>>

\* radeon_irq_kms_sw_irq_get_delayed, for a device that is shut or parked by now
GetDelayed(w) ==
  /\ pc[w] = "getDelayed" /\ Goto(w, "mark")
  /\ res' = [res EXCEPT ![w] = IF ring_int = 0 THEN "ok" ELSE "busy"]
  /\ ring_int' = ring_int + 1 /\ held' = [held EXCEPT ![target[w]] = TRUE]
  /\ UNCHANGED <<gpu, last_seq, delayed_irq, work, needs_reset, sig, enabled, entry, lock,
                 device, target, service>>

Mark(w) ==
  /\ pc[w] = "mark" /\ Goto(w, "queue")
  /\ delayed_irq' = (delayed_irq \/ res[w] = "ok")
  /\ work' = TRUE /\ res' = [res EXCEPT ![w] = "ok"]
  /\ UNCHANGED <<gpu, last_seq, ring_int, needs_reset, fences, lock, device, target,
                 service>>

Queue(w) ==
  LET f == target[w] IN
  /\ pc[w] = "queue" /\ lock' = NoTask
  /\ IF Terminal
     THEN Signal({f}, Outcome) /\ Remove({f}) /\ Goto(w, "idle")
     ELSE /\ entry' = [entry EXCEPT ![f] = TRUE] /\ Goto(w, "check")
          /\ UNCHANGED <<sig, held, armed, refs>>
  /\ UNCHANGED <<done, last_seq, intr, work, needs_reset, enabled, device, target, res,
                 service>>

\* the loop of the wait; a terminal device is left through Fail
Check(w) ==
  /\ pc[w] = "check"
  /\ \/ sig[target[w]] = "no" /\ ~StateError /\ ~needs_reset /\ Goto(w, "sleep")
     \/ (sig[target[w]] # "no" \/ (StateError /\ ~Terminal) \/ needs_reset) /\ Goto(w, "leave")
  /\ UNCHANGED <<gpu, last_seq, refs, work, needs_reset, fences, lock, device, target, res,
                 service>>

\* the callback of a signalled fence wakes its task
Woken(w) ==
  /\ pc[w] = "sleep" /\ sig[target[w]] # "no" /\ Goto(w, "check")
  /\ UNCHANGED <<gpu, last_seq, refs, work, needs_reset, fences, lock, device, target, res,
                 service>>

\* the timeout of the wait runs out, or a signal of the process arrives
Expire(w) ==
  /\ pc[w] = "sleep" /\ Goto(w, "leave")
  /\ UNCHANGED <<gpu, last_seq, refs, work, needs_reset, fences, lock, device, target, res,
                 service>>

\* radeon_fence_signal_terminal
Fail(w) ==
  LET f == target[w] IN
  /\ pc[w] \in {"check", "leave"} /\ Terminal /\ sig[f] = "no" /\ Free
  /\ Signal({f}, Outcome) /\ Remove({f}) /\ Goto(w, "leave")
  /\ UNCHANGED <<done, last_seq, intr, work, needs_reset, enabled, lock, device, target,
                 res, service>>

\* the end of the wait takes the fence's entry off the queue, whoever needs it
Leave(w) ==
  /\ pc[w] = "leave" /\ Free /\ ~(Terminal /\ sig[target[w]] = "no")
  /\ Remove({target[w]}) /\ Goto(w, "idle")
  /\ UNCHANGED <<done, last_seq, intr, work, needs_reset, sig, enabled, lock, device,
                 target, res, service>>

-----------------------------------------------------------------------------
(* radeon_fence_wait_timeout and radeon_fence_wait_seq_timeout *)

SeqWait(w) ==
  /\ pc[w] = "idle" /\ ~StateError /\ target[w] <= sync_seq
  /\ Goto(w, "seqTest")
  /\ UNCHANGED <<gpu, last_seq, refs, work, needs_reset, fences, lock, device, target, res,
                 service>>

\* radeon_fence_seq_signaled: a terminal device counts as signalled
Passed(f) == Terminal \/ f <= last_seq

SeqTest(w) ==
  /\ pc[w] = "seqTest"
  /\ IF Passed(target[w])
     THEN Goto(w, "seqSignal") /\ UNCHANGED <<last_seq, work>>
     ELSE Activity /\ Goto(w, IF Progress THEN "seqWake" ELSE "seqGet")
  /\ UNCHANGED <<gpu, refs, needs_reset, fences, lock, device, target, res, service>>

SeqWake(w) ==
  /\ Free /\ WakeAll
  /\ \/ pc[w] = "seqLoopWake" /\ Goto(w, "seqLoop")
     \/ pc[w] = "seqWake" /\ Goto(w, IF Passed(target[w]) THEN "seqSignal" ELSE "seqGet")
  /\ UNCHANGED <<done, last_seq, intr, work, needs_reset, enabled, lock, device, target,
                 res, service>>

SeqGet(w) ==
  /\ pc[w] = "seqGet" /\ Goto(w, "seqInc")
  /\ res' = [res EXCEPT ![w] = Access]
  /\ UNCHANGED <<gpu, last_seq, refs, work, needs_reset, fences, lock, device, target,
                 service>>

SeqInc(w) ==
  /\ pc[w] = "seqInc" /\ Goto(w, "seqLoop")
  /\ IrqGet(res[w])
  /\ work' = (work \/ delayed_irq' \/ hw \notin {"running", "closing"})
  /\ res' = [res EXCEPT ![w] = "ok"]
  /\ UNCHANGED <<done, last_seq, intr, needs_reset, fences, lock, device, target, service>>

\* the bounded sleeps, each of which ends with a poll; an error that arises before the
\* return takes the place of the result
SeqLoop(w) ==
  LET failed == StateError \/ needs_reset
      over == failed \/ Passed(target[w])
  IN /\ pc[w] = "seqLoop"
     /\ \/ over /\ Goto(w, "seqPut") /\ res' = [res EXCEPT ![w] = IF failed THEN "late" ELSE "ok"]
           /\ UNCHANGED <<last_seq, work>>
        \/ ~over /\ Goto(w, "seqPut") /\ res' = [res EXCEPT ![w] = "late"]
           /\ UNCHANGED <<last_seq, work>>
        \/ ~over /\ Progress /\ Activity /\ Goto(w, "seqLoopWake") /\ UNCHANGED res
     /\ UNCHANGED <<gpu, refs, needs_reset, fences, lock, device, target, service>>

\* radeon_irq_kms_sw_irq_put: admitted or not, then the count
SeqPut(w) ==
  /\ pc[w] = "seqPut" /\ Goto(w, IF res[w] = "ok" THEN "seqSignal" ELSE "idle")
  /\ IrqPut(1, Access) /\ res' = [res EXCEPT ![w] = "ok"]
  /\ UNCHANGED <<done, last_seq, intr, work, needs_reset, fences, lock, device, target,
                 service>>

\* radeon_fence_signaled, whose caller polls; the error is read before the lock is taken
Signaled(f) ==
  /\ sig[f] = "no" /\ Passed(f) /\ Free
  /\ \E answer \in {Outcome} \cup (IF f <= last_seq THEN {"ok"} ELSE {}) : Signal({f}, answer)
  /\ Remove({f})
  /\ UNCHANGED <<done, last_seq, intr, work, needs_reset, enabled, lock, device, waiters,
                 service>>

\* a wait that returns time left signals the fence
SeqSignal(w) ==
  /\ pc[w] = "seqSignal" /\ Free
  /\ Signal({target[w]}, "ok") /\ Goto(w, "idle")
  /\ UNCHANGED <<gpu, last_seq, refs, work, needs_reset, enabled, held, entry, lock, device,
                 target, res, service>>

-----------------------------------------------------------------------------
(* The owner of a transition: radeon_gpu_reset_internal, radeon_suspend_kms and
   radeon_resume_kms; the publisher of a parked device *)

Stand(from, to) == stage = from /\ stage' = to

\* nobody is inside an admitted access
Drained ==
  /\ irq = "idle" /\ worker = "idle"
  /\ \A w \in Waiter : pc[w] \notin {"get", "poll"} /\ ~(pc[w] = "seqInc" /\ res[w] = "ok")

Close ==
  /\ hw = "running" /\ moves < MaxMove /\ Stand("none", "publish")
  /\ hw' = "closing" /\ moves' = moves + 1
  /\ UNCHANGED <<sync_seq, kind, gpu, last_seq, refs, work, needs_reset, fences, lock, waiters,
                 service>>

PublishShut ==
  /\ Stand("publish", "own") /\ hw' = "shut"
  /\ UNCHANGED <<sync_seq, kind, moves, gpu, last_seq, refs, work, needs_reset, fences,
                 lock, waiters, service>>

\* a reset stops the GPU and its interrupt at once, a suspend drains the rings
Own ==
  /\ Drained /\ kind' \in {"reset", "suspend"}
  /\ Stand("own", IF kind' = "reset" THEN "quiet" ELSE "drain")
  /\ armed' = (armed /\ kind' # "reset") /\ intr' = (intr /\ kind' # "reset")
  /\ UNCHANGED <<sync_seq, hw, moves, done, last_seq, refs, work, needs_reset, fences,
                 lock, waiters, service>>

DrainDone ==
  /\ last_seq = sync_seq /\ Stand("drain", "quiet")
  /\ armed' = FALSE /\ intr' = FALSE
  /\ UNCHANGED <<sync_seq, hw, kind, moves, done, last_seq, refs, work, needs_reset, fences,
                 lock, waiters, service>>

\* Mutant: the backup does not look at what the GPU had finished.
OwnerPollsLate ==
  /\ done > last_seq
  /\ Stand("drain", "drainWake") \/ Stand("test", "testWake")
  /\ last_seq' = done /\ work' = (work \/ done < sync_seq)
  /\ UNCHANGED <<sync_seq, hw, kind, moves, gpu, refs, needs_reset, fences, lock, waiters,
                 service>>

\* radeon_fence_process of the owner: the drain, the ring backup, the IB test
OwnerPolls ==
  /\ done > last_seq
  /\ \/ Stand("drain", "drainWake") \/ Stand("quiet", "quietWake")
     \/ Stand("test", "testWake")
  /\ last_seq' = done /\ work' = (work \/ done < sync_seq)
  /\ UNCHANGED <<sync_seq, hw, kind, moves, gpu, refs, needs_reset, fences, lock, waiters,
                 service>>

OwnerWakes ==
  /\ Free /\ WakeAll
  /\ \/ Stand("drainWake", "drain") \/ Stand("quietWake", "quiet")
     \/ Stand("testWake", "test")
  /\ UNCHANGED <<sync_seq, hw, kind, moves, done, last_seq, intr, work, needs_reset, enabled,
                 lock, waiters, service>>

\* the start of the ASIC restores the interrupt; a reset replays the commands, or
\* forces their completion if they could not be copied
Resume ==
  /\ done = last_seq /\ Stand("quiet", "test")
  /\ armed' = (ring_int > 0)
  /\ \/ UNCHANGED <<done, work>>
     \/ kind = "reset" /\ worker = "idle" /\ done' = sync_seq /\ work' = FALSE
  /\ UNCHANGED <<sync_seq, hw, kind, moves, last_seq, refs, needs_reset, intr, fences, lock,
                 waiters, service>>

\* the fence of the IB test has passed, and with it everything emitted before
Finish ==
  /\ last_seq = sync_seq /\ Stand("test", "none")
  /\ hw' = "running" /\ kind' = "none"
  /\ armed' = IF kind = "reset" THEN ring_int > 0 ELSE armed
  /\ needs_reset' = (needs_reset /\ kind # "reset")
  /\ UNCHANGED <<sync_seq, moves, done, intr, last_seq, refs, work, fences, lock, waiters,
                 service>>

\* radeon_rs4xx_latch_parked_state, by the owner or by an admitted task
Park ==
  /\ stage \in {"none", "publish", "own", "drain", "quiet", "test"}
  /\ hw' = "parked" /\ stage' = "latch" /\ kind' = "none" /\ needs_reset' = FALSE
  /\ UNCHANGED <<sync_seq, moves, gpu, last_seq, refs, work, fences, lock, waiters, service>>

LatchWake ==
  /\ Free /\ WakeAll /\ Stand("latch", "parked")
  /\ UNCHANGED <<sync_seq, hw, kind, moves, done, last_seq, intr, work, needs_reset, enabled,
                 lock, waiters, service>>

\* radeon_irq_kms_fini_hardwareless; the lockup work is cancelled
Uninstall ==
  /\ Drained /\ Stand("parked", "clear")
  /\ armed' = FALSE /\ intr' = FALSE /\ work' = FALSE
  /\ UNCHANGED <<sync_seq, hw, kind, moves, done, last_seq, refs, needs_reset, fences, lock,
                 waiters, service>>

\* radeon_fence_driver_force_completion_parked, under fence_queue.lock
ClearDelayed ==
  /\ Free /\ Stand("clear", "force") /\ lock' = Publisher
  /\ delayed_irq' = FALSE
  /\ UNCHANGED <<sync_seq, hw, kind, moves, gpu, last_seq, ring_int, work, needs_reset,
                 fences, waiters, service>>

ForceWake ==
  /\ Stand("force", "cancel") /\ WakeAll /\ lock' = NoTask
  /\ UNCHANGED <<sync_seq, hw, kind, moves, done, last_seq, intr, work, needs_reset, enabled,
                 waiters, service>>

CancelWork ==
  /\ worker = "idle" /\ Stand("cancel", "dead") /\ work' = FALSE
  /\ UNCHANGED <<sync_seq, hw, kind, moves, gpu, last_seq, refs, needs_reset, fences, lock,
                 waiters, service>>

-----------------------------------------------------------------------------
Handler == Handle \/ HandleWake
Work == WorkStart \/ WorkUnmask \/ WorkPoll \/ WorkWake

Sleeping(w) ==
  \/ AddCallback(w) \/ Get(w) \/ Poll(w) \/ GetDelayed(w) \/ Mark(w) \/ Queue(w)
  \/ Check(w) \/ Woken(w) \/ Fail(w) \/ Leave(w)
Polling(w) ==
  \/ SeqTest(w) \/ SeqWake(w) \/ SeqGet(w) \/ SeqInc(w) \/ SeqLoop(w) \/ SeqPut(w)
  \/ SeqSignal(w)

Move == PublishShut \/ Own \/ DrainDone \/ OwnerPolls \/ OwnerWakes \/ Resume \/ Finish
Publish == LatchWake \/ Uninstall \/ ClearDelayed \/ ForceWake \/ CancelWork

Next ==
  \/ Emit \/ Complete \/ Handler \/ Work \/ Close \/ Move \/ Park \/ Publish
  \/ \E f \in Fence : Signaled(f)
  \/ \E w \in Sleeper : Wait(w) \/ Sleeping(w) \/ Expire(w)
  \/ \E w \in Poller : SeqWait(w) \/ Polling(w)

\* Handler, work, waiters, owner and publisher go on; the queue's lock is fair to those
\* who spin for it.  The GPU need not finish, nobody need park the device and no
\* wait need expire.
Fairness ==
  /\ SF_vars(Handler) /\ SF_vars(Work) /\ SF_vars(Move) /\ SF_vars(Publish)
  /\ \A w \in Waiter : SF_vars(Sleeping(w) \/ Polling(w))

Spec == Init /\ [][Next]_vars
FairSpec == Spec /\ Fairness

-----------------------------------------------------------------------------
(* Properties *)

\* Every reference that radeon_irq_kms_sw_irq_get or its delayed variant took is held by
\* a fence or by a task between its get and its put: none is returned twice, none is lost.
RefsBalance ==
  /\ TypeOK
  /\ ring_int = Cardinality({f \in Fence : held[f]})
                + Cardinality({w \in Waiter : pc[w] \in {"seqLoop", "seqLoopWake", "seqPut"}})

\* No signal is lost between the publication of a sequence, or of the parked state, and
\* the queue: while an entry could be answered, somebody is about to wake the queue.
AnswerIsOnItsWay ==
  \A f \in Fence : entry[f] /\ Passed(f) =>
    \/ irq = "wake" \/ worker = "wake"
    \/ stage \in {"drainWake", "quietWake", "testWake", "latch", "parked", "clear", "force"}
    \/ \E w \in Waiter : pc[w] \in {"seqWake", "seqLoopWake"}

\* On a running device an interrupt somebody holds a reference on is enabled, or the
\* work that enables it is queued, or the task that queues it is about to.
DemandIsArmed ==
  hw = "running" /\ ring_int > 0 =>
    \/ armed
    \/ delayed_irq /\ (work \/ worker = "unmask")
    \/ \E w \in Waiter : pc[w] = "mark"

\* No fence is signalled as done before it is: neither by the queue of a device that is
\* parked, nor by enabling its signalling.  (SeqSignal is left out, see NoFalseSuccess.)
TruthfulSignal ==
  [][\A f \in Fence : sig[f] = "no" /\ sig'[f] = "ok" =>
       f <= last_seq' \/ \E w \in Waiter : SeqSignal(w)]_vars

\* The wait queue entry of w's fence has been taken off by a wait that ended.
Robbed(w) == ~entry[target[w]] /\ sig[target[w]] = "no"

\* A task that sleeps on a fence that has finished, or on a parked device, wakes up
\* without a timeout, whatever interrupts were lost.  (Unless it was robbed.)
SleeperWakes ==
  \A w \in Sleeper :
    pc[w] = "sleep" /\ (target[w] <= done \/ Terminal) ~> pc[w] # "sleep" \/ Robbed(w)

\* A fence that somebody sleeps on stays on the queue until it is signalled.
SleepersStayQueued ==
  \A w \in Sleeper : pc[w] = "sleep" /\ sig[target[w]] = "no" => entry[target[w]]

\* A fence signalled without an error has finished.
NoFalseSuccess == \A f \in Fence : sig[f] = "ok" => f <= done
=============================================================================
