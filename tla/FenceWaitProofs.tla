--------------------------- MODULE FenceWaitProofs ---------------------------
(***************************************************************************)
(* Proofs that no reference on the software interrupt, no wake-up and no   *)
(* interrupt is lost, and that no fence is signalled early, for any number *)
(* of waiters, fences, lockup verdicts and transitions.                    *)
(***************************************************************************)
EXTENDS FenceWait, FiniteSetTheorems, TLAPS

-----------------------------------------------------------------------------
(* The inductive invariant *)

\* radeon_fence_enable_signaling keeps the queue's lock, and so does the forced
\* completion of a parked device.
Enabling == {"get", "getDelayed", "poll", "mark", "queue"}
LockInv ==
  /\ \A w \in Waiter : pc[w] \in Enabling <=> lock = w
  /\ lock = Publisher <=> stage = "force"

\* Signalling is enabled once, under the lock; from then on the fence holds one
\* reference until it gives it back together with its entry.
FenceInv ==
  /\ \A f \in Fence : /\ held[f] => enabled[f]
                      /\ entry[f] => held[f]
  /\ \A w \in Waiter :
       /\ pc[w] \in Enabling => enabled[target[w]]
       /\ pc[w] \in {"get", "getDelayed"} => ~held[target[w]]
       /\ pc[w] \in {"poll", "mark", "queue"} => held[target[w]]

\* The references held by fences and by tasks.
Holders == {f \in Fence : held[f]}
Users == {w \in Waiter : pc[w] \in {"seqLoop", "seqLoopWake", "seqPut"}}
CountInv == ring_int = Cardinality(Holders) + Cardinality(Users)

\* What the hardware admits follows from where the transition stands; once its owner has
\* drained the accesses, none is left.
Shut == {"own", "drain", "drainWake", "quiet", "quietWake", "test", "testWake"}
Parked == {"latch", "parked", "clear", "force", "cancel", "dead"}
MoveInv ==
  /\ stage = "none" <=> hw = "running"
  /\ stage = "publish" <=> hw = "closing"
  /\ stage \in Shut <=> hw = "shut"
  /\ stage \in Parked <=> hw = "parked"
  /\ stage \in Shut \ {"own"} => Drained
  /\ \A w \in Waiter : /\ res[w] = "dead" => Terminal
                       /\ pc[w] = "seqInc" => res[w] # "late"

\* Somebody is about to wake the queue.
Coming ==
  \/ irq = "wake" \/ worker = "wake"
  \/ stage \in {"drainWake", "quietWake", "testWake", "latch", "parked", "clear", "force"}
  \/ \E w \in Waiter : pc[w] \in {"seqWake", "seqLoopWake"}

\* A fence that is being queued is not one that has passed and will not be looked at.
WakeInv ==
  /\ \A f \in Fence : entry[f] /\ Passed(f) => Coming
  /\ \A w \in Waiter :
       pc[w] \in Enabling /\ target[w] <= last_seq => Coming \/ Terminal

\* The interrupt of a count above zero is enabled, or is about to be.
Covered ==
  \/ armed
  \/ delayed_irq /\ (work \/ worker = "unmask")
  \/ \E w \in Waiter : pc[w] = "mark" /\ res[w] = "ok"
ArmedInv == stage \in {"none", "test", "testWake"} /\ ring_int > 0 => Covered

WaitInv ==
  /\ TypeOK
  /\ LockInv
  /\ FenceInv
  /\ CountInv
  /\ MoveInv
  /\ WakeInv
  /\ ArmedInv

-----------------------------------------------------------------------------
(* Counting references *)

\* Fences and tasks are finitely many.
LEMMA SetsFinite ==
  /\ IsFiniteSet(Holders) /\ Cardinality(Holders) \in Nat /\ Cardinality(Holders) <= N
  /\ IsFiniteSet(Users) /\ Cardinality(Users) \in Nat
  /\ Cardinality(Users) <= Cardinality(Waiter) /\ Cardinality(Waiter) \in Nat
<1>1. IsFiniteSet(Fence) /\ Cardinality(Fence) = N
  BY WaitAssumption, FS_Interval DEF Fence
<1>2. Holders \in SUBSET Fence /\ Users \in SUBSET Waiter
  BY DEF Holders, Users
<1>3. IsFiniteSet(Waiter)
  BY WaitAssumption
<1> QED  BY <1>1, <1>2, <1>3, FS_Subset, FS_CardinalityType

\* radeon_fence_remove_irq_wait_locked returns as many references as fences give up, and
\* touches the interrupt only with the last one.
LEMMA RemoveFacts ==
  ASSUME TypeOK, CountInv, NEW F \in SUBSET Fence, Remove(F)
  PROVE  /\ held' \in [Fence -> BOOLEAN] /\ entry' \in [Fence -> BOOLEAN]
         /\ armed' \in BOOLEAN /\ delayed_irq' \in BOOLEAN
         /\ \A f \in Fence : /\ held'[f] <=> held[f] /\ f \notin F
                             /\ entry'[f] <=> entry[f] /\ ~(f \in F /\ held[f])
         /\ ring_int' = Cardinality(Holders') + Cardinality(Users)
         /\ ring_int' > 0 => ring_int > 0 /\ armed' = armed /\ delayed_irq' = delayed_irq
<1> DEFINE gone == {f \in F : held[f]}
<1>1. /\ held' = [f \in Fence |-> held[f] /\ f \notin F]
      /\ entry' = [f \in Fence |-> entry[f] /\ f \notin gone]
      /\ IrqPut(Cardinality(gone), Access)
  BY DEF Remove
<1>2. Holders' = Holders \ gone /\ gone = Holders \cap gone
  BY <1>1 DEF Holders, TypeOK
<1>3. /\ Cardinality(Holders') = Cardinality(Holders) - Cardinality(gone)
      /\ Cardinality(gone) \in Nat /\ Cardinality(Holders) \in Nat /\ Cardinality(Users) \in Nat
  <2>1. gone \in SUBSET Holders
    BY <1>2
  <2>2. IsFiniteSet(gone)
    BY <2>1, SetsFinite, FS_Subset
  <2>3. Cardinality(Holders \ gone) = Cardinality(Holders) - Cardinality(Holders \cap gone)
    BY SetsFinite, FS_Difference
  <2> HIDE DEF gone
  <2> QED  BY <1>2, <2>2, <2>3, SetsFinite, FS_CardinalityType
<1>4. ring_int' = ring_int - Cardinality(gone) /\ ring_int \in Int
  BY <1>1, SetsFinite DEF IrqPut, CountInv
<1>5. ring_int' > 0 => ring_int > 0 /\ armed' = armed /\ delayed_irq' = delayed_irq
  BY <1>1, <1>3, <1>4 DEF IrqPut, TypeOK
<1>6. armed' \in BOOLEAN /\ delayed_irq' \in BOOLEAN
  BY <1>1 DEF IrqPut, TypeOK
<1>7. ring_int' = Cardinality(Holders') + Cardinality(Users)
  BY <1>3, <1>4 DEF CountInv
<1> QED  BY <1>1, <1>5, <1>6, <1>7 DEF TypeOK

\* The queue answers what has passed, without an error only what is finished, and keeps
\* nothing that has passed.
LEMMA WakeFacts ==
  ASSUME TypeOK, FenceInv, CountInv, WakeAll
  PROVE  /\ held' \in [Fence -> BOOLEAN] /\ entry' \in [Fence -> BOOLEAN]
         /\ armed' \in BOOLEAN /\ delayed_irq' \in BOOLEAN
         /\ sig' \in [Fence -> {"no", "ok", "error"}]
         /\ \A f \in Fence : /\ held'[f] <=> held[f] /\ ~(entry[f] /\ Passed(f))
                             /\ entry'[f] <=> entry[f] /\ ~Passed(f)
                             /\ sig[f] = "no" /\ sig'[f] = "ok" => f <= last_seq
         /\ ring_int' = Cardinality(Holders') + Cardinality(Users)
         /\ ring_int' > 0 => ring_int > 0 /\ armed' = armed /\ delayed_irq' = delayed_irq
<1> DEFINE told == {f \in Fence : entry[f] /\ (Terminal \/ f <= last_seq)}
<1>1. Signal(told, Outcome) /\ Remove(told) /\ told \in SUBSET Fence
  BY DEF WakeAll
<1>2. \A f \in Fence : f \in told <=> entry[f] /\ Passed(f)
  BY DEF Passed
<1>3. \A f \in told : held[f]
  BY DEF FenceInv
<1>4. /\ sig' \in [Fence -> {"no", "ok", "error"}]
      /\ \A f \in Fence : sig[f] = "no" /\ sig'[f] = "ok" => f \in told /\ ~Terminal
  BY <1>1 DEF Signal, Outcome, TypeOK
<1> HIDE DEF told
<1> QED  BY <1>1, <1>2, <1>3, <1>4, RemoveFacts DEF Passed

\* A poll publishes what the hardware has finished, and wakes the queue if that is news.
LEMMA ActivityFacts ==
  ASSUME TypeOK, Activity
  PROVE  /\ last_seq' \in 0 .. done /\ last_seq <= last_seq' /\ work' \in BOOLEAN
         /\ Progress => last_seq' = done
         /\ ~Progress => last_seq' = last_seq
         /\ work => work'
<1>1. done \in Nat /\ last_seq \in 0 .. done
  BY DEF TypeOK, Fence
<1>2. \/ last_seq' = done /\ (work' <=> work \/ done < sync_seq) /\ work' \in BOOLEAN /\ Admit
      \/ UNCHANGED <<last_seq, work>> /\ ~Admit
  BY DEF Activity
<1> QED  BY <1>1, <1>2 DEF Progress, TypeOK

\* A new reference counts one.
LEMMA GetFacts ==
  ASSUME TypeOK, NEW access, IrqGet(access)
  PROVE  /\ ring_int' = ring_int + 1
         /\ armed' \in BOOLEAN /\ delayed_irq' \in BOOLEAN
BY DEF IrqGet, TypeOK

\* A fence that takes a reference is one holder more.
LEMMA HolderJoins ==
  ASSUME TypeOK, NEW f \in Fence, ~held[f], held' = [held EXCEPT ![f] = TRUE]
  PROVE  Cardinality(Holders') = Cardinality(Holders) + 1
<1>1. Holders' = Holders \cup {f} /\ f \notin Holders
  BY DEF Holders, TypeOK
<1> QED  BY <1>1, SetsFinite, FS_AddElement

\* A step of a task or of nobody else, that does not take or return its reference.
LEMMA UsersStay ==
  ASSUME TypeOK, NEW w \in Waiter, NEW l, Goto(w, l),
         pc[w] \in {"seqLoop", "seqLoopWake", "seqPut"}
           <=> l \in {"seqLoop", "seqLoopWake", "seqPut"}
  PROVE  Users' = Users
BY DEF Users, Goto, TypeOK

-----------------------------------------------------------------------------
(* Each part of the invariant, step by step *)

\* ring_int counts the references.
LEMMA CountStep == ASSUME WaitInv, Next PROVE CountInv'
<1> USE DEF WaitInv, gpu, refs, fences, device, waiters, service
<1>1. CASE \E f \in Fence : Signaled(f)
  <2>1. PICK f \in Fence : Remove({f}) /\ UNCHANGED pc
    BY <1>1 DEF Signaled
  <2>2. Users' = Users
    BY <2>1 DEF Users
  <2> QED  BY <2>1, <2>2, RemoveFacts DEF CountInv
<1>2. CASE HandleWake \/ WorkWake \/ OwnerWakes \/ LatchWake \/ ForceWake
  <2>1. WakeAll /\ UNCHANGED pc
    BY <1>2 DEF HandleWake, WorkWake, OwnerWakes, LatchWake, ForceWake
  <2>2. Users' = Users
    BY <2>1 DEF Users
  <2> QED  BY <2>1, <2>2, WakeFacts DEF CountInv
<1>3. ASSUME NEW w \in Waiter, Get(w) \/ GetDelayed(w) PROVE CountInv'
  <2>1. /\ ring_int' = ring_int + 1 /\ held' = [held EXCEPT ![target[w]] = TRUE]
        /\ pc[w] \in {"get", "getDelayed"}
    BY <1>3 DEF Get, GetDelayed, IrqGet
  <2>2. Users' = Users
    BY <1>3, UsersStay DEF Get, GetDelayed
  <2>3. ~held[target[w]] /\ target[w] \in Fence
    BY <2>1 DEF FenceInv, TypeOK
  <2>4. Cardinality(Holders') = Cardinality(Holders) + 1
    BY <2>1, <2>3, HolderJoins
  <2> QED  BY <2>1, <2>2, <2>4, SetsFinite DEF CountInv
<1>4. ASSUME NEW w \in Waiter, Poll(w) \/ Queue(w) \/ Fail(w) \/ Leave(w) PROVE CountInv'
  <2>1. Users' = Users
    BY <1>4, UsersStay DEF Poll, Queue, Fail, Leave
  <2>2. target[w] \in Fence
    BY DEF TypeOK
  <2>3. CASE \E F \in SUBSET Fence : Remove(F)
    BY <2>1, <2>3, RemoveFacts DEF CountInv
  <2>4. CASE UNCHANGED <<ring_int, held>>
    BY <2>1, <2>4 DEF CountInv, Holders
  <2>5. (\E F \in SUBSET Fence : Remove(F)) \/ UNCHANGED <<ring_int, held>>
    <3>1. CASE Poll(w)
      BY <2>2, <3>1 DEF Poll
    <3>2. CASE Queue(w) \/ Fail(w) \/ Leave(w)
      BY <2>2, <3>2 DEF Queue, Fail, Leave
    <3> QED  BY <1>4, <3>1, <3>2
  <2> QED  BY <2>3, <2>4, <2>5
<1>5. ASSUME NEW w \in Waiter, SeqWake(w) PROVE CountInv'
  <2>1. Users' = Users
    <3>1. CASE pc[w] = "seqLoopWake"
      <4>1. Goto(w, "seqLoop")
        BY <1>5, <3>1 DEF SeqWake
      <4> QED  BY <3>1, <4>1, UsersStay
    <3>2. CASE pc[w] = "seqWake"
      BY <1>5, <3>2, UsersStay DEF SeqWake
    <3> QED  BY <1>5, <3>1, <3>2 DEF SeqWake
  <2>2. WakeAll
    BY <1>5 DEF SeqWake
  <2> QED  BY <2>1, <2>2, WakeFacts DEF CountInv
<1>6. ASSUME NEW w \in Waiter, SeqInc(w) PROVE CountInv'
  <2>1. Users' = Users \cup {w} /\ w \notin Users
    BY <1>6 DEF SeqInc, Users, Goto, TypeOK
  <2>2. ring_int' = ring_int + 1 /\ Holders' = Holders
    BY <1>6 DEF SeqInc, IrqGet, Holders
  <2>3. Cardinality(Users') = Cardinality(Users) + 1
    BY <2>1, SetsFinite, FS_AddElement
  <2> QED  BY <2>2, <2>3, SetsFinite DEF CountInv
<1>7. ASSUME NEW w \in Waiter, SeqPut(w) PROVE CountInv'
  <2>1. Users' = Users \ {w} /\ w \in Users
    BY <1>7 DEF SeqPut, Users, Goto, TypeOK
  <2>2. ring_int' = ring_int - 1 /\ Holders' = Holders
    BY <1>7 DEF SeqPut, IrqPut, Holders
  <2>3. Cardinality(Users') = Cardinality(Users) - 1
    BY <2>1, SetsFinite, FS_RemoveElement
  <2> QED  BY <2>2, <2>3, SetsFinite DEF CountInv
<1>8. ASSUME NEW w \in Waiter,
             Wait(w) \/ AddCallback(w) \/ Mark(w) \/ Check(w) \/ Woken(w) \/ Expire(w)
             \/ SeqWait(w) \/ SeqTest(w) \/ SeqGet(w) \/ SeqLoop(w) \/ SeqSignal(w)
      PROVE  CountInv'
  <2>1. UNCHANGED <<ring_int, held>>
    BY <1>8 DEF Wait, AddCallback, Mark, Check, Woken, Expire, SeqWait, SeqTest, SeqGet,
       SeqLoop, SeqSignal
  <2>2. Users' = Users
    BY <1>8, UsersStay DEF Wait, AddCallback, Mark, Check, Woken, Expire, SeqWait, SeqTest,
       SeqGet, SeqLoop, SeqSignal
  <2> QED  BY <2>1, <2>2 DEF CountInv, Holders
<1>9. CASE \/ Emit \/ Complete \/ Handle \/ WorkStart \/ WorkUnmask \/ WorkPoll
           \/ Close \/ PublishShut \/ Own \/ DrainDone \/ OwnerPolls \/ Resume \/ Finish
           \/ Park \/ Uninstall \/ ClearDelayed \/ CancelWork
  <2>1. UNCHANGED <<ring_int, held, pc>>
    BY <1>9 DEF Emit, Complete, Handle, WorkStart, WorkUnmask, WorkPoll, Close,
       PublishShut, Own, DrainDone, OwnerPolls, Resume, Finish, Park, Uninstall,
       ClearDelayed, CancelWork
  <2> QED  BY <2>1 DEF CountInv, Holders, Users
<1> QED
  BY <1>1, <1>2, <1>3, <1>4, <1>5, <1>6, <1>7, <1>8, <1>9
     DEF Next, Handler, Work, Move, Publish, Sleeping, Polling, Waiter

\* Every variable keeps its type.
LEMMA TypeStep == ASSUME WaitInv, CountInv', Next PROVE TypeOK'
<1> USE DEF WaitInv, gpu, refs, fences, device, waiters, service
<1>0. /\ N \in Nat \ {0} /\ MaxLockup \in Nat /\ MaxMove \in Nat /\ Fence = 1 .. N
      /\ sync_seq \in Fence /\ done \in 0 .. sync_seq /\ last_seq \in 0 .. done
  BY WaitAssumption DEF Fence, TypeOK
<1>1. ring_int' \in 0 .. N + Cardinality(Waiter)
  <2>1. IsFiniteSet(Fence) /\ Cardinality(Fence) = N /\ IsFiniteSet(Waiter)
    BY WaitAssumption, FS_Interval DEF Fence
  <2>2. Holders' \in SUBSET Fence /\ Users' \in SUBSET Waiter
    BY DEF Holders, Users
  <2>3. /\ Cardinality(Holders') \in Nat /\ Cardinality(Holders') <= N
        /\ Cardinality(Users') \in Nat /\ Cardinality(Users') <= Cardinality(Waiter)
        /\ Cardinality(Waiter) \in Nat
    BY <2>1, <2>2, FS_Subset, FS_CardinalityType
  <2> QED  BY <1>0, <2>3 DEF CountInv
<1>2. ASSUME NEW f \in Fence, Signaled(f) PROVE TypeOK'
  <2>1. Remove({f})
    BY <1>2 DEF Signaled
  <2>2. /\ held' \in [Fence -> BOOLEAN] /\ entry' \in [Fence -> BOOLEAN]
        /\ armed' \in BOOLEAN /\ delayed_irq' \in BOOLEAN
    BY <2>1, RemoveFacts
  <2> QED  BY <1>1, <1>2, <2>2 DEF Signaled, Signal, Outcome, TypeOK
<1>3. ASSUME WakeAll PROVE
        /\ held' \in [Fence -> BOOLEAN] /\ entry' \in [Fence -> BOOLEAN]
        /\ armed' \in BOOLEAN /\ delayed_irq' \in BOOLEAN
        /\ sig' \in [Fence -> {"no", "ok", "error"}]
  BY <1>3, WakeFacts
<1>4. CASE HandleWake \/ WorkWake
  BY <1>1, <1>3, <1>4 DEF HandleWake, WorkWake, TypeOK
<1>5. CASE OwnerWakes \/ LatchWake \/ ForceWake
  BY <1>1, <1>3, <1>5 DEF OwnerWakes, LatchWake, ForceWake, Stand, Stage, TypeOK
<1>6. ASSUME NEW w \in Waiter, SeqWake(w) PROVE TypeOK'
  BY <1>1, <1>3, <1>6 DEF SeqWake, Goto, TypeOK
<1>7. ASSUME NEW w \in Waiter, Get(w) PROVE TypeOK'
  BY <1>1, <1>7, GetFacts DEF Get, Goto, TypeOK
<1>8. ASSUME NEW w \in Waiter, GetDelayed(w) PROVE TypeOK'
  BY <1>1, <1>8 DEF GetDelayed, Goto, TypeOK
<1>9. ASSUME NEW w \in Waiter, SeqInc(w) PROVE TypeOK'
  BY <1>1, <1>9, GetFacts DEF SeqInc, Goto, TypeOK
<1>10. ASSUME NEW w \in Waiter, SeqPut(w) PROVE TypeOK'
  BY <1>1, <1>10 DEF SeqPut, IrqPut, Goto, TypeOK
<1>11. ASSUME NEW w \in Waiter, Poll(w) PROVE TypeOK'
  <2>1. \E F \in SUBSET Fence : Remove(F) /\ Signal(F, Outcome)
    BY <1>11 DEF Poll, TypeOK
  <2>2. /\ held' \in [Fence -> BOOLEAN] /\ entry' \in [Fence -> BOOLEAN]
        /\ armed' \in BOOLEAN /\ delayed_irq' \in BOOLEAN
    BY <2>1, RemoveFacts
  <2>3. sig' \in [Fence -> {"no", "ok", "error"}]
    BY <2>1 DEF Signal, Outcome, TypeOK
  <2>4. last_seq' \in 0 .. done /\ work' \in BOOLEAN
    BY <1>11, ActivityFacts DEF Poll
  <2>5. /\ \E l \in {"idle", "queue"} : Goto(w, l)
        /\ lock' \in {lock, NoTask}
    BY <1>11 DEF Poll
  <2>6. UNCHANGED <<sync_seq, done, hw, kind, stage, intr, needs_reset, enabled, target,
                    res, irq, worker, lockups, moves>>
    BY <1>11 DEF Poll
  <2> QED  BY <1>1, <2>2, <2>3, <2>4, <2>5, <2>6 DEF Goto, TypeOK
<1>12. ASSUME NEW w \in Waiter, Queue(w) \/ Fail(w) \/ Leave(w) PROVE TypeOK'
  <2>1. target[w] \in Fence
    BY DEF TypeOK
  <2>2. CASE Remove({target[w]})
    <3>1. /\ held' \in [Fence -> BOOLEAN] /\ entry' \in [Fence -> BOOLEAN]
          /\ armed' \in BOOLEAN /\ delayed_irq' \in BOOLEAN
      BY <2>1, <2>2, RemoveFacts
    <3> QED  BY <1>1, <1>12, <3>1 DEF Queue, Fail, Leave, Signal, Outcome, Goto, TypeOK
  <2>3. CASE Queue(w) /\ ~Terminal
    <3>1. /\ lock' = NoTask /\ Goto(w, "check") /\ entry' = [entry EXCEPT ![target[w]] = TRUE]
          /\ UNCHANGED <<sig, held, armed, refs, done, last_seq, intr, work, needs_reset,
                         enabled, device, target, res, service>>
      BY <2>3 DEF Queue
    <3> QED  BY <1>1, <3>1 DEF Goto, TypeOK
  <2> QED  BY <1>12, <2>2, <2>3 DEF Queue, Fail, Leave
<1>13. ASSUME NEW w \in Waiter, AddCallback(w) PROVE TypeOK'
  <2>1. sig' \in [Fence -> {"no", "ok", "error"}]
    BY <1>13 DEF AddCallback, Signal, Outcome, TypeOK
  <2>2. /\ \E l \in {"idle", "check", "get", "getDelayed"} : Goto(w, l)
        /\ lock' \in {lock, w}
        /\ enabled' = [enabled EXCEPT ![target[w]] = TRUE]
        /\ UNCHANGED <<gpu, last_seq, refs, work, needs_reset, held, entry, device, target,
                       res, service>>
    BY <1>13 DEF AddCallback
  <2> QED  BY <1>1, <2>1, <2>2 DEF Goto, TypeOK
<1>14. ASSUME NEW w \in Waiter,
              Wait(w) \/ Mark(w) \/ Check(w) \/ Woken(w) \/ Expire(w)
       PROVE  TypeOK'
  <2>1. CASE Wait(w)
    BY <1>1, <2>1 DEF Wait, Goto, TypeOK
  <2>2. CASE Mark(w)
    BY <1>1, <2>2 DEF Mark, Goto, TypeOK
  <2>3. CASE Check(w)
    BY <1>1, <2>3 DEF Check, Goto, TypeOK
  <2>4. CASE Woken(w)
    BY <1>1, <2>4 DEF Woken, Goto, TypeOK
  <2>5. CASE Expire(w)
    BY <1>1, <2>5 DEF Expire, Goto, TypeOK
  <2> QED  BY <1>14, <2>1, <2>2, <2>3, <2>4, <2>5
<1>15. ASSUME NEW w \in Waiter, SeqTest(w) \/ SeqLoop(w) PROVE TypeOK'
  <2>1. last_seq' \in 0 .. done /\ work' \in BOOLEAN
    BY <1>0, <1>15, ActivityFacts DEF SeqTest, SeqLoop, TypeOK
  <2> QED  BY <1>1, <1>15, <2>1 DEF SeqTest, SeqLoop, Goto, TypeOK
<1>16. ASSUME NEW w \in Waiter, SeqWait(w) \/ SeqGet(w) \/ SeqSignal(w) PROVE TypeOK'
  BY <1>1, <1>16 DEF SeqWait, SeqGet, SeqSignal, Goto, Access, Signal, TypeOK
<1>17. CASE Emit \/ Complete
  <2>1. CASE Emit
    BY <1>0, <1>1, <2>1 DEF Emit, TypeOK
  <2>2. CASE Complete
    BY <1>0, <1>1, <2>2 DEF Complete, TypeOK
  <2> QED  BY <1>17, <2>1, <2>2
<1>18. CASE Handle \/ WorkPoll
  <2>1. last_seq' \in 0 .. done /\ work' \in BOOLEAN
    BY <1>18, ActivityFacts DEF Handle, WorkPoll
  <2>2. CASE Handle
    BY <1>0, <1>1, <2>1, <2>2 DEF Handle, TypeOK
  <2>3. CASE WorkPoll
    <3>1. /\ worker' \in {"idle", "wake"}
          /\ \/ UNCHANGED <<needs_reset, lockups>>
             \/ needs_reset' = TRUE /\ lockups' = lockups + 1 /\ lockups < MaxLockup
          /\ UNCHANGED <<gpu, refs, fences, lock, device, waiters, irq>>
      BY <2>3 DEF WorkPoll
    <3>2. lockups \in 0 .. MaxLockup /\ needs_reset \in BOOLEAN
      BY DEF TypeOK
    <3>3. lockups' \in 0 .. MaxLockup
      BY <1>0, <3>1, <3>2
    <3>4. needs_reset' \in BOOLEAN
      BY <3>1, <3>2
    <3> QED  BY <1>1, <2>1, <3>1, <3>3, <3>4 DEF TypeOK
  <2> QED  BY <1>18, <2>2, <2>3
<1>19. CASE WorkStart
  BY <1>1, <1>19 DEF WorkStart, TypeOK
<1>20. CASE WorkUnmask \/ Finish
  <2>1. armed' = (ring_int > 0) \/ armed' = armed
    BY <1>20 DEF WorkUnmask, Finish
  <2>2. armed' \in BOOLEAN
    <3>1. CASE armed' = (ring_int > 0)
      BY <3>1
    <3>2. CASE armed' = armed
      BY <3>2 DEF TypeOK
    <3> QED  BY <2>1, <3>1, <3>2
  <2>3. CASE WorkUnmask
    BY <1>1, <2>2, <2>3 DEF WorkUnmask, TypeOK
  <2>4. CASE Finish
    BY <1>1, <2>2, <2>4 DEF Finish, Stand, Stage, TypeOK
  <2> QED  BY <1>20, <2>3, <2>4
<1>21. CASE Resume
  <2>1. armed' \in BOOLEAN
    BY <1>21 DEF Resume
  <2>2. (done' = done /\ work' = work) \/ (done' = sync_seq /\ work' = FALSE)
    BY <1>21 DEF Resume
  <2>3. done' \in 0 .. sync_seq /\ last_seq \in 0 .. done'
    BY <1>0, <2>2
  <2>4. work' \in BOOLEAN
    BY <2>2 DEF TypeOK
  <2> QED  BY <1>1, <1>21, <2>1, <2>3, <2>4 DEF Resume, Stand, Stage, TypeOK
<1>22. CASE Close \/ PublishShut \/ DrainDone \/ Own \/ OwnerPolls
  <2>1. CASE Close
    BY <1>0, <1>1, <2>1 DEF Close, Stand, Stage, TypeOK
  <2>2. CASE PublishShut
    BY <1>0, <1>1, <2>2 DEF PublishShut, Stand, Stage, TypeOK
  <2>3. CASE DrainDone
    BY <1>0, <1>1, <2>3 DEF DrainDone, Stand, Stage, TypeOK
  <2>4. CASE Own
    BY <1>0, <1>1, <2>4 DEF Own, Stand, Stage, TypeOK
  <2>5. CASE OwnerPolls
    BY <1>0, <1>1, <2>5 DEF OwnerPolls, Stand, Stage, TypeOK
  <2> QED  BY <1>22, <2>1, <2>2, <2>3, <2>4, <2>5
<1>23. CASE Park \/ Uninstall \/ ClearDelayed \/ CancelWork
  <2>1. CASE Park
    BY <1>1, <2>1 DEF Park, Stand, Stage, TypeOK
  <2>2. CASE Uninstall
    BY <1>1, <2>2 DEF Uninstall, Stand, Stage, TypeOK
  <2>3. CASE ClearDelayed
    BY <1>1, <2>3 DEF ClearDelayed, Stand, Stage, TypeOK
  <2>4. CASE CancelWork
    BY <1>1, <2>4 DEF CancelWork, Stand, Stage, TypeOK
  <2> QED  BY <1>23, <2>1, <2>2, <2>3, <2>4
<1> QED
  BY <1>2, <1>4, <1>5, <1>6, <1>7, <1>8, <1>9, <1>10, <1>11, <1>12, <1>13, <1>14, <1>15,
     <1>16, <1>17, <1>18, <1>19, <1>20, <1>21, <1>22, <1>23
     DEF Next, Handler, Work, Move, Publish, Sleeping, Polling, Waiter

\* The queue's lock is where the program counters say.
LEMMA LockStep == ASSUME WaitInv, Next PROVE LockInv'
<1> USE DEF WaitInv, gpu, refs, fences, device, waiters, service, LockInv, TypeOK,
     Enabling, Free, Goto, Stand, NoTask, Publisher
<1>1. CASE \/ Emit \/ Complete \/ Handle \/ HandleWake \/ WorkStart \/ WorkUnmask
           \/ WorkPoll \/ WorkWake
  BY <1>1 DEF Emit, Complete, Handle, HandleWake, WorkStart, WorkUnmask, WorkPoll,
     WorkWake
<1>2. CASE \/ Close \/ PublishShut \/ Own \/ DrainDone \/ OwnerPolls \/ OwnerWakes
           \/ Resume \/ Finish
  BY <1>2 DEF Close, PublishShut, Own, DrainDone, OwnerPolls, OwnerWakes, Resume, Finish
<1>3. CASE Park \/ LatchWake \/ Uninstall \/ ClearDelayed \/ ForceWake \/ CancelWork
  BY WaitAssumption, <1>3 DEF Park, LatchWake, Uninstall, ClearDelayed, ForceWake,
     CancelWork
<1>4. ASSUME NEW w \in Waiter, AddCallback(w) \/ Get(w) \/ Poll(w) PROVE LockInv'
  BY WaitAssumption, <1>4 DEF AddCallback, Get, Poll
<1>5. ASSUME NEW w \in Waiter, GetDelayed(w) \/ Mark(w) \/ Queue(w) PROVE LockInv'
  BY WaitAssumption, <1>5 DEF GetDelayed, Mark, Queue
<1>6. ASSUME NEW w \in Waiter,
              Wait(w) \/ Check(w) \/ Woken(w) \/ Expire(w) \/ Fail(w) \/ Leave(w)
       PROVE  LockInv'
  BY <1>6 DEF Wait, Check, Woken, Expire, Fail, Leave
<1>7. ASSUME NEW w \in Waiter,
              SeqWait(w) \/ SeqTest(w) \/ SeqWake(w) \/ SeqGet(w) \/ SeqInc(w)
              \/ SeqLoop(w) \/ SeqPut(w) \/ SeqSignal(w)
       PROVE  LockInv'
  BY <1>7 DEF SeqWait, SeqTest, SeqWake, SeqGet, SeqInc, SeqLoop, SeqPut, SeqSignal
<1>8. ASSUME NEW f \in Fence, Signaled(f) PROVE LockInv'
  BY <1>8 DEF Signaled
<1> QED
  BY <1>1, <1>2, <1>3, <1>4, <1>5, <1>6, <1>7, <1>8
     DEF Next, Handler, Work, Move, Publish, Sleeping, Polling, Waiter

\* Entries, references and the signalling of a fence go together.
LEMMA FenceStep == ASSUME WaitInv, Next PROVE FenceInv'
<1> USE DEF WaitInv, gpu, refs, fences, device, waiters, service, LockInv, FenceInv,
     TypeOK, Enabling, Free, Goto, NoTask, Publisher
<1>1. CASE HandleWake \/ WorkWake \/ OwnerWakes \/ LatchWake \/ ForceWake
  BY WakeFacts, WaitAssumption, <1>1 DEF HandleWake, WorkWake, OwnerWakes, LatchWake,
     ForceWake, Stand
<1>2. CASE Emit \/ Complete \/ Handle \/ WorkStart \/ WorkUnmask \/ WorkPoll
  BY <1>2 DEF Emit, Complete, Handle, WorkStart, WorkUnmask, WorkPoll
<1>3. CASE Close \/ PublishShut \/ Own \/ DrainDone \/ OwnerPolls \/ Resume \/ Finish
  BY <1>3 DEF Close, PublishShut, Own, DrainDone, OwnerPolls, Resume, Finish
<1>4. CASE Park \/ Uninstall \/ ClearDelayed \/ CancelWork
  BY <1>4 DEF Park, Uninstall, ClearDelayed, CancelWork
<1>5. ASSUME NEW w \in Waiter, Poll(w) \/ Queue(w) PROVE FenceInv'
  BY RemoveFacts, WaitAssumption, <1>5 DEF Poll, Queue
<1>6. ASSUME NEW w \in Waiter, Fail(w) \/ Leave(w) PROVE FenceInv'
  BY RemoveFacts, WaitAssumption, <1>6 DEF Fail, Leave
<1>7. ASSUME NEW w \in Waiter,
              AddCallback(w) \/ Get(w) \/ GetDelayed(w) \/ Mark(w)
       PROVE  FenceInv'
  BY WaitAssumption, <1>7 DEF AddCallback, Get, GetDelayed, Mark
<1>8. ASSUME NEW w \in Waiter,
              Wait(w) \/ Check(w) \/ Woken(w) \/ Expire(w)
       PROVE  FenceInv'
  BY <1>8 DEF Wait, Check, Woken, Expire
<1>9. ASSUME NEW w \in Waiter, SeqWake(w) PROVE FenceInv'
  BY WakeFacts, WaitAssumption, <1>9 DEF SeqWake
<1>10. ASSUME NEW w \in Waiter,
              SeqWait(w) \/ SeqTest(w) \/ SeqGet(w) \/ SeqInc(w) \/ SeqLoop(w)
              \/ SeqPut(w) \/ SeqSignal(w)
       PROVE  FenceInv'
  BY <1>10 DEF SeqWait, SeqTest, SeqGet, SeqInc, SeqLoop, SeqPut, SeqSignal
<1>11. ASSUME NEW f \in Fence, Signaled(f) PROVE FenceInv'
  BY RemoveFacts, WaitAssumption, <1>11 DEF Signaled
<1> QED
  BY <1>1, <1>2, <1>3, <1>4, <1>5, <1>6, <1>7, <1>8, <1>9, <1>10, <1>11
     DEF Next, Handler, Work, Move, Publish, Sleeping, Polling, Waiter

\* What the hardware admits is what the transition has published, and a drained device
\* stays drained.
LEMMA MoveStep == ASSUME WaitInv, Next PROVE MoveInv'
<1> USE DEF WaitInv, gpu, refs, fences, device, waiters, service, MoveInv, Shut,
     Parked, Drained, Terminal, StateError, Admit, Access, TypeOK, Goto, Stand
<1>1. CASE Handle
  BY ActivityFacts, <1>1 DEF Handle, Progress
<1>2. CASE \/ Emit \/ Complete \/ HandleWake \/ WorkStart \/ WorkUnmask \/ WorkPoll
           \/ WorkWake
  BY <1>2 DEF Emit, Complete, HandleWake, WorkStart, WorkUnmask, WorkPoll, WorkWake
<1>3. CASE \/ Close \/ PublishShut \/ Own \/ DrainDone \/ OwnerPolls \/ OwnerWakes
           \/ Resume \/ Finish
  BY <1>3 DEF Close, PublishShut, Own, DrainDone, OwnerPolls, OwnerWakes, Resume,
     Finish, Stage
<1>4. CASE Park \/ LatchWake \/ Uninstall \/ ClearDelayed \/ ForceWake \/ CancelWork
  BY <1>4 DEF Park, LatchWake, Uninstall, ClearDelayed, ForceWake, CancelWork, Stage
<1>5. ASSUME NEW w \in Waiter,
              AddCallback(w) \/ Get(w) \/ Poll(w) \/ GetDelayed(w) \/ Mark(w)
              \/ Queue(w)
       PROVE  MoveInv'
  BY <1>5 DEF AddCallback, Get, Poll, GetDelayed, Mark, Queue
<1>6. ASSUME NEW w \in Waiter,
              Wait(w) \/ Check(w) \/ Woken(w) \/ Expire(w) \/ Fail(w) \/ Leave(w)
       PROVE  MoveInv'
  BY <1>6 DEF Wait, Check, Woken, Expire, Fail, Leave
<1>7. ASSUME NEW w \in Waiter,
              SeqWait(w) \/ SeqTest(w) \/ SeqWake(w) \/ SeqGet(w)
       PROVE  MoveInv'
  BY <1>7 DEF SeqWait, SeqTest, SeqWake, SeqGet
<1>8. ASSUME NEW w \in Waiter,
              SeqInc(w) \/ SeqLoop(w) \/ SeqPut(w) \/ SeqSignal(w)
       PROVE  MoveInv'
  BY <1>8 DEF SeqInc, SeqLoop, SeqPut, SeqSignal
<1>9. ASSUME NEW f \in Fence, Signaled(f) PROVE MoveInv'
  BY <1>9 DEF Signaled
<1> QED
  BY <1>1, <1>2, <1>3, <1>4, <1>5, <1>6, <1>7, <1>8, <1>9
     DEF Next, Handler, Work, Move, Publish, Sleeping, Polling, Waiter

\* Whoever publishes a sequence or the parked state also wakes the queue, and a fence that
\* passes while it is being queued meets that wake.
LEMMA WakeStep == ASSUME WaitInv, Next PROVE WakeInv'
<1> USE DEF WaitInv, gpu, refs, fences, device, waiters, service, WakeInv, MoveInv,
     Parked, FenceInv, LockInv, Coming, Passed, Terminal, TypeOK, Enabling,
     Free, Goto, Stand
<1>1. CASE HandleWake \/ WorkWake \/ OwnerWakes \/ LatchWake \/ ForceWake
  BY WakeFacts, WaitAssumption, <1>1 DEF HandleWake, WorkWake, OwnerWakes, LatchWake,
     ForceWake, NoTask, Publisher
<1>2. CASE Handle \/ WorkPoll
  BY ActivityFacts, <1>2 DEF Handle, WorkPoll
<1>3. CASE Emit \/ Complete \/ WorkStart \/ WorkUnmask
  BY <1>3 DEF Emit, Complete, WorkStart, WorkUnmask
<1>4. CASE Close \/ PublishShut \/ Own \/ DrainDone
  BY <1>4 DEF Close, PublishShut, Own, DrainDone
<1>5. CASE OwnerPolls \/ Resume \/ Finish
  BY <1>5 DEF OwnerPolls, Resume, Finish
<1>6. CASE Park \/ Uninstall \/ ClearDelayed \/ CancelWork
  BY <1>6 DEF Park, Uninstall, ClearDelayed, CancelWork, Drained
<1>7. ASSUME NEW w \in Waiter, Poll(w) PROVE WakeInv'
  <2>1. /\ target[w] \in Fence /\ last_seq \in Nat /\ done \in Nat /\ lock = w
        /\ \A v \in Waiter : pc[v] \in Enabling => v = w
    BY <1>7 DEF Poll, Fence
  <2>2. Activity
    BY <1>7 DEF Poll
  <2>3. CASE Progress
    <3>1. last_seq' = done
      BY <2>2, <2>3, ActivityFacts
    <3>2. PICK F \in SUBSET Fence :
            /\ Remove(F)
            /\ \A f \in Fence : entry[f] /\ f <= done => f \in F
            /\ pc'[w] \in Enabling => ~(target[w] <= done)
            /\ ~Terminal
      BY <1>7, <2>1, <2>3 DEF Poll, Progress, Admit
    <3>3. \A f \in Fence : entry'[f] => entry[f] /\ f \notin F
      BY <3>2, RemoveFacts
    <3> QED  BY <1>7, <2>1, <3>1, <3>2, <3>3 DEF Poll
  <2>4. CASE ~Progress
    <3>1. last_seq' = last_seq
      BY <2>2, <2>4, ActivityFacts
    <3>2. PICK F \in SUBSET Fence : Remove(F)
      BY <1>7, <2>1 DEF Poll
    <3>3. \A f \in Fence : entry'[f] => entry[f]
      BY <3>2, RemoveFacts
    <3> QED  BY <1>7, <2>1, <3>1, <3>3 DEF Poll
  <2> QED  BY <2>3, <2>4
<1>8. ASSUME NEW w \in Waiter, Queue(w) \/ Fail(w) \/ Leave(w) PROVE WakeInv'
  BY RemoveFacts, <1>8 DEF Queue, Fail, Leave
<1>9. ASSUME NEW w \in Waiter,
              AddCallback(w) \/ Get(w) \/ GetDelayed(w) \/ Mark(w)
       PROVE  WakeInv'
  BY WaitAssumption, <1>9 DEF AddCallback, Get, GetDelayed, Mark, Admit, NoTask
<1>10. ASSUME NEW w \in Waiter,
              Wait(w) \/ Check(w) \/ Woken(w) \/ Expire(w)
       PROVE  WakeInv'
  BY <1>10 DEF Wait, Check, Woken, Expire
<1>11. ASSUME NEW w \in Waiter, SeqWake(w) PROVE WakeInv'
  BY WakeFacts, WaitAssumption, <1>11 DEF SeqWake, NoTask
<1>12. ASSUME NEW w \in Waiter, SeqTest(w) \/ SeqLoop(w) PROVE WakeInv'
  BY ActivityFacts, <1>12 DEF SeqTest, SeqLoop
<1>13. ASSUME NEW w \in Waiter,
              SeqWait(w) \/ SeqGet(w) \/ SeqInc(w) \/ SeqPut(w) \/ SeqSignal(w)
       PROVE  WakeInv'
  BY <1>13 DEF SeqWait, SeqGet, SeqInc, SeqPut, SeqSignal
<1>14. ASSUME NEW f \in Fence, Signaled(f) PROVE WakeInv'
  BY RemoveFacts, <1>14 DEF Signaled
<1> QED
  BY <1>1, <1>2, <1>3, <1>4, <1>5, <1>6, <1>7, <1>8, <1>9, <1>10, <1>11, <1>12, <1>13,
     <1>14
     DEF Next, Handler, Work, Move, Publish, Sleeping, Polling, Waiter

\* Giving references back leaves the interrupt to whoever still holds one.
LEMMA ArmedStays ==
  ASSUME ArmedInv,
         stage' \in {"none", "test", "testWake"} => stage \in {"none", "test", "testWake"},
         ring_int' > 0 => ring_int > 0 /\ armed' = armed /\ delayed_irq' = delayed_irq,
         work => work',
         worker = "unmask" => worker' = "unmask",
         \A w \in Waiter : pc[w] = "mark" /\ res[w] = "ok" => pc'[w] = "mark" /\ res'[w] = "ok"
  PROVE  ArmedInv'
BY DEF ArmedInv, Covered

\* While the device runs, or is about to, a reference means an interrupt or the work that
\* enables it.
LEMMA ArmedStep == ASSUME WaitInv, Next PROVE ArmedInv'
<1> USE DEF WaitInv, gpu, refs, fences, device, waiters, service, TypeOK, Goto, Stand
<1>0. ring_int \in Nat
  BY SetsFinite DEF CountInv
<1>1. CASE HandleWake \/ WorkWake \/ OwnerWakes \/ LatchWake \/ ForceWake
  <2>1. WakeAll
    BY <1>1 DEF HandleWake, WorkWake, OwnerWakes, LatchWake, ForceWake
  <2>2. ring_int' > 0 => ring_int > 0 /\ armed' = armed /\ delayed_irq' = delayed_irq
    BY <2>1, WakeFacts
  <2> QED  BY <1>1, <2>2, ArmedStays DEF HandleWake, WorkWake, OwnerWakes, LatchWake, ForceWake
<1>2. ASSUME NEW w \in Waiter, SeqWake(w) PROVE ArmedInv'
  <2>1. ring_int' > 0 => ring_int > 0 /\ armed' = armed /\ delayed_irq' = delayed_irq
    BY <1>2, WakeFacts DEF SeqWake
  <2> QED  BY <1>2, <2>1, ArmedStays DEF SeqWake
<1>3. ASSUME NEW w \in Waiter, Poll(w) PROVE ArmedInv'
  <2>1. \E G \in SUBSET Fence : Remove(G)
    BY <1>3 DEF Poll
  <2>2. ring_int' > 0 => ring_int > 0 /\ armed' = armed /\ delayed_irq' = delayed_irq
    BY <2>1, RemoveFacts
  <2>3. work => work'
    BY <1>3, ActivityFacts DEF Poll
  <2> QED  BY <1>3, <2>2, <2>3, ArmedStays DEF Poll
<1>4. ASSUME NEW w \in Waiter, Fail(w) \/ Leave(w) PROVE ArmedInv'
  <2>1. ring_int' > 0 => ring_int > 0 /\ armed' = armed /\ delayed_irq' = delayed_irq
    BY <1>4, RemoveFacts DEF Fail, Leave
  <2> QED  BY <1>4, <2>1, ArmedStays DEF Fail, Leave
<1>5. ASSUME NEW w \in Waiter, Queue(w) PROVE ArmedInv'
  <2>1. ring_int' > 0 => ring_int > 0 /\ armed' = armed /\ delayed_irq' = delayed_irq
    BY <1>5, RemoveFacts DEF Queue
  <2> QED  BY <1>5, <2>1, ArmedStays DEF Queue
<1>6. ASSUME NEW f \in Fence, Signaled(f) PROVE ArmedInv'
  <2>1. ring_int' > 0 => ring_int > 0 /\ armed' = armed /\ delayed_irq' = delayed_irq
    BY <1>6, RemoveFacts DEF Signaled
  <2> QED  BY <1>6, <2>1, ArmedStays DEF Signaled
<1>7. CASE Handle \/ WorkPoll
  <2>1. work => work'
    BY <1>7, ActivityFacts DEF Handle, WorkPoll
  <2> QED  BY <1>7, <2>1, ArmedStays DEF Handle, WorkPoll
<1>8. ASSUME NEW w \in Waiter, SeqTest(w) \/ SeqLoop(w) PROVE ArmedInv'
  <2>1. work => work'
    BY <1>8, ActivityFacts DEF SeqTest, SeqLoop
  <2> QED  BY <1>8, <2>1, ArmedStays DEF SeqTest, SeqLoop
<1>9. ASSUME NEW w \in Waiter, SeqPut(w) PROVE ArmedInv'
  <2>1. ring_int' > 0 => ring_int > 0 /\ armed' = armed /\ delayed_irq' = delayed_irq
    BY <1>9, <1>0 DEF SeqPut, IrqPut
  <2> QED  BY <1>9, <2>1, ArmedStays DEF SeqPut
<1>10. ASSUME NEW w \in Waiter, Get(w) PROVE ArmedInv'
  <2>1. hw \notin {"shut", "parked"} \/ stage \notin {"none", "test", "testWake"}
    BY <1>10 DEF Get, MoveInv, Drained, Shut, Parked
  <2>2. CASE ring_int = 0 /\ stage = "none"
    <3>1. armed'
      BY <1>10, <2>2 DEF Get, IrqGet, MoveInv, Access, Admit, Terminal
    <3> QED  BY <3>1 DEF ArmedInv, Covered
  <2>3. CASE ring_int > 0 /\ stage = "none"
    <3>1. (armed => armed') /\ (delayed_irq => delayed_irq')
      BY <1>10, <2>3 DEF Get, IrqGet
    <3> QED  BY <1>10, <2>3, <3>1 DEF Get, Goto, ArmedInv, Covered
  <2>4. CASE stage # "none"
    BY <1>10, <2>1, <2>4 DEF Get, ArmedInv, MoveInv, Shut, Parked
  <2> QED  BY <1>0, <2>2, <2>3, <2>4
<1>11. ASSUME NEW w \in Waiter, SeqInc(w) PROVE ArmedInv'
  <2> SUFFICES ASSUME stage \in {"none", "test", "testWake"} PROVE Covered'
    BY <1>11 DEF SeqInc, ArmedInv
  <2>1. CASE ring_int = 0
    <3>1. res[w] \in {"ok", "busy"} /\ ~Terminal
      BY <1>11 DEF SeqInc, MoveInv, Terminal, Parked, TypeOK
    <3>2. CASE res[w] = "ok"
      BY <1>11, <2>1, <3>1, <3>2 DEF SeqInc, IrqGet, Covered
    <3>3. CASE res[w] = "busy"
      <4>1. delayed_irq' /\ work'
        BY <1>11, <2>1, <3>3 DEF SeqInc, IrqGet
      <4> QED  BY <4>1 DEF Covered
    <3> QED  BY <3>1, <3>2, <3>3
  <2>2. CASE ring_int > 0
    <3>1. (armed => armed') /\ (delayed_irq => delayed_irq') /\ (work => work')
      BY <1>11, <2>2 DEF SeqInc, IrqGet
    <3> QED  BY <1>11, <2>2, <3>1 DEF SeqInc, Goto, ArmedInv, Covered
  <2> QED  BY <1>0, <2>1, <2>2
<1>12. CASE Emit \/ Complete \/ WorkStart \/ WorkUnmask
  BY <1>12 DEF Emit, Complete, WorkStart, WorkUnmask, ArmedInv, Covered, MoveInv, Shut,
     Parked, Drained, LockInv, Enabling, Terminal, StateError, Admit, Goto, Stand
<1>13. CASE Close \/ PublishShut \/ Own \/ DrainDone \/ OwnerPolls \/ Resume \/ Finish
  BY <1>13 DEF Close, PublishShut, Own, DrainDone, OwnerPolls, Resume, Finish, ArmedInv,
     Covered, MoveInv, Shut, Parked, Drained, LockInv, Enabling, Terminal, StateError,
     Admit, Goto, Stand
<1>14. CASE Park \/ Uninstall \/ ClearDelayed \/ CancelWork
  BY <1>14 DEF Park, Uninstall, ClearDelayed, CancelWork, ArmedInv, Covered, MoveInv,
     Shut, Parked, Drained, LockInv, Enabling, Terminal, StateError, Admit, Goto, Stand
<1>15. ASSUME NEW w \in Waiter, AddCallback(w) PROVE ArmedInv'
  BY WaitAssumption, <1>15 DEF AddCallback, ArmedInv, Covered, MoveInv, Shut, Parked,
     Drained, LockInv, Enabling, Terminal, StateError, Admit, Goto, Stand, NoTask
<1>16. ASSUME NEW w \in Waiter, GetDelayed(w) PROVE ArmedInv'
  BY <1>0, <1>16 DEF GetDelayed, ArmedInv, Covered, MoveInv, Shut, Parked, Drained,
     LockInv, Enabling, Terminal, StateError, Admit, Goto, Stand
<1>17. ASSUME NEW w \in Waiter, Mark(w) PROVE ArmedInv'
  BY <1>17 DEF Mark, ArmedInv, Covered, MoveInv, Shut, Parked, Drained, LockInv,
     Enabling, Terminal, StateError, Admit, Goto, Stand
<1>18. ASSUME NEW w \in Waiter,
              Wait(w) \/ Check(w) \/ Woken(w) \/ Expire(w)
       PROVE  ArmedInv'
  BY <1>18 DEF Wait, Check, Woken, Expire, ArmedInv, Covered, MoveInv, Shut, Parked,
     Drained, LockInv, Enabling, Terminal, StateError, Admit, Goto, Stand
<1>19. ASSUME NEW w \in Waiter, SeqWait(w) \/ SeqGet(w) \/ SeqSignal(w) PROVE ArmedInv'
  BY <1>19 DEF SeqWait, SeqGet, SeqSignal, ArmedInv, Covered, MoveInv, Shut, Parked,
     Drained, LockInv, Enabling, Terminal, StateError, Admit, Goto, Stand
<1> QED
  BY <1>1, <1>2, <1>3, <1>4, <1>5, <1>6, <1>7, <1>8, <1>9, <1>10, <1>11, <1>12, <1>13,
     <1>14, <1>15, <1>16, <1>17, <1>18, <1>19
     DEF Next, Handler, Work, Move, Publish, Sleeping, Polling, Waiter

-----------------------------------------------------------------------------
(* The theorems *)

\* A step that changes nothing keeps the invariant.
LEMMA Stutter == ASSUME WaitInv, UNCHANGED vars PROVE WaitInv'
BY DEF vars, WaitInv, TypeOK, LockInv, FenceInv, CountInv, Holders, Users, MoveInv, Drained,
   Terminal, WakeInv, Coming, Passed, ArmedInv, Covered

\* The invariant holds however many tasks wait for however many fences.
THEOREM WaitInvariance == Spec => []WaitInv
<1>1. Init => WaitInv
  <2> SUFFICES ASSUME Init PROVE WaitInv
    OBVIOUS
  <2>1. N \in Nat \ {0} /\ MaxLockup \in Nat /\ MaxMove \in Nat /\ Cardinality(Waiter) \in Nat
    BY WaitAssumption, SetsFinite
  <2>2. Holders = {} /\ Users = {} /\ Cardinality({}) = 0
    BY FS_EmptySet DEF Init, Holders, Users
  <2>3. TypeOK
    <3>1. /\ sync_seq \in Fence /\ done \in 0 .. sync_seq /\ last_seq \in 0 .. done
          /\ ring_int \in 0 .. N + Cardinality(Waiter)
          /\ lockups \in 0 .. MaxLockup /\ moves \in 0 .. MaxMove
      BY <2>1 DEF Init, Fence
    <3> QED  BY <3>1 DEF Init, TypeOK, Stage
  <2>4. LockInv /\ FenceInv
    BY WaitAssumption DEF Init, LockInv, FenceInv, Enabling, NoTask, Publisher
  <2>5. CountInv
    BY <2>2 DEF Init, CountInv
  <2>6. MoveInv /\ WakeInv /\ ArmedInv
    BY DEF Init, MoveInv, Shut, Parked, WakeInv, Enabling, ArmedInv
  <2> QED  BY <2>3, <2>4, <2>5, <2>6 DEF WaitInv
<1>2. WaitInv /\ [Next]_vars => WaitInv'
  <2>1. ASSUME WaitInv, Next PROVE WaitInv'
    <3>1. CountInv'
      BY <2>1, CountStep
    <3>2. TypeOK'
      BY <2>1, <3>1, TypeStep
    <3> QED  BY <2>1, <3>1, <3>2, LockStep, FenceStep, MoveStep, WakeStep, ArmedStep DEF WaitInv
  <2> QED  BY <2>1, Stutter
<1> QED  BY <1>1, <1>2, PTL DEF Spec

\* radeon_irq_kms_sw_irq_get and _put balance: rdev->irq.ring_int counts the fences and the
\* tasks that hold a reference, none twice (radeon_fence.c:185-200, 552-612, 703-791).
THEOREM ReferencesBalance == Spec => []RefsBalance
<1>1. WaitInv => RefsBalance
  BY DEF WaitInv, CountInv, Holders, Users, RefsBalance
<1> QED  BY <1>1, WaitInvariance, PTL

\* Whoever publishes a sequence or the parked state also wakes the queue, and enabling a
\* fence's signalling never slips between the two (radeon_fence.c:555-612).
THEOREM AnswersArrive == Spec => []AnswerIsOnItsWay
<1>1. WaitInv => AnswerIsOnItsWay
  BY DEF WaitInv, WakeInv, Coming, AnswerIsOnItsWay
<1> QED  BY <1>1, WaitInvariance, PTL

\* A running device never has an interrupt that somebody waits for masked with nobody to
\* unmask it, whatever transition refused the access (radeon_fence.c:376-433, 581-587).
THEOREM DemandArmed == Spec => []DemandIsArmed
<1>1. WaitInv => DemandIsArmed
  BY DEF WaitInv, ArmedInv, Covered, MoveInv, DemandIsArmed
<1> QED  BY <1>1, WaitInvariance, PTL

\* Nothing but a wait that has time left signals a fence as done before the driver has
\* published it (radeon_fence.c:170-184, 257-284, 528-551).
THEOREM SignalsAreTrue == Spec => TruthfulSignal
<1> DEFINE True == \A f \in Fence : sig[f] = "no" /\ sig'[f] = "ok" =>
                     f <= last_seq' \/ \E w \in Waiter : SeqSignal(w)
<1>1. ASSUME WaitInv, Next PROVE True
  <2> USE DEF WaitInv, gpu, refs, fences, device, waiters, service
  <2>1. ASSUME NEW f \in Fence, Signaled(f) PROVE True
    BY <1>1, <2>1 DEF Signaled, Signal, Outcome, Passed, TypeOK
  <2>2. CASE HandleWake \/ WorkWake \/ OwnerWakes \/ LatchWake \/ ForceWake
    BY <1>1, <2>2, WakeFacts DEF HandleWake, WorkWake, OwnerWakes, LatchWake, ForceWake
  <2>3. ASSUME NEW w \in Waiter, SeqWake(w) PROVE True
    BY <1>1, <2>3, WakeFacts DEF SeqWake
  <2>4. ASSUME NEW w \in Waiter, AddCallback(w) \/ Queue(w) \/ Fail(w) PROVE True
    BY <1>1, <2>4 DEF AddCallback, Queue, Fail, Signal, Outcome, TypeOK
  <2>5. ASSUME NEW w \in Waiter, Poll(w) PROVE True
    <3> DEFINE seen == IF Progress THEN done ELSE last_seq
    <3>1. last_seq' = seen
      BY <1>1, <2>5, ActivityFacts DEF Poll
    <3>2. \A f \in Fence : sig[f] = "no" /\ sig'[f] = "ok" => f <= seen /\ ~Terminal
      BY <1>1, <2>5 DEF Poll, Signal, Outcome, TypeOK
    <3> QED  BY <3>1, <3>2
  <2>6. CASE \E w \in Waiter : SeqSignal(w)
    BY <2>6
  <2>7. CASE UNCHANGED sig
    BY <1>1, <2>7 DEF TypeOK
  <2>8. \/ UNCHANGED sig
        \/ \E w \in Waiter : \/ SeqWake(w) \/ AddCallback(w) \/ Queue(w)
                              \/ Fail(w) \/ Poll(w) \/ SeqSignal(w)
        \/ HandleWake \/ WorkWake \/ OwnerWakes \/ LatchWake \/ ForceWake
        \/ \E f \in Fence : Signaled(f)
    <3>1. ASSUME NEW w \in Waiter,
                 \/ Wait(w) \/ Get(w) \/ GetDelayed(w) \/ Mark(w) \/ Check(w) \/ Woken(w)
                 \/ Expire(w) \/ Leave(w) \/ SeqWait(w) \/ SeqTest(w) \/ SeqGet(w)
                 \/ SeqInc(w) \/ SeqLoop(w) \/ SeqPut(w)
          PROVE  UNCHANGED sig
      BY <3>1 DEF Wait, Get, GetDelayed, Mark, Check, Woken, Expire, Leave, SeqWait, SeqTest,
         SeqGet, SeqInc, SeqLoop, SeqPut
    <3>2. ASSUME \/ Emit \/ Complete \/ Handle \/ WorkStart \/ WorkUnmask \/ WorkPoll
                 \/ Close \/ PublishShut \/ Own \/ DrainDone \/ OwnerPolls \/ Resume
                 \/ Finish \/ Park \/ Uninstall \/ ClearDelayed \/ CancelWork
          PROVE  UNCHANGED sig
      BY <3>2 DEF Emit, Complete, Handle, WorkStart, WorkUnmask, WorkPoll, Close, PublishShut,
         Own, DrainDone, OwnerPolls, Resume, Finish, Park, Uninstall, ClearDelayed, CancelWork
    <3> QED  BY <1>1, <3>1, <3>2
             DEF Next, Handler, Work, Move, Publish, Sleeping, Polling, Waiter
  <2> QED  BY <2>1, <2>2, <2>3, <2>4, <2>5, <2>6, <2>7, <2>8
<1>2. WaitInv /\ [Next]_vars => [True]_vars
  BY <1>1
<1> QED  BY <1>2, WaitInvariance, PTL DEF Spec, TruthfulSignal
=============================================================================
