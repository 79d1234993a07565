----------------------- MODULE HardwareAdmissionProofs -----------------------
(***************************************************************************)
(* Proofs that the admission protocol keeps its inductive invariant, and   *)
(* so its types and the exclusive ownership of a transition, and of what   *)
(* the invariant makes possible: a parked device is closed, a device that  *)
(* is off or contained is in nobody's hands, the publisher serves its      *)
(* requests, no wake-up is missed, and the protocol implements the lease   *)
(* it promises.  For any number of tasks making any of the calls, nested   *)
(* to any depth.                                                           *)
(***************************************************************************)
EXTENDS HardwareAdmissionInv, FiniteSetTheorems, TLAPS

------------------------------------------------------------------------------
\* Counting leases.

\* A counter's leases form a finite set.
LEMMA LeasesFinite ==
    ASSUME NEW n \in Nat, NEW f \in [Actor -> 0..n]
    PROVE  IsFiniteSet(Leases(f, n))
<1>1. IsFiniteSet(Actor)
  <2>1. IsFiniteSet(Task)
    BY AdmissionAssumption
  <2> QED
    BY <2>1, FS_AddElement DEF Actor
<1>2. IsFiniteSet(1..n)
  BY FS_Interval
<1>3. IsFiniteSet(Actor \X (1..n))
  BY <1>1, <1>2, FS_Product
<1>4. Leases(f, n) \in SUBSET (Actor \X (1..n))
  BY DEF Leases
<1> QED
  BY <1>3, <1>4, FS_Subset

\* An increment adds one lease.
LEMMA LeasesInc ==
    ASSUME NEW n \in Nat, NEW f \in [Actor -> 0..n], NEW a \in Actor, f[a] < n
    PROVE  Cardinality(Leases([f EXCEPT ![a] = @ + 1], n))
             = Cardinality(Leases(f, n)) + 1
<1> DEFINE g == [f EXCEPT ![a] = @ + 1]
<1>1. f[a] \in 0..n /\ f[a] + 1 \in 1..n
  OBVIOUS
<1>2. Leases(g, n) = Leases(f, n) \cup {<<a, f[a] + 1>>}
  <2>1. ASSUME NEW b \in Actor, NEW i \in 1..n
        PROVE  i <= g[b] <=> i <= f[b] \/ (b = a /\ i = f[a] + 1)
    BY <1>1
  <2>2. \A p \in Actor \X (1..n) : p[1] \in Actor /\ p[2] \in 1..n /\ p = <<p[1], p[2]>>
    OBVIOUS
  <2>3. <<a, f[a] + 1>> \in Actor \X (1..n)
    BY <1>1
  <2>4. \A p \in Actor \X (1..n) :
          p[2] <= g[p[1]] <=> p[2] <= f[p[1]] \/ p = <<a, f[a] + 1>>
    BY <2>1, <2>2
  <2> QED
    BY <2>3, <2>4 DEF Leases
<1>3. <<a, f[a] + 1>> \notin Leases(f, n)
  BY <1>1 DEF Leases
<1> QED
  BY <1>2, <1>3, LeasesFinite, FS_AddElement

\* A decrement removes one lease, so there was at least one.
LEMMA LeasesDec ==
    ASSUME NEW n \in Nat, NEW f \in [Actor -> 0..n], NEW a \in Actor, f[a] > 0
    PROVE  /\ Cardinality(Leases(f, n)) \in Nat \ {0}
           /\ Cardinality(Leases([f EXCEPT ![a] = @ - 1], n))
                = Cardinality(Leases(f, n)) - 1
<1> DEFINE g == [f EXCEPT ![a] = @ - 1]
<1>1. g \in [Actor -> 0..n] /\ g[a] = f[a] - 1 /\ g[a] < n
  OBVIOUS
<1>2. f = [g EXCEPT ![a] = @ + 1]
  <2> DEFINE h == [g EXCEPT ![a] = @ + 1]
  <2>1. h = [b \in Actor |-> h[b]] /\ f = [b \in Actor |-> f[b]]
    OBVIOUS
  <2>2. \A b \in Actor : h[b] = f[b]
    BY <1>1
  <2> QED
    BY <2>1, <2>2
<1>3. Cardinality(Leases(f, n)) = Cardinality(Leases(g, n)) + 1
  BY <1>1, <1>2, LeasesInc
<1>4. Cardinality(Leases(g, n)) \in Nat
  BY <1>1, LeasesFinite, FS_CardinalityType
<1> QED
  BY <1>3, <1>4

\* A counter that reads zero counts nobody.
LEMMA LeasesZero ==
    ASSUME NEW n \in Nat, NEW f \in [Actor -> 0..n],
           Cardinality(Leases(f, n)) = 0
    PROVE  \A a \in Actor : f[a] = 0
<1> SUFFICES ASSUME NEW a \in Actor, f[a] # 0
             PROVE  FALSE
  OBVIOUS
<1>1. f[a] > 0
  OBVIOUS
<1> QED
  BY <1>1, LeasesDec

\* Nobody has counted anything at the start.
LEMMA LeasesNone ==
    ASSUME NEW n \in Nat
    PROVE  Cardinality(Leases([a \in Actor |-> 0], n)) = 0
<1>1. Leases([a \in Actor |-> 0], n) = {}
  BY DEF Leases
<1> QED
  BY <1>1, FS_EmptySet

\* Whoever has counted something is counted, so a zero counter counts nobody.
LEMMA CountedActors ==
    ASSUME TypeOK, Counted
    PROVE  \A a \in Actor : /\ tx[a] > 0 <=> tx[a] # 0
                            /\ rd[a] > 0 <=> rd[a] # 0
                            /\ tx[a] > 0 => transactions > 0
                            /\ rd[a] > 0 => readers > 0
<1> SUFFICES ASSUME NEW a \in Actor
             PROVE  /\ tx[a] > 0 <=> tx[a] # 0
                    /\ rd[a] > 0 <=> rd[a] # 0
                    /\ tx[a] > 0 => transactions > 0
                    /\ rd[a] > 0 => readers > 0
  OBVIOUS
<1>1. /\ MaxTx \in Nat /\ tx \in [Actor -> 0..MaxTx]
      /\ MaxRd \in Nat /\ rd \in [Actor -> 0..MaxRd]
      /\ transactions = Cardinality(Leases(tx, MaxTx))
      /\ readers = Cardinality(Leases(rd, MaxRd))
  BY AdmissionAssumption DEF TypeOK, Counted
<1>2. ASSUME tx[a] > 0 PROVE transactions > 0
  <2>1. Cardinality(Leases(tx, MaxTx)) \in Nat \ {0}
    BY <1>1, <1>2, LeasesDec
  <2> QED
    BY <1>1, <2>1
<1>3. ASSUME rd[a] > 0 PROVE readers > 0
  <2>1. Cardinality(Leases(rd, MaxRd)) \in Nat \ {0}
    BY <1>1, <1>3, LeasesDec
  <2> QED
    BY <1>1, <2>1
<1> QED
  BY <1>1, <1>2, <1>3

\* Whatever an actor does to a counter, it does to its own count as well.
LEMMA CountersMove ==
    ASSUME TypeOK, Counted, NEW t \in Actor
    PROVE  /\ UNCHANGED counts => Counted'
           /\ /\ rd[t] < MaxRd
              /\ readers' = readers + 1 /\ rd' = [rd EXCEPT ![t] = @ + 1]
              /\ UNCHANGED <<transactions, tx>>
              => Counted'
           /\ rd[t] > 0 /\ ReaderDec(t) => Counted'
           /\ /\ tx[t] < MaxTx
              /\ transactions' = transactions + 1 /\ tx' = [tx EXCEPT ![t] = @ + 1]
              /\ UNCHANGED <<readers, rd>>
              => Counted'
           /\ tx[t] > 0 /\ TxDec(t) => Counted'
<1>1. /\ MaxTx \in Nat /\ tx \in [Actor -> 0..MaxTx]
      /\ MaxRd \in Nat /\ rd \in [Actor -> 0..MaxRd]
  BY AdmissionAssumption DEF TypeOK
<1>2. UNCHANGED counts => Counted'
  BY DEF counts, Counted
<1>3. ASSUME rd[t] < MaxRd, readers' = readers + 1, rd' = [rd EXCEPT ![t] = @ + 1],
             UNCHANGED <<transactions, tx>>
      PROVE  Counted'
  <2>1. Cardinality(Leases([rd EXCEPT ![t] = @ + 1], MaxRd))
          = Cardinality(Leases(rd, MaxRd)) + 1
    BY <1>1, <1>3, LeasesInc
  <2> QED
    BY <1>3, <2>1 DEF Counted
<1>4. ASSUME rd[t] > 0, ReaderDec(t) PROVE Counted'
  <2>1. Cardinality(Leases([rd EXCEPT ![t] = @ - 1], MaxRd))
          = Cardinality(Leases(rd, MaxRd)) - 1
    BY <1>1, <1>4, LeasesDec
  <2> QED
    BY <1>4, <2>1 DEF Counted, ReaderDec
<1>5. ASSUME tx[t] < MaxTx, transactions' = transactions + 1,
             tx' = [tx EXCEPT ![t] = @ + 1], UNCHANGED <<readers, rd>>
      PROVE  Counted'
  <2>1. Cardinality(Leases([tx EXCEPT ![t] = @ + 1], MaxTx))
          = Cardinality(Leases(tx, MaxTx)) + 1
    BY <1>1, <1>5, LeasesInc
  <2> QED
    BY <1>5, <2>1 DEF Counted
<1>6. ASSUME tx[t] > 0, TxDec(t) PROVE Counted'
  <2>1. Cardinality(Leases([tx EXCEPT ![t] = @ - 1], MaxTx))
          = Cardinality(Leases(tx, MaxTx)) - 1
    BY <1>1, <1>6, LeasesDec
  <2> QED
    BY <1>6, <2>1 DEF Counted, TxDec
<1> QED
  BY <1>2, <1>3, <1>4, <1>5, <1>6


------------------------------------------------------------------------------
\* One lemma per part of the invariant, one step per group of actions, and per
\* action where the group needs more than its definitions.

\* The flags of the device stay Boolean.
LEMMA FlagStep ==
    ASSUME TypeOK, InCalls, WorkerPublishes, Next
    PROVE  FlagsOK'
<1> USE AdmissionAssumption DEF Step, Goto, Finish, Refuse, WaitEvent,
   WakeAll, Begins, Idle, gate, counts, locks, work, hardware, shared, local,
   TypeOK, FlagsOK
<1>1. ASSUME NEW t \in Task, Start(t) PROVE FlagsOK'
  BY <1>1 DEF Start, AccessBegin, TransactionBegin, TransitionBegin, Latch
<1>2. ASSUME NEW t \in Task, AccessStep(t) PROVE FlagsOK'
  BY <1>2 DEF AccessStep, ReaderCheck, ReaderInc, ReaderReread,
     ReaderValidate, ReaderUndo, ReaderDec, DispositionWait
<1>3. ASSUME NEW t \in Task, TransactionStep(t) PROVE FlagsOK'
  BY <1>3 DEF TransactionStep, TxCheck, TxClosing, TxInc, TxReread,
     TxValidate, TxUndo, TxDec
<1>4. ASSUME NEW t \in Task, TransitionStep(t) PROVE FlagsOK'
  <2>1. CASE TransitionClose(t)
    BY <2>1 DEF TransitionClose
  <2>2. CASE \/ TransitionLock(t) \/ TransitionCheck(t) \/ TransitionDrainTx(t)
             \/ TransitionParked(t) \/ TransitionRefuse(t) \/ TransitionDrainRefused(t)
    BY <2>2 DEF TransitionLock, TransitionCheck, TransitionDrainTx,
       TransitionParked, TransitionRefuse, PublishParked, TransitionDrainRefused
  <2>3. CASE \/ TransitionOwn(t) \/ TransitionPublish(t) \/ TransitionDrainRd(t)
             \/ TransitionConfirm(t) \/ TransitionWithdraw(t)
    BY <2>3 DEF TransitionOwn, TransitionPublish, TransitionDrainRd,
       TransitionConfirm, TransitionWithdraw, PublishParked
  <2>4. CASE TransitionDisown(t) \/ TransitionUnlock(t)
    BY <2>4 DEF TransitionDisown, TransitionUnlock
  <2> QED
    BY <1>4, <2>1, <2>2, <2>3, <2>4 DEF TransitionStep
<1>5. ASSUME NEW t \in Task, EndStep(t) PROVE FlagsOK'
  BY <1>5 DEF EndStep, EndDrain, EndDisown, EndState, EndClosing, EndUnlock,
     QuiesceDisable, QuiesceSync
<1>6. ASSUME NEW t \in Task, AccessEnd(t) PROVE FlagsOK'
  BY <1>6 DEF AccessEnd, ReaderDec
<1>7. ASSUME NEW t \in Task, TransactionEnd(t) PROVE FlagsOK'
  BY <1>7 DEF TransactionEnd, TxDec
<1>8. ASSUME NEW t \in Task, EndTransition(t) PROVE FlagsOK'
  BY <1>8 DEF EndTransition, TransitionEnd
<1>9. ASSUME NEW a \in Actor, PublishStep(a) PROVE FlagsOK'
  BY <1>9 DEF PublishStep, LatchParked, LatchClosing, LatchState,
     PublishParked, LatchPending, PublishLock, PublishPubLock, PublishDrain,
     PublishContain, PublishUnlock, QueueFlags, QueueCheckReturns,
     QueueTransactions
<1>10. ASSUME WorkerStep PROVE FlagsOK'
  BY <1>10 DEF WorkerStep, WorkerStart, WorkerInit, WorkerClear, WorkerDone
<1> QED
  BY <1>1, <1>2, <1>3, <1>4, <1>5, <1>6, <1>7, <1>8, <1>9, <1>10 DEF Next,
     Continue

\* Every variable keeps its type: no counter is decremented below zero.
LEMMA TypeStep ==
    ASSUME TypeOK, InCalls, WorkerPublishes, Counted, FlagsOK', Next
    PROVE  TypeOK'
<1> USE AdmissionAssumption DEF Step, Goto, Finish, Refuse, WaitEvent,
   WakeAll, Begins, Idle, gate, counts, locks, work, hardware, shared, local,
   TypeOK, Pc, HwState, Calls, TrPc, TePc, RdPc, TxPc, LaPc, PpPc, QcPc, WkPc,
   TqPc, Actor, Lifecycle, InCalls, InCall, Expected, Closed, PublishedState,
   WorkerPublishes, Finals
<1>1. ASSUME NEW t \in Task, Start(t) PROVE TypeOK'
  BY <1>1 DEF Start, AccessBegin, TransactionBegin, TransitionBegin, Latch
<1>2. ASSUME NEW t \in Task, AccessStep(t) PROVE TypeOK'
  <2>1. CASE ReaderCheck(t)
    BY <2>1 DEF ReaderCheck
  <2>2. CASE ReaderInc(t)
    BY <2>2 DEF ReaderInc
  <2>3. CASE ReaderReread(t)
    BY <2>3 DEF ReaderReread
  <2>4. CASE ReaderValidate(t)
    BY <2>4 DEF ReaderValidate
  <2>5. CASE ReaderUndo(t)
    BY <2>5, CountedActors DEF ReaderUndo, ReaderDec
  <2>6. CASE DispositionWait(t)
    BY <2>6 DEF DispositionWait
  <2> QED
    BY <1>2, <2>1, <2>2, <2>3, <2>4, <2>5, <2>6 DEF AccessStep
<1>3. ASSUME NEW t \in Task, TransactionStep(t) PROVE TypeOK'
  <2>1. CASE TxCheck(t)
    BY <2>1 DEF TxCheck
  <2>2. CASE TxClosing(t)
    BY <2>2 DEF TxClosing
  <2>3. CASE TxInc(t)
    BY <2>3 DEF TxInc
  <2>4. CASE TxReread(t)
    BY <2>4 DEF TxReread
  <2>5. CASE TxValidate(t)
    BY <2>5 DEF TxValidate
  <2>6. CASE TxUndo(t)
    BY <2>6, CountedActors DEF TxUndo, TxDec
  <2> QED
    BY <1>3, <2>1, <2>2, <2>3, <2>4, <2>5, <2>6 DEF TransactionStep
<1>4. ASSUME NEW t \in Task, TransitionStep(t) PROVE TypeOK'
  <2>1. CASE TransitionLock(t)
    BY <2>1 DEF TransitionLock
  <2>2. CASE TransitionCheck(t)
    BY <2>2 DEF TransitionCheck
  <2>3. CASE TransitionClose(t)
    BY <2>3 DEF TransitionClose
  <2>4. CASE TransitionDrainTx(t)
    BY <2>4 DEF TransitionDrainTx
  <2>5. CASE TransitionParked(t)
    BY <2>5 DEF TransitionParked
  <2>6. CASE TransitionRefuse(t)
    BY <2>6 DEF TransitionRefuse, PublishParked
  <2>7. CASE TransitionDrainRefused(t)
    BY <2>7 DEF TransitionDrainRefused
  <2>8. CASE TransitionOwn(t)
    BY <2>8 DEF TransitionOwn
  <2>9. CASE TransitionPublish(t)
    BY <2>9 DEF TransitionPublish
  <2>10. CASE TransitionDrainRd(t)
    BY <2>10 DEF TransitionDrainRd
  <2>11. CASE TransitionConfirm(t)
    BY <2>11 DEF TransitionConfirm
  <2>12. CASE TransitionWithdraw(t)
    BY <2>12 DEF TransitionWithdraw, PublishParked
  <2>13. CASE TransitionDisown(t)
    BY <2>13 DEF TransitionDisown
  <2>14. CASE TransitionUnlock(t)
    BY <2>14 DEF TransitionUnlock
  <2> QED
    BY <1>4, <2>1, <2>2, <2>3, <2>4, <2>5, <2>6, <2>7, <2>8, <2>9, <2>10,
       <2>11, <2>12, <2>13, <2>14 DEF TransitionStep
<1>5. ASSUME NEW t \in Task, EndStep(t) PROVE TypeOK'
  <2>1. CASE EndDrain(t)
    BY <2>1 DEF EndDrain
  <2>2. CASE EndDisown(t)
    BY <2>2 DEF EndDisown
  <2>3. CASE EndState(t)
    BY <2>3 DEF EndState
  <2>4. CASE EndClosing(t)
    BY <2>4 DEF EndClosing
  <2>5. CASE EndUnlock(t)
    BY <2>5 DEF EndUnlock
  <2>6. CASE QuiesceDisable(t)
    BY <2>6 DEF QuiesceDisable
  <2>7. CASE QuiesceSync(t)
    BY <2>7 DEF QuiesceSync
  <2> QED
    BY <1>5, <2>1, <2>2, <2>3, <2>4, <2>5, <2>6, <2>7 DEF EndStep
<1>6. ASSUME NEW t \in Task, AccessEnd(t) PROVE TypeOK'
  BY <1>6, CountedActors DEF AccessEnd, ReaderDec
<1>7. ASSUME NEW t \in Task, TransactionEnd(t) PROVE TypeOK'
  BY <1>7, CountedActors DEF TransactionEnd, TxDec
<1>8. ASSUME NEW t \in Task, EndTransition(t) PROVE TypeOK'
  BY <1>8 DEF EndTransition, TransitionEnd
<1>9. ASSUME NEW a \in Actor, PublishStep(a) PROVE TypeOK'
  BY <1>9 DEF PublishStep, LatchParked, LatchClosing, LatchState,
     PublishParked, LatchPending, PublishLock, PublishPubLock, PublishDrain,
     PublishContain, PublishUnlock, QueueFlags, QueueCheckReturns,
     QueueTransactions
<1>10. ASSUME WorkerStep PROVE TypeOK'
  BY <1>10 DEF WorkerStep, WorkerStart, WorkerInit, WorkerClear, WorkerDone
<1> QED
  BY <1>1, <1>2, <1>3, <1>4, <1>5, <1>6, <1>7, <1>8, <1>9, <1>10 DEF Next,
     Continue

\* Each call keeps to its own code and its counters to their room.
LEMMA InCallStep ==
    ASSUME TypeOK, InCalls, WorkerPublishes, Next
    PROVE  InCalls'
<1> USE AdmissionAssumption DEF Step, Goto, Finish, Refuse, WaitEvent,
   WakeAll, Begins, Idle, gate, counts, locks, work, hardware, shared, local,
   TypeOK, InCalls, InCall, Lifecycle, WorkerPublishes, TrPc, TePc, RdPc,
   TxPc, LaPc, PpPc, QcPc, WkPc, TqPc, Actor
<1>1. ASSUME NEW t \in Task, Start(t) PROVE InCalls'
  BY <1>1 DEF Start, AccessBegin, TransactionBegin, TransitionBegin, Latch
<1>2. ASSUME NEW t \in Task, AccessStep(t) PROVE InCalls'
  <2>1. CASE ReaderCheck(t)
    BY <2>1 DEF ReaderCheck
  <2>2. CASE ReaderInc(t)
    BY <2>2 DEF ReaderInc
  <2>3. CASE ReaderReread(t)
    BY <2>3 DEF ReaderReread
  <2>4. CASE ReaderValidate(t)
    BY <2>4 DEF ReaderValidate
  <2>5. CASE ReaderUndo(t)
    BY <2>5 DEF ReaderUndo, ReaderDec
  <2>6. CASE DispositionWait(t)
    BY <2>6 DEF DispositionWait
  <2> QED
    BY <1>2, <2>1, <2>2, <2>3, <2>4, <2>5, <2>6 DEF AccessStep
<1>3. ASSUME NEW t \in Task, TransactionStep(t) PROVE InCalls'
  BY <1>3 DEF TransactionStep, TxCheck, TxClosing, TxInc, TxReread,
     TxValidate, TxUndo, TxDec
<1>4. ASSUME NEW t \in Task, TransitionStep(t) PROVE InCalls'
  <2>1. CASE TransitionLock(t)
    BY <2>1 DEF TransitionLock
  <2>2. CASE TransitionCheck(t)
    BY <2>2 DEF TransitionCheck
  <2>3. CASE TransitionClose(t)
    BY <2>3 DEF TransitionClose
  <2>4. CASE TransitionDrainTx(t)
    BY <2>4 DEF TransitionDrainTx
  <2>5. CASE TransitionParked(t)
    BY <2>5 DEF TransitionParked
  <2>6. CASE TransitionRefuse(t)
    BY <2>6 DEF TransitionRefuse, PublishParked
  <2>7. CASE TransitionDrainRefused(t)
    BY <2>7 DEF TransitionDrainRefused
  <2>8. CASE TransitionOwn(t)
    BY <2>8 DEF TransitionOwn
  <2>9. CASE TransitionPublish(t)
    BY <2>9 DEF TransitionPublish
  <2>10. CASE TransitionDrainRd(t)
    BY <2>10 DEF TransitionDrainRd
  <2>11. CASE TransitionConfirm(t)
    BY <2>11 DEF TransitionConfirm
  <2>12. CASE TransitionWithdraw(t)
    BY <2>12 DEF TransitionWithdraw, PublishParked
  <2>13. CASE TransitionDisown(t)
    BY <2>13 DEF TransitionDisown
  <2>14. CASE TransitionUnlock(t)
    BY <2>14 DEF TransitionUnlock
  <2> QED
    BY <1>4, <2>1, <2>2, <2>3, <2>4, <2>5, <2>6, <2>7, <2>8, <2>9, <2>10,
       <2>11, <2>12, <2>13, <2>14 DEF TransitionStep
<1>5. ASSUME NEW t \in Task, EndStep(t) PROVE InCalls'
  <2>1. CASE EndDrain(t)
    BY <2>1 DEF EndDrain
  <2>2. CASE EndDisown(t)
    BY <2>2 DEF EndDisown
  <2>3. CASE EndState(t)
    BY <2>3 DEF EndState
  <2>4. CASE EndClosing(t)
    BY <2>4 DEF EndClosing
  <2>5. CASE EndUnlock(t)
    BY <2>5 DEF EndUnlock
  <2>6. CASE QuiesceDisable(t)
    BY <2>6 DEF QuiesceDisable
  <2>7. CASE QuiesceSync(t)
    BY <2>7 DEF QuiesceSync
  <2> QED
    BY <1>5, <2>1, <2>2, <2>3, <2>4, <2>5, <2>6, <2>7 DEF EndStep
<1>6. ASSUME NEW t \in Task, AccessEnd(t) PROVE InCalls'
  BY <1>6 DEF AccessEnd, ReaderDec
<1>7. ASSUME NEW t \in Task, TransactionEnd(t) PROVE InCalls'
  BY <1>7 DEF TransactionEnd, TxDec
<1>8. ASSUME NEW t \in Task, EndTransition(t) PROVE InCalls'
  BY <1>8 DEF EndTransition, TransitionEnd
<1>9. ASSUME NEW a \in Actor, PublishStep(a) PROVE InCalls'
  BY <1>9 DEF PublishStep, LatchParked, LatchClosing, LatchState,
     PublishParked, LatchPending, PublishLock, PublishPubLock, PublishDrain,
     PublishContain, PublishUnlock, QueueFlags, QueueCheckReturns,
     QueueTransactions
<1>10. ASSUME WorkerStep PROVE InCalls'
  BY <1>10 DEF WorkerStep, WorkerStart, WorkerInit, WorkerClear, WorkerDone
<1> QED
  BY <1>1, <1>2, <1>3, <1>4, <1>5, <1>6, <1>7, <1>8, <1>9, <1>10 DEF Next,
     Continue

\* The kworker takes part in nothing but publications.
LEMMA WorkerKeepsStep ==
    ASSUME TypeOK, InCalls, WorkerPublishes, Next
    PROVE  WorkerPublishes'
<1> USE AdmissionAssumption DEF Step, Goto, Finish, Refuse, WaitEvent,
   WakeAll, Begins, Idle, gate, counts, locks, work, hardware, shared, local,
   TypeOK, InCalls, InCall, Lifecycle, WorkerPublishes, TrPc, TePc, RdPc,
   TxPc, LaPc, PpPc, QcPc, WkPc, TqPc, Actor
<1>1. ASSUME NEW t \in Task, Start(t) PROVE WorkerPublishes'
  BY <1>1 DEF Start, AccessBegin, TransactionBegin, TransitionBegin, Latch
<1>2. ASSUME NEW t \in Task, AccessStep(t) PROVE WorkerPublishes'
  BY <1>2 DEF AccessStep, ReaderCheck, ReaderInc, ReaderReread,
     ReaderValidate, ReaderUndo, ReaderDec, DispositionWait
<1>3. ASSUME NEW t \in Task, TransactionStep(t) PROVE WorkerPublishes'
  BY <1>3 DEF TransactionStep, TxCheck, TxClosing, TxInc, TxReread,
     TxValidate, TxUndo, TxDec
<1>4. ASSUME NEW t \in Task, TransitionStep(t) PROVE WorkerPublishes'
  BY <1>4 DEF TransitionStep, TransitionLock, TransitionCheck,
     TransitionClose, TransitionDrainTx, TransitionParked, TransitionRefuse,
     PublishParked, TransitionDrainRefused, TransitionOwn, TransitionPublish,
     TransitionDrainRd, TransitionConfirm, TransitionWithdraw,
     TransitionDisown, TransitionUnlock
<1>5. ASSUME NEW t \in Task, EndStep(t) PROVE WorkerPublishes'
  BY <1>5 DEF EndStep, EndDrain, EndDisown, EndState, EndClosing, EndUnlock,
     QuiesceDisable, QuiesceSync
<1>6. ASSUME NEW t \in Task, AccessEnd(t) PROVE WorkerPublishes'
  BY <1>6 DEF AccessEnd, ReaderDec
<1>7. ASSUME NEW t \in Task, TransactionEnd(t) PROVE WorkerPublishes'
  BY <1>7 DEF TransactionEnd, TxDec
<1>8. ASSUME NEW t \in Task, EndTransition(t) PROVE WorkerPublishes'
  BY <1>8 DEF EndTransition, TransitionEnd
<1>9. ASSUME NEW a \in Actor, PublishStep(a) PROVE WorkerPublishes'
  BY <1>9 DEF PublishStep, LatchParked, LatchClosing, LatchState,
     PublishParked, LatchPending, PublishLock, PublishPubLock, PublishDrain,
     PublishContain, PublishUnlock, QueueFlags, QueueCheckReturns,
     QueueTransactions
<1>10. ASSUME WorkerStep PROVE WorkerPublishes'
  BY <1>10 DEF WorkerStep, WorkerStart, WorkerInit, WorkerClear, WorkerDone
<1> QED
  BY <1>1, <1>2, <1>3, <1>4, <1>5, <1>6, <1>7, <1>8, <1>9, <1>10 DEF Next,
     Continue

\* The transition lock and the owner follow from where the actors are.
LEMMA LocksStep ==
    ASSUME TypeOK, InCalls, WorkerPublishes, LocksFollowPc, Next
    PROVE  LocksFollowPc'
<1> USE AdmissionAssumption DEF Step, Goto, Finish, Refuse, WaitEvent,
   WakeAll, Begins, Idle, gate, counts, locks, work, hardware, shared, local,
   TypeOK, LocksFollowPc, HoldsTrLock, InTransition, Owns, OwnerCalls,
   InCalls, InCall, Lifecycle, WorkerPublishes, TrPc, TePc, RdPc, TxPc, LaPc,
   PpPc, QcPc, WkPc, TqPc, Actor
<1>1. ASSUME NEW t \in Task, Start(t) PROVE LocksFollowPc'
  BY <1>1 DEF Start, AccessBegin, TransactionBegin, TransitionBegin, Latch
<1>2. ASSUME NEW t \in Task, AccessStep(t) PROVE LocksFollowPc'
  BY <1>2 DEF AccessStep, ReaderCheck, ReaderInc, ReaderReread,
     ReaderValidate, ReaderUndo, ReaderDec, DispositionWait
<1>3. ASSUME NEW t \in Task, TransactionStep(t) PROVE LocksFollowPc'
  BY <1>3 DEF TransactionStep, TxCheck, TxClosing, TxInc, TxReread,
     TxValidate, TxUndo, TxDec
<1>4. ASSUME NEW t \in Task, TransitionStep(t) PROVE LocksFollowPc'
  <2>1. CASE TransitionLock(t)
    BY <2>1 DEF TransitionLock
  <2>2. CASE TransitionCheck(t)
    BY <2>2 DEF TransitionCheck
  <2>3. CASE TransitionClose(t)
    BY <2>3 DEF TransitionClose
  <2>4. CASE TransitionDrainTx(t)
    BY <2>4 DEF TransitionDrainTx
  <2>5. CASE TransitionParked(t)
    BY <2>5 DEF TransitionParked
  <2>6. CASE TransitionRefuse(t)
    BY <2>6 DEF TransitionRefuse, PublishParked
  <2>7. CASE TransitionDrainRefused(t)
    BY <2>7 DEF TransitionDrainRefused
  <2>8. CASE TransitionOwn(t)
    BY <2>8 DEF TransitionOwn
  <2>9. CASE TransitionPublish(t)
    BY <2>9 DEF TransitionPublish
  <2>10. CASE TransitionDrainRd(t)
    BY <2>10 DEF TransitionDrainRd
  <2>11. CASE TransitionConfirm(t)
    BY <2>11 DEF TransitionConfirm
  <2>12. CASE TransitionWithdraw(t)
    BY <2>12 DEF TransitionWithdraw, PublishParked
  <2>13. CASE TransitionDisown(t)
    BY <2>13 DEF TransitionDisown
  <2>14. CASE TransitionUnlock(t)
    BY <2>14 DEF TransitionUnlock
  <2> QED
    BY <1>4, <2>1, <2>2, <2>3, <2>4, <2>5, <2>6, <2>7, <2>8, <2>9, <2>10,
       <2>11, <2>12, <2>13, <2>14 DEF TransitionStep
<1>5. ASSUME NEW t \in Task, EndStep(t) PROVE LocksFollowPc'
  <2>1. CASE EndDrain(t)
    BY <2>1 DEF EndDrain
  <2>2. CASE EndDisown(t)
    BY <2>2 DEF EndDisown
  <2>3. CASE EndState(t)
    BY <2>3 DEF EndState
  <2>4. CASE EndClosing(t)
    BY <2>4 DEF EndClosing
  <2>5. CASE EndUnlock(t)
    BY <2>5 DEF EndUnlock
  <2>6. CASE QuiesceDisable(t)
    BY <2>6 DEF QuiesceDisable
  <2>7. CASE QuiesceSync(t)
    BY <2>7 DEF QuiesceSync
  <2> QED
    BY <1>5, <2>1, <2>2, <2>3, <2>4, <2>5, <2>6, <2>7 DEF EndStep
<1>6. ASSUME NEW t \in Task, AccessEnd(t) PROVE LocksFollowPc'
  BY <1>6 DEF AccessEnd, ReaderDec
<1>7. ASSUME NEW t \in Task, TransactionEnd(t) PROVE LocksFollowPc'
  BY <1>7 DEF TransactionEnd, TxDec
<1>8. ASSUME NEW t \in Task, EndTransition(t) PROVE LocksFollowPc'
  BY <1>8 DEF EndTransition, TransitionEnd
<1>9. ASSUME NEW a \in Actor, PublishStep(a) PROVE LocksFollowPc'
  <2>1. CASE LatchParked(a)
    BY <2>1 DEF LatchParked
  <2>2. CASE LatchClosing(a)
    BY <2>2 DEF LatchClosing
  <2>3. CASE LatchState(a)
    BY <2>3 DEF LatchState, PublishParked
  <2>4. CASE LatchPending(a)
    BY <2>4 DEF LatchPending
  <2>5. CASE PublishLock(a)
    BY <2>5 DEF PublishLock
  <2>6. CASE PublishPubLock(a)
    BY <2>6 DEF PublishPubLock
  <2>7. CASE PublishDrain(a)
    BY <2>7 DEF PublishDrain
  <2>8. CASE PublishContain(a)
    BY <2>8 DEF PublishContain
  <2>9. CASE PublishUnlock(a)
    BY <2>9 DEF PublishUnlock
  <2>10. CASE QueueFlags(a)
    BY <2>10 DEF QueueFlags, QueueCheckReturns
  <2>11. CASE QueueTransactions(a)
    BY <2>11 DEF QueueTransactions, QueueCheckReturns
  <2> QED
    BY <1>9, <2>1, <2>2, <2>3, <2>4, <2>5, <2>6, <2>7, <2>8, <2>9, <2>10,
       <2>11 DEF PublishStep
<1>10. ASSUME WorkerStep PROVE LocksFollowPc'
  BY <1>10 DEF WorkerStep, WorkerStart, WorkerInit, WorkerClear, WorkerDone
<1> QED
  BY <1>1, <1>2, <1>3, <1>4, <1>5, <1>6, <1>7, <1>8, <1>9, <1>10 DEF Next,
     Continue

\* The counters stay exact.
LEMMA CountedStep ==
    ASSUME TypeOK, InCalls, WorkerPublishes, Counted, Next
    PROVE  Counted'
<1> USE AdmissionAssumption DEF Step, Goto, Finish, Refuse, WaitEvent,
   WakeAll, Begins, Idle, gate, counts, locks, work, hardware, shared, local,
   InCalls, InCall, Actor
<1>1. ASSUME NEW t \in Task, Start(t) PROVE Counted'
  BY <1>1, CountersMove DEF Start, AccessBegin, TransactionBegin,
     TransitionBegin, Latch
<1>2. ASSUME NEW t \in Task, AccessStep(t) PROVE Counted'
  <2>1. CASE ReaderCheck(t)
    BY <2>1, CountersMove DEF ReaderCheck
  <2>2. CASE ReaderInc(t)
    BY <2>2, CountersMove DEF ReaderInc
  <2>3. CASE ReaderReread(t)
    BY <2>3, CountersMove DEF ReaderReread
  <2>4. CASE ReaderValidate(t)
    BY <2>4, CountersMove DEF ReaderValidate
  <2>5. CASE ReaderUndo(t)
    BY <2>5, CountersMove DEF ReaderUndo
  <2>6. CASE DispositionWait(t)
    BY <2>6, CountersMove DEF DispositionWait
  <2> QED
    BY <1>2, <2>1, <2>2, <2>3, <2>4, <2>5, <2>6 DEF AccessStep
<1>3. ASSUME NEW t \in Task, TransactionStep(t) PROVE Counted'
  <2>1. CASE TxCheck(t)
    BY <2>1, CountersMove DEF TxCheck
  <2>2. CASE TxClosing(t)
    BY <2>2, CountersMove DEF TxClosing
  <2>3. CASE TxInc(t)
    BY <2>3, CountersMove DEF TxInc
  <2>4. CASE TxReread(t)
    BY <2>4, CountersMove DEF TxReread
  <2>5. CASE TxValidate(t)
    BY <2>5, CountersMove DEF TxValidate
  <2>6. CASE TxUndo(t)
    BY <2>6, CountersMove DEF TxUndo
  <2> QED
    BY <1>3, <2>1, <2>2, <2>3, <2>4, <2>5, <2>6 DEF TransactionStep
<1>4. ASSUME NEW t \in Task, TransitionStep(t) PROVE Counted'
  BY <1>4, CountersMove DEF TransitionStep, TransitionLock, TransitionCheck,
     TransitionClose, TransitionDrainTx, TransitionParked, TransitionRefuse,
     PublishParked, TransitionDrainRefused, TransitionOwn, TransitionPublish,
     TransitionDrainRd, TransitionConfirm, TransitionWithdraw,
     TransitionDisown, TransitionUnlock
<1>5. ASSUME NEW t \in Task, EndStep(t) PROVE Counted'
  BY <1>5, CountersMove DEF EndStep, EndDrain, EndDisown, EndState,
     EndClosing, EndUnlock, QuiesceDisable, QuiesceSync
<1>6. ASSUME NEW t \in Task, AccessEnd(t) PROVE Counted'
  BY <1>6, CountersMove DEF AccessEnd
<1>7. ASSUME NEW t \in Task, TransactionEnd(t) PROVE Counted'
  BY <1>7, CountersMove DEF TransactionEnd
<1>8. ASSUME NEW t \in Task, EndTransition(t) PROVE Counted'
  BY <1>8, CountersMove DEF EndTransition, TransitionEnd
<1>9. ASSUME NEW a \in Actor, PublishStep(a) PROVE Counted'
  BY <1>9, CountersMove DEF PublishStep, LatchParked, LatchClosing,
     LatchState, PublishParked, LatchPending, PublishLock, PublishPubLock,
     PublishDrain, PublishContain, PublishUnlock, QueueFlags,
     QueueCheckReturns, QueueTransactions
<1>10. ASSUME WorkerStep PROVE Counted'
  BY <1>10, CountersMove DEF WorkerStep, WorkerStart, WorkerInit, WorkerClear,
     WorkerDone
<1> QED
  BY <1>1, <1>2, <1>3, <1>4, <1>5, <1>6, <1>7, <1>8, <1>9, <1>10 DEF Next,
     Continue

\* Once a drain is over it stays over: a late increment that reads a stale state
\* is not admitted, and nobody else reopens the gate.
LEMMA DrainedStep ==
    ASSUME TypeOK, InCalls, WorkerPublishes, Counted, LocksFollowPc, Drained, Next
    PROVE  Drained'
<1> USE AdmissionAssumption DEF Step, Goto, Finish, Refuse, WaitEvent,
   WakeAll, Begins, Idle, gate, counts, locks, work, hardware, shared, local,
   TypeOK, InCalls, InCall, LocksFollowPc, HoldsTrLock, InTransition, Owns,
   OwnerCalls, Drained, TxDrained, RdDrained, StateClosed, AdmittedTx,
   AdmittedRd, OwnerAdmitted, Lifecycle, TrPc, TePc, RdPc, TxPc, LaPc, PpPc,
   QcPc, WkPc, TqPc, Actor
<1>1. ASSUME NEW t \in Task, Start(t) PROVE Drained'
  BY <1>1 DEF Start, AccessBegin, TransactionBegin, TransitionBegin, Latch
<1>2. ASSUME NEW t \in Task, AccessStep(t) PROVE Drained'
  <2>1. CASE ReaderCheck(t)
    BY <2>1 DEF ReaderCheck
  <2>2. CASE ReaderInc(t)
    BY <2>2 DEF ReaderInc
  <2>3. CASE ReaderReread(t)
    BY <2>3 DEF ReaderReread
  <2>4. CASE ReaderValidate(t)
    BY <2>4 DEF ReaderValidate, ReaderAdmits
  <2>5. CASE ReaderUndo(t)
    BY <2>5 DEF ReaderUndo, ReaderDec
  <2>6. CASE DispositionWait(t)
    BY <2>6 DEF DispositionWait
  <2> QED
    BY <1>2, <2>1, <2>2, <2>3, <2>4, <2>5, <2>6 DEF AccessStep
<1>3. ASSUME NEW t \in Task, TransactionStep(t) PROVE Drained'
  <2>1. CASE TxCheck(t)
    BY <2>1 DEF TxCheck
  <2>2. CASE TxClosing(t)
    BY <2>2 DEF TxClosing
  <2>3. CASE TxInc(t)
    BY <2>3 DEF TxInc
  <2>4. CASE TxReread(t)
    BY <2>4 DEF TxReread
  <2>5. CASE TxValidate(t)
    BY <2>5 DEF TxValidate, TxAdmits
  <2>6. CASE TxUndo(t)
    BY <2>6 DEF TxUndo, TxDec
  <2> QED
    BY <1>3, <2>1, <2>2, <2>3, <2>4, <2>5, <2>6 DEF TransactionStep
<1>4. ASSUME NEW t \in Task, TransitionStep(t) PROVE Drained'
  <2>1. CASE TransitionLock(t)
    BY <2>1 DEF TransitionLock
  <2>2. CASE TransitionCheck(t)
    BY <2>2 DEF TransitionCheck
  <2>3. CASE TransitionClose(t)
    BY <2>3 DEF TransitionClose
  <2>4. CASE TransitionDrainTx(t)
    BY <2>4, CountedActors DEF TransitionDrainTx
  <2>5. CASE TransitionParked(t)
    BY <2>5 DEF TransitionParked
  <2>6. CASE TransitionRefuse(t)
    BY <2>6 DEF TransitionRefuse, PublishParked
  <2>7. CASE TransitionDrainRefused(t)
    BY <2>7 DEF TransitionDrainRefused
  <2>8. CASE TransitionOwn(t)
    BY <2>8 DEF TransitionOwn
  <2>9. CASE TransitionPublish(t)
    BY <2>9 DEF TransitionPublish, Closed, Expected
  <2>10. CASE TransitionDrainRd(t)
    BY <2>10, CountedActors DEF TransitionDrainRd
  <2>11. CASE TransitionConfirm(t)
    BY <2>11 DEF TransitionConfirm
  <2>12. CASE TransitionWithdraw(t)
    BY <2>12 DEF TransitionWithdraw, PublishParked
  <2>13. CASE TransitionDisown(t)
    BY <2>13 DEF TransitionDisown
  <2>14. CASE TransitionUnlock(t)
    BY <2>14 DEF TransitionUnlock
  <2> QED
    BY <1>4, <2>1, <2>2, <2>3, <2>4, <2>5, <2>6, <2>7, <2>8, <2>9, <2>10,
       <2>11, <2>12, <2>13, <2>14 DEF TransitionStep
<1>5. ASSUME NEW t \in Task, EndStep(t) PROVE Drained'
  <2>1. CASE EndDrain(t)
    BY <2>1 DEF EndDrain
  <2>2. CASE EndDisown(t)
    BY <2>2 DEF EndDisown
  <2>3. CASE EndState(t)
    BY <2>3 DEF EndState
  <2>4. CASE EndClosing(t)
    BY <2>4 DEF EndClosing
  <2>5. CASE EndUnlock(t)
    BY <2>5 DEF EndUnlock
  <2>6. CASE QuiesceDisable(t)
    BY <2>6 DEF QuiesceDisable
  <2>7. CASE QuiesceSync(t)
    BY <2>7 DEF QuiesceSync
  <2> QED
    BY <1>5, <2>1, <2>2, <2>3, <2>4, <2>5, <2>6, <2>7 DEF EndStep
<1>6. ASSUME NEW t \in Task, AccessEnd(t) PROVE Drained'
  BY <1>6 DEF AccessEnd, ReaderDec
<1>7. ASSUME NEW t \in Task, TransactionEnd(t) PROVE Drained'
  BY <1>7 DEF TransactionEnd, TxDec
<1>8. ASSUME NEW t \in Task, EndTransition(t) PROVE Drained'
  BY <1>8 DEF EndTransition, TransitionEnd
<1>9. ASSUME NEW a \in Actor, PublishStep(a) PROVE Drained'
  BY <1>9 DEF PublishStep, LatchParked, LatchClosing, LatchState,
     PublishParked, LatchPending, PublishLock, PublishPubLock, PublishDrain,
     PublishContain, PublishUnlock, QueueFlags, QueueCheckReturns,
     QueueTransactions
<1>10. ASSUME WorkerStep PROVE Drained'
  BY <1>10 DEF WorkerStep, WorkerStart, WorkerInit, WorkerClear, WorkerDone
<1> QED
  BY <1>1, <1>2, <1>3, <1>4, <1>5, <1>6, <1>7, <1>8, <1>9, <1>10 DEF Next,
     Continue

\* The invariant holds of an open, idle device.
LEMMA InvInit == Init => AdmissionInv
<1> SUFFICES ASSUME Init PROVE AdmissionInv
  OBVIOUS
<1> USE AdmissionAssumption DEF Init, Actor
<1>1. TypeOK
  <2>1. FlagsOK
    BY DEF FlagsOK
  <2>2. 0 \in 0..MaxTx /\ 0 \in 0..MaxRd
    OBVIOUS
  <2> QED
    BY <2>1, <2>2 DEF TypeOK, HwState, Pc
<1>2. Counted
  BY LeasesNone DEF Counted
<1>3. InCalls
  BY DEF InCalls, InCall, RdPc, TxPc, TrPc, LaPc, QcPc
<1>4. WorkerPublishes
  BY DEF WorkerPublishes
<1>5. LocksFollowPc
  BY DEF LocksFollowPc, HoldsTrLock, InTransition, Owns, OwnerCalls, TrPc, TePc
<1>6. Drained
  BY DEF Drained, TxDrained, RdDrained, StateClosed
<1> QED
  BY <1>1, <1>2, <1>3, <1>4, <1>5, <1>6 DEF AdmissionInv

\* Every step keeps the invariant.
LEMMA InvStep == AdmissionInv /\ [Next]_vars => AdmissionInv'
<1> SUFFICES ASSUME AdmissionInv, [Next]_vars PROVE AdmissionInv'
  OBVIOUS
<1>1. CASE Next
  <2> USE <1>1 DEF AdmissionInv
  <2>1. FlagsOK'
    BY FlagStep
  <2>2. TypeOK'
    BY <2>1, TypeStep
  <2> QED
    BY <2>2, CountedStep, InCallStep, WorkerKeepsStep, LocksStep, DrainedStep
<1>2. CASE UNCHANGED vars
  BY <1>2 DEF AdmissionInv, vars, gate, counts, locks, work, hardware, shared,
     local, TypeOK, FlagsOK,
     Counted, InCalls, InCall, WorkerPublishes, LocksFollowPc, HoldsTrLock,
     InTransition, Owns, OwnerCalls, Drained, TxDrained, RdDrained,
     StateClosed, AdmittedTx, AdmittedRd
<1> QED
  BY <1>1, <1>2


------------------------------------------------------------------------------
\* AdmissionInv is inductive: it holds in every state of every run, for any
\* tasks, any calls and any nesting.
THEOREM Invariance == Spec => []AdmissionInv
  BY InvInit, InvStep, PTL DEF Spec

\* Types: in particular the two counters are never taken below zero, whatever
\* order the begins, undos and ends of radeon_device.c:108-258 run in.
THEOREM TypeCorrect == Spec => []TypeOK
<1>1. AdmissionInv => TypeOK
  BY DEF AdmissionInv
<1> QED
  BY <1>1, Invariance, PTL

\* Between the return of transition_begin and the publication of the final state
\* the owner is alone: the late increments that the two drains can miss are all
\* turned away by their revalidation (radeon_device.c:121, 206).
THEOREM OwnerExclusive == Spec => []ExclusiveOwner
<1>1. AdmissionInv => ExclusiveOwner
  <2> SUFFICES ASSUME AdmissionInv, NEW t \in Task, role[t] # "none",
                      NEW u \in Actor \ {t}
               PROVE  role[u] = "none" /\ ~Admitted(u)
    BY DEF ExclusiveOwner
  <2>1. role[u] = "none"
    BY DEF AdmissionInv, LocksFollowPc, HoldsTrLock, InTransition, Actor
  <2>2. ~AdmittedTx(u)
    BY DEF AdmissionInv, Drained, TxDrained
  <2>3. ~AdmittedRd(u)
    BY DEF AdmissionInv, Drained, RdDrained
  <2> QED
    BY <2>1, <2>2, <2>3 DEF Admitted
<1> QED
  BY <1>1, Invariance, PTL

------------------------------------------------------------------------------
\* One lemma per part of AdmissionSafe.  A group of actions that a part hardly
\* depends on is one step, the others have a step per action.

\* The latch and transition_end leave a parked device closed, whichever of them
\* had the state lock first.
LEMMA ParkedStep ==
    ASSUME AdmissionInv, ParkedInv, Next
    PROVE  ParkedInv'
<1> USE AdmissionAssumption DEF Step, Goto, Finish, Refuse, WaitEvent, WakeAll,
   Begins, Idle, gate, counts, locks, work, hardware, shared, local,
   AdmissionInv, TypeOK, ParkedInv, StateLockHeld, ParkedStaysClosed, Terminal,
   WorkerPublishes, TrPc, TePc, RdPc, TxPc, LaPc, PpPc, QcPc, WkPc, TqPc,
   Actor, Lifecycle
<1>1. ASSUME NEW t \in Task, Start(t) PROVE ParkedInv'
  BY <1>1 DEF Start, AccessBegin, TransactionBegin, TransitionBegin, Latch
<1>2. ASSUME NEW t \in Task, AccessStep(t) PROVE ParkedInv'
  BY <1>2 DEF AccessStep, ReaderCheck, ReaderInc, ReaderReread, ReaderValidate,
     ReaderUndo, ReaderDec, DispositionWait
<1>3. ASSUME NEW t \in Task, TransactionStep(t) PROVE ParkedInv'
  BY <1>3 DEF TransactionStep, TxCheck, TxClosing, TxInc, TxReread, TxValidate,
     TxUndo, TxDec
<1>4. ASSUME NEW t \in Task, TransitionStep(t) PROVE ParkedInv'
  <2>1. CASE TransitionLock(t)
    BY <2>1 DEF TransitionLock
  <2>2. CASE TransitionCheck(t)
    BY <2>2 DEF TransitionCheck
  <2>3. CASE TransitionClose(t)
    BY <2>3 DEF TransitionClose
  <2>4. CASE TransitionDrainTx(t)
    BY <2>4 DEF TransitionDrainTx
  <2>5. CASE TransitionParked(t)
    BY <2>5 DEF TransitionParked
  <2>6. CASE TransitionRefuse(t)
    BY <2>6 DEF TransitionRefuse, PublishParked
  <2>7. CASE TransitionDrainRefused(t)
    BY <2>7 DEF TransitionDrainRefused
  <2>8. CASE TransitionOwn(t)
    BY <2>8 DEF TransitionOwn
  <2>9. CASE TransitionPublish(t)
    BY <2>9 DEF TransitionPublish, Closed, Expected
  <2>10. CASE TransitionDrainRd(t)
    BY <2>10 DEF TransitionDrainRd
  <2>11. CASE TransitionConfirm(t)
    BY <2>11 DEF TransitionConfirm
  <2>12. CASE TransitionWithdraw(t)
    BY <2>12 DEF TransitionWithdraw, PublishParked
  <2>13. CASE TransitionDisown(t)
    BY <2>13 DEF TransitionDisown
  <2>14. CASE TransitionUnlock(t)
    BY <2>14 DEF TransitionUnlock
  <2> QED
    BY <1>4, <2>1, <2>2, <2>3, <2>4, <2>5, <2>6, <2>7, <2>8, <2>9, <2>10,
       <2>11, <2>12, <2>13, <2>14 DEF TransitionStep
<1>5. ASSUME NEW t \in Task, EndStep(t) PROVE ParkedInv'
  <2>1. CASE EndDrain(t)
    BY <2>1 DEF EndDrain
  <2>2. CASE EndDisown(t)
    BY <2>2 DEF EndDisown
  <2>3. CASE EndState(t)
    BY <2>3 DEF EndState, PublishedState, Drained, TxDrained, LocksFollowPc,
       OwnerCalls
  <2>4. CASE EndClosing(t)
    BY <2>4 DEF EndClosing
  <2>5. CASE EndUnlock(t)
    BY <2>5 DEF EndUnlock
  <2>6. CASE QuiesceDisable(t)
    BY <2>6 DEF QuiesceDisable
  <2>7. CASE QuiesceSync(t)
    BY <2>7 DEF QuiesceSync
  <2> QED
    BY <1>5, <2>1, <2>2, <2>3, <2>4, <2>5, <2>6, <2>7 DEF EndStep
<1>6. ASSUME NEW t \in Task, AccessEnd(t) PROVE ParkedInv'
  BY <1>6 DEF AccessEnd, ReaderDec
<1>7. ASSUME NEW t \in Task, TransactionEnd(t) PROVE ParkedInv'
  BY <1>7 DEF TransactionEnd, TxDec
<1>8. ASSUME NEW t \in Task, EndTransition(t) PROVE ParkedInv'
  BY <1>8 DEF EndTransition, TransitionEnd
<1>9. ASSUME NEW a \in Actor, PublishStep(a) PROVE ParkedInv'
  <2>1. CASE LatchParked(a)
    BY <2>1 DEF LatchParked
  <2>2. CASE LatchClosing(a)
    BY <2>2 DEF LatchClosing
  <2>3. CASE LatchState(a)
    BY <2>3 DEF LatchState, PublishParked
  <2>4. CASE LatchPending(a)
    BY <2>4 DEF LatchPending
  <2>5. CASE PublishLock(a)
    BY <2>5 DEF PublishLock
  <2>6. CASE PublishPubLock(a)
    BY <2>6 DEF PublishPubLock
  <2>7. CASE PublishDrain(a)
    BY <2>7 DEF PublishDrain
  <2>8. CASE PublishContain(a)
    BY <2>8 DEF PublishContain
  <2>9. CASE PublishUnlock(a)
    BY <2>9 DEF PublishUnlock
  <2>10. CASE QueueFlags(a)
    BY <2>10 DEF QueueFlags, QueueCheckReturns
  <2>11. CASE QueueTransactions(a)
    BY <2>11 DEF QueueTransactions, QueueCheckReturns
  <2> QED
    BY <1>9, <2>1, <2>2, <2>3, <2>4, <2>5, <2>6, <2>7, <2>8, <2>9, <2>10, <2>11
       DEF PublishStep
<1>10. ASSUME WorkerStep PROVE ParkedInv'
  BY <1>10 DEF WorkerStep, WorkerStart, WorkerInit, WorkerClear, WorkerDone
<1> QED
  BY <1>1, <1>2, <1>3, <1>4, <1>5, <1>6, <1>7, <1>8, <1>9, <1>10 DEF Next,
     Continue

\* A device that is switched off is drained, and nobody is admitted to it until
\* it is resumed.
LEMMA OffStep ==
    ASSUME AdmissionInv, ParkedInv, OffInv, ShutdownInv, Next
    PROVE  OffInv'
<1> USE AdmissionAssumption DEF Step, Goto, Finish, Refuse, WaitEvent, WakeAll,
   Begins, Idle, gate, counts, locks, work, hardware, shared, local,
   AdmissionInv, TypeOK, OffInv, Off, StateClosed, RdDrained, Admitted,
   AdmittedTx, AdmittedRd, InCalls, InCall, WorkerPublishes, LocksFollowPc,
   HoldsTrLock, InTransition, Owns, OwnerCalls, ParkedInv, StateLockHeld,
   OwnerAdmitted, TrPc, TePc, RdPc, TxPc, LaPc, PpPc, QcPc, WkPc, TqPc, Actor,
   Lifecycle
<1>1. ASSUME NEW t \in Task, Start(t) PROVE OffInv'
  BY <1>1 DEF Start, AccessBegin, TransactionBegin, TransitionBegin, Latch
<1>2. ASSUME NEW t \in Task, AccessStep(t) PROVE OffInv'
  <2>1. CASE ReaderCheck(t)
    BY <2>1 DEF ReaderCheck
  <2>2. CASE ReaderInc(t)
    BY <2>2 DEF ReaderInc
  <2>3. CASE ReaderReread(t)
    BY <2>3 DEF ReaderReread
  <2>4. CASE ReaderValidate(t)
    BY <2>4 DEF ReaderValidate, ReaderAdmits
  <2>5. CASE ReaderUndo(t)
    BY <2>5 DEF ReaderUndo, ReaderDec
  <2>6. CASE DispositionWait(t)
    BY <2>6 DEF DispositionWait
  <2> QED
    BY <1>2, <2>1, <2>2, <2>3, <2>4, <2>5, <2>6 DEF AccessStep
<1>3. ASSUME NEW t \in Task, TransactionStep(t) PROVE OffInv'
  <2>1. CASE TxCheck(t)
    BY <2>1 DEF TxCheck
  <2>2. CASE TxClosing(t)
    BY <2>2 DEF TxClosing
  <2>3. CASE TxInc(t)
    BY <2>3 DEF TxInc
  <2>4. CASE TxReread(t)
    BY <2>4 DEF TxReread
  <2>5. CASE TxValidate(t)
    BY <2>5 DEF TxValidate, TxAdmits
  <2>6. CASE TxUndo(t)
    BY <2>6 DEF TxUndo, TxDec
  <2> QED
    BY <1>3, <2>1, <2>2, <2>3, <2>4, <2>5, <2>6 DEF TransactionStep
<1>4. ASSUME NEW t \in Task, TransitionStep(t) PROVE OffInv'
  <2>1. CASE TransitionLock(t)
    BY <2>1 DEF TransitionLock
  <2>2. CASE TransitionCheck(t)
    BY <2>2 DEF TransitionCheck
  <2>3. CASE TransitionClose(t)
    BY <2>3 DEF TransitionClose
  <2>4. CASE TransitionDrainTx(t)
    BY <2>4 DEF TransitionDrainTx
  <2>5. CASE TransitionParked(t)
    BY <2>5 DEF TransitionParked
  <2>6. CASE TransitionRefuse(t)
    BY <2>6 DEF TransitionRefuse, PublishParked
  <2>7. CASE TransitionDrainRefused(t)
    BY <2>7 DEF TransitionDrainRefused
  <2>8. CASE TransitionOwn(t)
    BY <2>8 DEF TransitionOwn
  <2>9. CASE TransitionPublish(t)
    BY <2>9 DEF TransitionPublish, Closed, Expected
  <2>10. CASE TransitionDrainRd(t)
    BY <2>10 DEF TransitionDrainRd
  <2>11. CASE TransitionConfirm(t)
    BY <2>11 DEF TransitionConfirm
  <2>12. CASE TransitionWithdraw(t)
    BY <2>12 DEF TransitionWithdraw, PublishParked
  <2>13. CASE TransitionDisown(t)
    BY <2>13 DEF TransitionDisown
  <2>14. CASE TransitionUnlock(t)
    BY <2>14 DEF TransitionUnlock
  <2> QED
    BY <1>4, <2>1, <2>2, <2>3, <2>4, <2>5, <2>6, <2>7, <2>8, <2>9, <2>10,
       <2>11, <2>12, <2>13, <2>14 DEF TransitionStep
<1>5. ASSUME NEW t \in Task, EndStep(t) PROVE OffInv'
  <2>1. CASE EndDrain(t)
    BY <2>1 DEF EndDrain
  <2>2. CASE EndDisown(t)
    BY <2>2 DEF EndDisown
  <2>3. CASE EndState(t)
    BY <2>3 DEF EndState, PublishedState, Drained, TxDrained, ShutdownInv,
       Ending
  <2>4. CASE EndClosing(t)
    BY <2>4 DEF EndClosing
  <2>5. CASE EndUnlock(t)
    BY <2>5 DEF EndUnlock
  <2>6. CASE QuiesceDisable(t)
    BY <2>6 DEF QuiesceDisable
  <2>7. CASE QuiesceSync(t)
    BY <2>7 DEF QuiesceSync
  <2> QED
    BY <1>5, <2>1, <2>2, <2>3, <2>4, <2>5, <2>6, <2>7 DEF EndStep
<1>6. ASSUME NEW t \in Task, AccessEnd(t) PROVE OffInv'
  BY <1>6 DEF AccessEnd, ReaderDec
<1>7. ASSUME NEW t \in Task, TransactionEnd(t) PROVE OffInv'
  BY <1>7 DEF TransactionEnd, TxDec
<1>8. ASSUME NEW t \in Task, EndTransition(t) PROVE OffInv'
  BY <1>8 DEF EndTransition, TransitionEnd
<1>9. ASSUME NEW a \in Actor, PublishStep(a) PROVE OffInv'
  BY <1>9 DEF PublishStep, LatchParked, LatchClosing, LatchState,
     PublishParked, LatchPending, PublishLock, PublishPubLock, PublishDrain,
     PublishContain, PublishUnlock, QueueFlags, QueueCheckReturns,
     QueueTransactions
<1>10. ASSUME WorkerStep PROVE OffInv'
  BY <1>10 DEF WorkerStep, WorkerStart, WorkerInit, WorkerClear, WorkerDone
<1> QED
  BY <1>1, <1>2, <1>3, <1>4, <1>5, <1>6, <1>7, <1>8, <1>9, <1>10 DEF Next,
     Continue

\* The one unload ends in SHUTDOWN, and nothing takes the device out of it.
LEMMA ShutdownStep ==
    ASSUME AdmissionInv, OffInv, ShutdownInv, Next
    PROVE  ShutdownInv'
<1> USE AdmissionAssumption DEF Step, Goto, Finish, Refuse, WaitEvent, WakeAll,
   Begins, Idle, gate, counts, locks, work, hardware, shared, local,
   AdmissionInv, TypeOK, OffInv, Off, StateClosed, RdDrained, ShutdownInv,
   Unloading, Ending, InCalls, InCall, WorkerPublishes, LocksFollowPc,
   HoldsTrLock, InTransition, OwnerCalls, TrPc, TePc, RdPc, TxPc, LaPc, PpPc,
   QcPc, WkPc, TqPc, Actor, Lifecycle
<1>1. ASSUME NEW t \in Task, Start(t) PROVE ShutdownInv'
  BY <1>1 DEF Start, AccessBegin, TransactionBegin, TransitionBegin, Unloads,
     Latch
<1>2. ASSUME NEW t \in Task, AccessStep(t) PROVE ShutdownInv'
  BY <1>2 DEF AccessStep, ReaderCheck, ReaderInc, ReaderReread, ReaderValidate,
     ReaderUndo, ReaderDec, DispositionWait
<1>3. ASSUME NEW t \in Task, TransactionStep(t) PROVE ShutdownInv'
  BY <1>3 DEF TransactionStep, TxCheck, TxClosing, TxInc, TxReread, TxValidate,
     TxUndo, TxDec
<1>4. ASSUME NEW t \in Task, TransitionStep(t) PROVE ShutdownInv'
  <2>1. CASE TransitionLock(t)
    BY <2>1 DEF TransitionLock
  <2>2. CASE TransitionCheck(t)
    BY <2>2 DEF TransitionCheck
  <2>3. CASE TransitionClose(t)
    BY <2>3 DEF TransitionClose
  <2>4. CASE TransitionDrainTx(t)
    BY <2>4 DEF TransitionDrainTx
  <2>5. CASE TransitionParked(t)
    BY <2>5 DEF TransitionParked
  <2>6. CASE TransitionRefuse(t)
    BY <2>6 DEF TransitionRefuse, PublishParked
  <2>7. CASE TransitionDrainRefused(t)
    BY <2>7 DEF TransitionDrainRefused
  <2>8. CASE TransitionOwn(t)
    BY <2>8 DEF TransitionOwn
  <2>9. CASE TransitionPublish(t)
    BY <2>9 DEF TransitionPublish, Closed, Expected
  <2>10. CASE TransitionDrainRd(t)
    BY <2>10 DEF TransitionDrainRd
  <2>11. CASE TransitionConfirm(t)
    BY <2>11 DEF TransitionConfirm
  <2>12. CASE TransitionWithdraw(t)
    BY <2>12 DEF TransitionWithdraw, PublishParked
  <2>13. CASE TransitionDisown(t)
    BY <2>13 DEF TransitionDisown
  <2>14. CASE TransitionUnlock(t)
    BY <2>14 DEF TransitionUnlock
  <2> QED
    BY <1>4, <2>1, <2>2, <2>3, <2>4, <2>5, <2>6, <2>7, <2>8, <2>9, <2>10,
       <2>11, <2>12, <2>13, <2>14 DEF TransitionStep
<1>5. ASSUME NEW t \in Task, EndStep(t) PROVE ShutdownInv'
  <2>1. CASE EndDrain(t)
    BY <2>1 DEF EndDrain
  <2>2. CASE EndDisown(t)
    BY <2>2 DEF EndDisown
  <2>3. CASE EndState(t)
    BY <2>3 DEF EndState, PublishedState
  <2>4. CASE EndClosing(t)
    BY <2>4 DEF EndClosing
  <2>5. CASE EndUnlock(t)
    BY <2>5 DEF EndUnlock
  <2>6. CASE QuiesceDisable(t)
    BY <2>6 DEF QuiesceDisable
  <2>7. CASE QuiesceSync(t)
    BY <2>7 DEF QuiesceSync
  <2> QED
    BY <1>5, <2>1, <2>2, <2>3, <2>4, <2>5, <2>6, <2>7 DEF EndStep
<1>6. ASSUME NEW t \in Task, AccessEnd(t) PROVE ShutdownInv'
  BY <1>6 DEF AccessEnd, ReaderDec
<1>7. ASSUME NEW t \in Task, TransactionEnd(t) PROVE ShutdownInv'
  BY <1>7 DEF TransactionEnd, TxDec
<1>8. ASSUME NEW t \in Task, EndTransition(t) PROVE ShutdownInv'
  BY <1>8 DEF EndTransition, TransitionEnd, Finals
<1>9. ASSUME NEW a \in Actor, PublishStep(a) PROVE ShutdownInv'
  BY <1>9 DEF PublishStep, LatchParked, LatchClosing, LatchState,
     PublishParked, LatchPending, PublishLock, PublishPubLock, PublishDrain,
     PublishContain, PublishUnlock, QueueFlags, QueueCheckReturns,
     QueueTransactions
<1>10. ASSUME WorkerStep PROVE ShutdownInv'
  BY <1>10 DEF WorkerStep, WorkerStart, WorkerInit, WorkerClear, WorkerDone
<1> QED
  BY <1>1, <1>2, <1>3, <1>4, <1>5, <1>6, <1>7, <1>8, <1>9, <1>10 DEF Next,
     Continue

\* Containment starts over a drained device that stays closed.
LEMMA ContainedStep ==
    ASSUME AdmissionInv, ParkedInv, OffInv, ShutdownInv, ContainedInv, Next, OffInv'
    PROVE  ContainedInv'
<1> USE AdmissionAssumption DEF Step, Goto, Finish, Refuse, WaitEvent, WakeAll,
   Begins, Idle, gate, counts, locks, work, hardware, shared, local,
   AdmissionInv, TypeOK, ContainedInv, ContainedMeansIdle, Admitted,
   AdmittedTx, AdmittedRd, InCalls, InCall, WorkerPublishes, OwnerAdmitted,
   TrPc, TePc, RdPc, TxPc, LaPc, PpPc, QcPc, WkPc, TqPc, Actor, Lifecycle
<1>a. (state = "SHUTDOWN" => \A u \in Actor : ~Admitted(u))'
  BY DEF OffInv, Off
<1>b. \A t \in Task : /\ state = "SHUTDOWN" => call[t] # "shutdown"
                      /\ pc[t] = "tq_sync" => state = "SHUTDOWN"
  BY DEF ShutdownInv, Ending
<1>c. \A t \in Task : pc[t] = "te_state" => state # "SHUTDOWN"
  BY DEF ShutdownInv, Ending, OffInv, Off, StateClosed, RdDrained
<1>d. state = "SHUTDOWN" => \A u \in Actor : ~Admitted(u)
  BY DEF OffInv, Off
<1>1. ASSUME NEW t \in Task, Start(t) PROVE ContainedInv'
  BY <1>1 DEF Start, AccessBegin, TransactionBegin, TransitionBegin, Latch
<1>2. ASSUME NEW t \in Task, AccessStep(t) PROVE ContainedInv'
  <2>1. CASE ReaderCheck(t)
    BY <2>1 DEF ReaderCheck
  <2>2. CASE ReaderInc(t)
    BY <2>2 DEF ReaderInc
  <2>3. CASE ReaderReread(t)
    BY <2>3 DEF ReaderReread
  <2>4. CASE ReaderValidate(t)
    BY <2>4, <1>a DEF ReaderValidate, ReaderAdmits
  <2>5. CASE ReaderUndo(t)
    BY <2>5 DEF ReaderUndo, ReaderDec
  <2>6. CASE DispositionWait(t)
    BY <2>6 DEF DispositionWait
  <2> QED
    BY <1>2, <2>1, <2>2, <2>3, <2>4, <2>5, <2>6 DEF AccessStep
<1>3. ASSUME NEW t \in Task, TransactionStep(t) PROVE ContainedInv'
  <2>1. CASE TxCheck(t)
    BY <2>1 DEF TxCheck
  <2>2. CASE TxClosing(t)
    BY <2>2 DEF TxClosing
  <2>3. CASE TxInc(t)
    BY <2>3 DEF TxInc
  <2>4. CASE TxReread(t)
    BY <2>4 DEF TxReread
  <2>5. CASE TxValidate(t)
    BY <2>5, <1>a DEF TxValidate, TxAdmits
  <2>6. CASE TxUndo(t)
    BY <2>6 DEF TxUndo, TxDec
  <2> QED
    BY <1>3, <2>1, <2>2, <2>3, <2>4, <2>5, <2>6 DEF TransactionStep
<1>4. ASSUME NEW t \in Task, TransitionStep(t) PROVE ContainedInv'
  <2>1. CASE TransitionLock(t)
    BY <2>1 DEF TransitionLock
  <2>2. CASE TransitionCheck(t)
    BY <2>2 DEF TransitionCheck
  <2>3. CASE TransitionClose(t)
    BY <2>3 DEF TransitionClose
  <2>4. CASE TransitionDrainTx(t)
    BY <2>4 DEF TransitionDrainTx
  <2>5. CASE TransitionParked(t)
    BY <2>5 DEF TransitionParked
  <2>6. CASE TransitionRefuse(t)
    BY <2>6 DEF TransitionRefuse, PublishParked
  <2>7. CASE TransitionDrainRefused(t)
    BY <2>7 DEF TransitionDrainRefused
  <2>8. CASE TransitionOwn(t)
    BY <2>8 DEF TransitionOwn
  <2>9. CASE TransitionPublish(t)
    BY <2>9, <1>b DEF TransitionPublish, Closed, Expected
  <2>10. CASE TransitionDrainRd(t)
    BY <2>10 DEF TransitionDrainRd
  <2>11. CASE TransitionConfirm(t)
    BY <2>11 DEF TransitionConfirm
  <2>12. CASE TransitionWithdraw(t)
    BY <2>12 DEF TransitionWithdraw, PublishParked
  <2>13. CASE TransitionDisown(t)
    BY <2>13 DEF TransitionDisown
  <2>14. CASE TransitionUnlock(t)
    BY <2>14 DEF TransitionUnlock
  <2> QED
    BY <1>4, <2>1, <2>2, <2>3, <2>4, <2>5, <2>6, <2>7, <2>8, <2>9, <2>10,
       <2>11, <2>12, <2>13, <2>14 DEF TransitionStep
<1>5. ASSUME NEW t \in Task, EndStep(t) PROVE ContainedInv'
  <2>1. CASE EndDrain(t)
    BY <2>1 DEF EndDrain
  <2>2. CASE EndDisown(t)
    BY <2>2 DEF EndDisown
  <2>3. CASE EndState(t)
    BY <2>3, <1>c DEF EndState, PublishedState
  <2>4. CASE EndClosing(t)
    BY <2>4 DEF EndClosing
  <2>5. CASE EndUnlock(t)
    BY <2>5 DEF EndUnlock
  <2>6. CASE QuiesceDisable(t)
    BY <2>6 DEF QuiesceDisable
  <2>7. CASE QuiesceSync(t)
    BY <2>7, <1>b, <1>d DEF QuiesceSync
  <2> QED
    BY <1>5, <2>1, <2>2, <2>3, <2>4, <2>5, <2>6, <2>7 DEF EndStep
<1>6. ASSUME NEW t \in Task, AccessEnd(t) PROVE ContainedInv'
  BY <1>6 DEF AccessEnd, ReaderDec
<1>7. ASSUME NEW t \in Task, TransactionEnd(t) PROVE ContainedInv'
  BY <1>7 DEF TransactionEnd, TxDec
<1>8. ASSUME NEW t \in Task, EndTransition(t) PROVE ContainedInv'
  BY <1>8 DEF EndTransition, TransitionEnd
<1>9. ASSUME NEW a \in Actor, PublishStep(a) PROVE ContainedInv'
  <2>1. CASE LatchParked(a)
    BY <2>1, <1>d DEF LatchParked
  <2>2. CASE LatchClosing(a)
    BY <2>2 DEF LatchClosing
  <2>3. CASE LatchState(a)
    BY <2>3 DEF LatchState, PublishParked, ParkedInv
  <2>4. CASE LatchPending(a)
    BY <2>4 DEF LatchPending
  <2>5. CASE PublishLock(a)
    BY <2>5 DEF PublishLock
  <2>6. CASE PublishPubLock(a)
    BY <2>6 DEF PublishPubLock
  <2>7. CASE PublishDrain(a)
    BY <2>7, CountedActors DEF PublishDrain
  <2>8. CASE PublishContain(a)
    BY <2>8 DEF PublishContain
  <2>9. CASE PublishUnlock(a)
    BY <2>9 DEF PublishUnlock
  <2>10. CASE QueueFlags(a)
    BY <2>10 DEF QueueFlags, QueueCheckReturns
  <2>11. CASE QueueTransactions(a)
    BY <2>11 DEF QueueTransactions, QueueCheckReturns
  <2> QED
    BY <1>9, <2>1, <2>2, <2>3, <2>4, <2>5, <2>6, <2>7, <2>8, <2>9, <2>10, <2>11
       DEF PublishStep
<1>10. ASSUME WorkerStep PROVE ContainedInv'
  BY <1>10 DEF WorkerStep, WorkerStart, WorkerInit, WorkerClear, WorkerDone
<1> QED
  BY <1>1, <1>2, <1>3, <1>4, <1>5, <1>6, <1>7, <1>8, <1>9, <1>10 DEF Next,
     Continue

\* A publication request reaches the queue, and nothing reaches a disabled one.
LEMMA PublisherStep ==
    ASSUME AdmissionInv, PublisherInv, Next
    PROVE  PublisherInv'
<1> USE AdmissionAssumption DEF Step, Goto, Finish, Refuse, WaitEvent, WakeAll,
   Begins, Idle, gate, counts, locks, work, hardware, shared, local,
   AdmissionInv, TypeOK, FlagsOK, PublisherInv, PublisherIsKept,
   RequestIsQueued, QuiescedMeansNoWorker, InCalls, InCall, WorkerPublishes,
   TrPc, TePc, RdPc, TxPc, LaPc, PpPc, QcPc, WkPc, TqPc, Actor, Lifecycle
<1>1. ASSUME NEW t \in Task, Start(t) PROVE PublisherInv'
  BY <1>1 DEF Start, AccessBegin, TransactionBegin, TransitionBegin, Latch
<1>2. ASSUME NEW t \in Task, AccessStep(t) PROVE PublisherInv'
  BY <1>2 DEF AccessStep, ReaderCheck, ReaderInc, ReaderReread, ReaderValidate,
     ReaderUndo, ReaderDec, DispositionWait
<1>3. ASSUME NEW t \in Task, TransactionStep(t) PROVE PublisherInv'
  BY <1>3 DEF TransactionStep, TxCheck, TxClosing, TxInc, TxReread, TxValidate,
     TxUndo, TxDec
<1>4. ASSUME NEW t \in Task, TransitionStep(t) PROVE PublisherInv'
  BY <1>4 DEF TransitionStep, TransitionLock, TransitionCheck, TransitionClose,
     TransitionDrainTx, TransitionParked, TransitionRefuse, PublishParked,
     TransitionDrainRefused, TransitionOwn, TransitionPublish,
     TransitionDrainRd, TransitionConfirm, TransitionWithdraw,
     TransitionDisown, TransitionUnlock
<1>5. ASSUME NEW t \in Task, EndStep(t) PROVE PublisherInv'
  <2>1. CASE EndDrain(t)
    BY <2>1 DEF EndDrain
  <2>2. CASE EndDisown(t)
    BY <2>2 DEF EndDisown
  <2>3. CASE EndState(t)
    BY <2>3 DEF EndState
  <2>4. CASE EndClosing(t)
    BY <2>4 DEF EndClosing
  <2>5. CASE EndUnlock(t)
    BY <2>5 DEF EndUnlock
  <2>6. CASE QuiesceDisable(t)
    BY <2>6 DEF QuiesceDisable
  <2>7. CASE QuiesceSync(t)
    BY <2>7 DEF QuiesceSync
  <2> QED
    BY <1>5, <2>1, <2>2, <2>3, <2>4, <2>5, <2>6, <2>7 DEF EndStep
<1>6. ASSUME NEW t \in Task, AccessEnd(t) PROVE PublisherInv'
  BY <1>6 DEF AccessEnd, ReaderDec
<1>7. ASSUME NEW t \in Task, TransactionEnd(t) PROVE PublisherInv'
  BY <1>7 DEF TransactionEnd, TxDec
<1>8. ASSUME NEW t \in Task, EndTransition(t) PROVE PublisherInv'
  BY <1>8 DEF EndTransition, TransitionEnd
<1>9. ASSUME NEW a \in Actor, PublishStep(a) PROVE PublisherInv'
  <2>1. CASE LatchParked(a)
    BY <2>1 DEF LatchParked
  <2>2. CASE LatchClosing(a)
    BY <2>2 DEF LatchClosing
  <2>3. CASE LatchState(a)
    BY <2>3 DEF LatchState, PublishParked
  <2>4. CASE LatchPending(a)
    BY <2>4 DEF LatchPending
  <2>5. CASE PublishLock(a)
    BY <2>5 DEF PublishLock
  <2>6. CASE PublishPubLock(a)
    BY <2>6 DEF PublishPubLock
  <2>7. CASE PublishDrain(a)
    BY <2>7 DEF PublishDrain
  <2>8. CASE PublishContain(a)
    BY <2>8 DEF PublishContain
  <2>9. CASE PublishUnlock(a)
    BY <2>9 DEF PublishUnlock
  <2>10. CASE QueueFlags(a)
    BY <2>10 DEF QueueFlags, QueueCheckReturns
  <2>11. CASE QueueTransactions(a)
    BY <2>11 DEF QueueTransactions, QueueCheckReturns
  <2> QED
    BY <1>9, <2>1, <2>2, <2>3, <2>4, <2>5, <2>6, <2>7, <2>8, <2>9, <2>10, <2>11
       DEF PublishStep
<1>10. ASSUME WorkerStep PROVE PublisherInv'
  BY <1>10 DEF WorkerStep, WorkerStart, WorkerInit, WorkerClear, WorkerDone
<1> QED
  BY <1>1, <1>2, <1>3, <1>4, <1>5, <1>6, <1>7, <1>8, <1>9, <1>10 DEF Next,
     Continue

\* Every step that makes a sleeper's condition true wakes it, or is followed by
\* the step that does.
LEMMA WakeStep ==
    ASSUME AdmissionInv, ParkedInv, WakeInv, Next
    PROVE  WakeInv'
<1> USE AdmissionAssumption DEF Step, Goto, Finish, Refuse, WaitEvent, WakeAll,
   Begins, Idle, gate, counts, locks, work, hardware, shared, local,
   AdmissionInv, TypeOK, FlagsOK, WakeInv, NoMissedWakeup, Disposition, Ending,
   ParkedInv, StateLockHeld, InCalls, InCall, WorkerPublishes, TrPc, TePc,
   RdPc, TxPc, LaPc, PpPc, QcPc, WkPc, TqPc, Actor, Lifecycle
<1>1. ASSUME NEW t \in Task, Start(t) PROVE WakeInv'
  BY <1>1 DEF Start, AccessBegin, TransactionBegin, TransitionBegin, Latch
<1>2. ASSUME NEW t \in Task, AccessStep(t) PROVE WakeInv'
  BY <1>2 DEF AccessStep, ReaderCheck, ReaderInc, ReaderReread, ReaderValidate,
     ReaderUndo, ReaderDec, DispositionWait
<1>3. ASSUME NEW t \in Task, TransactionStep(t) PROVE WakeInv'
  BY <1>3 DEF TransactionStep, TxCheck, TxClosing, TxInc, TxReread, TxValidate,
     TxUndo, TxDec
<1>4. ASSUME NEW t \in Task, TransitionStep(t) PROVE WakeInv'
  <2>1. CASE TransitionLock(t)
    BY <2>1 DEF TransitionLock
  <2>2. CASE TransitionCheck(t)
    BY <2>2 DEF TransitionCheck
  <2>3. CASE TransitionClose(t)
    BY <2>3 DEF TransitionClose
  <2>4. CASE TransitionDrainTx(t)
    BY <2>4 DEF TransitionDrainTx
  <2>5. CASE TransitionParked(t)
    BY <2>5 DEF TransitionParked
  <2>6. CASE TransitionRefuse(t)
    BY <2>6 DEF TransitionRefuse, PublishParked
  <2>7. CASE TransitionDrainRefused(t)
    BY <2>7 DEF TransitionDrainRefused
  <2>8. CASE TransitionOwn(t)
    BY <2>8 DEF TransitionOwn
  <2>9. CASE TransitionPublish(t)
    BY <2>9 DEF TransitionPublish, Closed, Expected
  <2>10. CASE TransitionDrainRd(t)
    BY <2>10 DEF TransitionDrainRd
  <2>11. CASE TransitionConfirm(t)
    BY <2>11 DEF TransitionConfirm
  <2>12. CASE TransitionWithdraw(t)
    BY <2>12 DEF TransitionWithdraw, PublishParked
  <2>13. CASE TransitionDisown(t)
    BY <2>13 DEF TransitionDisown
  <2>14. CASE TransitionUnlock(t)
    BY <2>14 DEF TransitionUnlock
  <2> QED
    BY <1>4, <2>1, <2>2, <2>3, <2>4, <2>5, <2>6, <2>7, <2>8, <2>9, <2>10,
       <2>11, <2>12, <2>13, <2>14 DEF TransitionStep
<1>5. ASSUME NEW t \in Task, EndStep(t) PROVE WakeInv'
  <2>1. CASE EndDrain(t)
    BY <2>1 DEF EndDrain
  <2>2. CASE EndDisown(t)
    BY <2>2 DEF EndDisown
  <2>3. CASE EndState(t)
    BY <2>3 DEF EndState, PublishedState
  <2>4. CASE EndClosing(t)
    BY <2>4 DEF EndClosing
  <2>5. CASE EndUnlock(t)
    BY <2>5 DEF EndUnlock
  <2>6. CASE QuiesceDisable(t)
    BY <2>6 DEF QuiesceDisable
  <2>7. CASE QuiesceSync(t)
    BY <2>7 DEF QuiesceSync
  <2> QED
    BY <1>5, <2>1, <2>2, <2>3, <2>4, <2>5, <2>6, <2>7 DEF EndStep
<1>6. ASSUME NEW t \in Task, AccessEnd(t) PROVE WakeInv'
  BY <1>6 DEF AccessEnd, ReaderDec
<1>7. ASSUME NEW t \in Task, TransactionEnd(t) PROVE WakeInv'
  BY <1>7 DEF TransactionEnd, TxDec
<1>8. ASSUME NEW t \in Task, EndTransition(t) PROVE WakeInv'
  BY <1>8 DEF EndTransition, TransitionEnd, Finals
<1>9. ASSUME NEW a \in Actor, PublishStep(a) PROVE WakeInv'
  <2>1. CASE LatchParked(a)
    BY <2>1 DEF LatchParked
  <2>2. CASE LatchClosing(a)
    BY <2>2 DEF LatchClosing
  <2>3. CASE LatchState(a)
    BY <2>3 DEF LatchState, PublishParked
  <2>4. CASE LatchPending(a)
    BY <2>4 DEF LatchPending
  <2>5. CASE PublishLock(a)
    BY <2>5 DEF PublishLock
  <2>6. CASE PublishPubLock(a)
    BY <2>6 DEF PublishPubLock
  <2>7. CASE PublishDrain(a)
    BY <2>7 DEF PublishDrain
  <2>8. CASE PublishContain(a)
    BY <2>8 DEF PublishContain
  <2>9. CASE PublishUnlock(a)
    BY <2>9 DEF PublishUnlock
  <2>10. CASE QueueFlags(a)
    BY <2>10 DEF QueueFlags, QueueCheckReturns
  <2>11. CASE QueueTransactions(a)
    BY <2>11 DEF QueueTransactions, QueueCheckReturns
  <2> QED
    BY <1>9, <2>1, <2>2, <2>3, <2>4, <2>5, <2>6, <2>7, <2>8, <2>9, <2>10, <2>11
       DEF PublishStep
<1>10. ASSUME WorkerStep PROVE WakeInv'
  BY <1>10 DEF WorkerStep, WorkerStart, WorkerInit, WorkerClear, WorkerDone
<1> QED
  BY <1>1, <1>2, <1>3, <1>4, <1>5, <1>6, <1>7, <1>8, <1>9, <1>10 DEF Next,
     Continue

\* An open, idle device satisfies them all.
LEMMA SafeInit == Init => AdmissionSafe
<1> SUFFICES ASSUME Init PROVE AdmissionSafe
  OBVIOUS
<1>1. AdmissionInv
  BY InvInit
<1>2. NoTask \notin Actor /\ \A a \in Actor : ~Admitted(a)
  BY AdmissionAssumption DEF Init, Admitted, AdmittedTx, AdmittedRd
<1> USE DEF Init
<1>3. ParkedInv
  BY <1>2 DEF ParkedInv, StateLockHeld, ParkedStaysClosed
<1>4. OffInv
  BY DEF OffInv, Off, StateClosed, RdDrained, TrPc, TePc, Actor
<1>5. ShutdownInv
  BY DEF ShutdownInv, Unloading, Ending, TePc, Actor
<1>6. ContainedInv
  BY <1>2 DEF ContainedInv, ContainedMeansIdle, PpPc
<1>7. PublisherInv
  BY DEF PublisherInv, PublisherIsKept, RequestIsQueued, QuiescedMeansNoWorker,
     Actor
<1>8. WakeInv
  BY DEF WakeInv, NoMissedWakeup, Ending
<1> QED
  BY <1>1, <1>3, <1>4, <1>5, <1>6, <1>7, <1>8 DEF AdmissionSafe

\* Every step keeps them all.
LEMMA SafeStep == AdmissionSafe /\ [Next]_vars => AdmissionSafe'
<1> SUFFICES ASSUME AdmissionSafe, [Next]_vars PROVE AdmissionSafe'
  OBVIOUS
<1>1. CASE Next
  <2> USE <1>1 DEF AdmissionSafe
  <2>1. AdmissionInv'
    BY InvStep
  <2>2. OffInv'
    BY OffStep
  <2> QED
    BY <2>1, <2>2, ParkedStep, ShutdownStep, ContainedStep, PublisherStep,
       WakeStep
<1>2. CASE UNCHANGED vars
  <2> USE <1>2 DEF AdmissionSafe, vars, gate, counts, locks, work, hardware,
     shared, local
  <2>1. AdmissionInv'
    BY InvStep
  <2>2. UNCHANGED <<ParkedInv, OffInv, ShutdownInv>>
    BY DEF ParkedInv, StateLockHeld, ParkedStaysClosed, OffInv, Off,
       StateClosed, RdDrained, Admitted, AdmittedTx, AdmittedRd, ShutdownInv,
       Unloading, Ending
  <2>3. UNCHANGED <<ContainedInv, PublisherInv, WakeInv>>
    BY DEF ContainedInv, ContainedMeansIdle, Admitted, AdmittedTx, AdmittedRd,
       PublisherInv, PublisherIsKept, RequestIsQueued, QuiescedMeansNoWorker,
       WakeInv, Ending, NoMissedWakeup, Disposition
  <2> QED
    BY <2>1, <2>2, <2>3
<1> QED
  BY <1>1, <1>2

------------------------------------------------------------------------------
\* AdmissionSafe is inductive, for any tasks, any calls and any nesting.
THEOREM SafeInvariance == Spec => []AdmissionSafe
  BY SafeInit, SafeStep, PTL DEF Spec

\* However the latch and transition_end race for the state lock, a device that is
\* parked is closed once the lock is free (radeon_device.c:411-424, 434-446).
THEOREM ParkedClosed == Spec => []ParkedStaysClosed
<1>1. AdmissionSafe => ParkedStaysClosed
  BY DEF AdmissionSafe, ParkedInv
<1> QED
  BY <1>1, SafeInvariance, PTL

\* A device that is powered off, torn down or contained is in nobody's hands.
THEOREM ClosedIdle == Spec => []ClosedMeansIdle
<1>1. AdmissionSafe => ClosedMeansIdle
  BY DEF AdmissionSafe, OffInv, Off, ContainedInv, ClosedMeansIdle, OffMeansIdle
<1> QED
  BY <1>1, SafeInvariance, PTL

\* The publisher serves every request it is owed, and none once unload has
\* disabled it (radeon_device.c:74-83, 623-672).
THEOREM PublisherKept == Spec => []PublisherIsKept
<1>1. AdmissionSafe => PublisherIsKept
  BY DEF AdmissionSafe, PublisherInv
<1> QED
  BY <1>1, SafeInvariance, PTL

\* No sleeper on rs4xx_hardware_wait misses the wake-up of its condition.
THEOREM WakeupsArrive == Spec => []NoMissedWakeup
<1>1. AdmissionSafe => NoMissedWakeup
  BY DEF AdmissionSafe, WakeInv
<1> QED
  BY <1>1, SafeInvariance, PTL

------------------------------------------------------------------------------
\* The refinement of HardwareLease.  A step of the protocol is one of these to
\* whoever counts admitted actors, owners and the latch.
Quiet == UNCHANGED <<role, parked>> /\ \A a \in Actor : Admitted(a)' <=> Admitted(a)
Admits(a) ==
    /\ ~parked
    /\ UNCHANGED <<role, parked>>
    /\ Admitted(a)'
    /\ \A u \in Actor \ {a} : Admitted(u)' <=> Admitted(u)
Leaves(a) ==
    /\ UNCHANGED <<role, parked>>
    /\ Admitted(a) /\ ~Admitted(a)'
    /\ \A u \in Actor \ {a} : Admitted(u)' <=> Admitted(u)
Claims(t) ==
    /\ parked' = parked
    /\ role'[t] # "none"
    /\ \A u \in Task : role[u] = "none"
    /\ \A u \in Actor : ~Admitted(u) /\ ~Admitted(u)'
GivesUp(t) ==
    /\ parked' = parked
    /\ role[t] # "none"
    /\ \A u \in Task : role'[u] = "none"
    /\ \A u \in Actor : ~Admitted(u) /\ ~Admitted(u)'
Dies ==
    /\ parked' = TRUE
    /\ role' = role
    /\ \A u \in Actor : Admitted(u)' <=> Admitted(u)

LeaseMove ==
    \/ Quiet
    \/ \E a \in Actor : Admits(a) \/ Leaves(a)
    \/ \E t \in Task : Claims(t) \/ GivesUp(t)
    \/ Dies

\* Every step of the protocol is a move of the lease.
LEMMA LeaseStep ==
    ASSUME AdmissionSafe, ExclusiveOwner', Next
    PROVE  LeaseMove
<1> USE AdmissionAssumption DEF Step, Goto, Finish, Refuse, WaitEvent, WakeAll,
   Begins, Idle, gate, counts, locks, work, hardware, shared, local,
   AdmissionSafe, AdmissionInv, TypeOK, Dies, Quiet, LeaseMove, Admits, Leaves,
   Claims, GivesUp, Admitted, AdmittedTx, AdmittedRd, InCalls, InCall,
   WorkerPublishes, TrPc, TePc, RdPc, TxPc, LaPc, PpPc, QcPc, WkPc, TqPc,
   Actor, Lifecycle
<1>1. ASSUME NEW t \in Task, Start(t) PROVE LeaseMove
  BY <1>1 DEF Start, AccessBegin, TransactionBegin, TransitionBegin, Latch
<1>2. ASSUME NEW t \in Task, AccessStep(t) PROVE LeaseMove
  <2>1. CASE ReaderCheck(t)
    BY <2>1 DEF ReaderCheck
  <2>2. CASE ReaderInc(t)
    BY <2>2 DEF ReaderInc
  <2>3. CASE ReaderReread(t)
    BY <2>3 DEF ReaderReread
  <2>4. CASE ReaderValidate(t)
    BY <2>4 DEF ReaderValidate, ReaderAdmits, OwnerAdmitted
  <2>5. CASE ReaderUndo(t)
    BY <2>5 DEF ReaderUndo, ReaderDec
  <2>6. CASE DispositionWait(t)
    BY <2>6 DEF DispositionWait
  <2> QED
    BY <1>2, <2>1, <2>2, <2>3, <2>4, <2>5, <2>6 DEF AccessStep
<1>3. ASSUME NEW t \in Task, TransactionStep(t) PROVE LeaseMove
  <2>1. CASE TxCheck(t)
    BY <2>1 DEF TxCheck
  <2>2. CASE TxClosing(t)
    BY <2>2 DEF TxClosing
  <2>3. CASE TxInc(t)
    BY <2>3 DEF TxInc
  <2>4. CASE TxReread(t)
    BY <2>4 DEF TxReread
  <2>5. CASE TxValidate(t)
    BY <2>5 DEF TxValidate, TxAdmits, OwnerAdmitted
  <2>6. CASE TxUndo(t)
    BY <2>6 DEF TxUndo, TxDec
  <2> QED
    BY <1>3, <2>1, <2>2, <2>3, <2>4, <2>5, <2>6 DEF TransactionStep
<1>4. ASSUME NEW t \in Task, TransitionStep(t) PROVE LeaseMove
  <2>1. CASE TransitionLock(t)
    BY <2>1 DEF TransitionLock
  <2>2. CASE TransitionCheck(t)
    BY <2>2 DEF TransitionCheck
  <2>3. CASE TransitionClose(t)
    BY <2>3 DEF TransitionClose
  <2>4. CASE TransitionDrainTx(t)
    BY <2>4 DEF TransitionDrainTx
  <2>5. CASE TransitionParked(t)
    BY <2>5 DEF TransitionParked
  <2>6. CASE TransitionRefuse(t)
    BY <2>6 DEF TransitionRefuse, PublishParked
  <2>7. CASE TransitionDrainRefused(t)
    BY <2>7 DEF TransitionDrainRefused
  <2>8. CASE TransitionOwn(t)
    BY <2>8 DEF TransitionOwn
  <2>9. CASE TransitionPublish(t)
    BY <2>9 DEF TransitionPublish
  <2>10. CASE TransitionDrainRd(t)
    BY <2>10 DEF TransitionDrainRd
  <2>11. CASE TransitionConfirm(t)
    BY <2>11 DEF TransitionConfirm, OffInv, Drained, TxDrained, RdDrained,
       LocksFollowPc, OwnerCalls, HoldsTrLock, InTransition
  <2>12. CASE TransitionWithdraw(t)
    BY <2>12 DEF TransitionWithdraw, PublishParked
  <2>13. CASE TransitionDisown(t)
    BY <2>13 DEF TransitionDisown
  <2>14. CASE TransitionUnlock(t)
    BY <2>14 DEF TransitionUnlock
  <2> QED
    BY <1>4, <2>1, <2>2, <2>3, <2>4, <2>5, <2>6, <2>7, <2>8, <2>9, <2>10,
       <2>11, <2>12, <2>13, <2>14 DEF TransitionStep
<1>5. ASSUME NEW t \in Task, EndStep(t) PROVE LeaseMove
  <2>1. CASE EndDrain(t)
    BY <2>1 DEF EndDrain
  <2>2. CASE EndDisown(t)
    BY <2>2 DEF EndDisown
  <2>3. CASE EndState(t)
    BY <2>3 DEF EndState, OffInv, ShutdownInv, Ending, Drained, TxDrained,
       RdDrained, LocksFollowPc, HoldsTrLock, InTransition
  <2>4. CASE EndClosing(t)
    BY <2>4 DEF EndClosing
  <2>5. CASE EndUnlock(t)
    BY <2>5 DEF EndUnlock
  <2>6. CASE QuiesceDisable(t)
    BY <2>6 DEF QuiesceDisable
  <2>7. CASE QuiesceSync(t)
    BY <2>7 DEF QuiesceSync
  <2> QED
    BY <1>5, <2>1, <2>2, <2>3, <2>4, <2>5, <2>6, <2>7 DEF EndStep
<1>6. ASSUME NEW t \in Task, AccessEnd(t) PROVE LeaseMove
  BY <1>6 DEF AccessEnd, ReaderDec
<1>7. ASSUME NEW t \in Task, TransactionEnd(t) PROVE LeaseMove
  BY <1>7 DEF TransactionEnd, TxDec
<1>8. ASSUME NEW t \in Task, EndTransition(t) PROVE LeaseMove
  BY <1>8 DEF EndTransition, TransitionEnd
<1>9. ASSUME NEW a \in Actor, PublishStep(a) PROVE LeaseMove
  <2>1. CASE LatchParked(a)
    BY <2>1 DEF LatchParked
  <2>2. CASE LatchClosing(a)
    BY <2>2 DEF LatchClosing
  <2>3. CASE LatchState(a)
    BY <2>3 DEF LatchState, PublishParked
  <2>4. CASE LatchPending(a)
    BY <2>4 DEF LatchPending
  <2>5. CASE PublishLock(a)
    BY <2>5 DEF PublishLock
  <2>6. CASE PublishPubLock(a)
    BY <2>6 DEF PublishPubLock
  <2>7. CASE PublishDrain(a)
    BY <2>7 DEF PublishDrain
  <2>8. CASE PublishContain(a)
    BY <2>8 DEF PublishContain
  <2>9. CASE PublishUnlock(a)
    BY <2>9 DEF PublishUnlock
  <2>10. CASE QueueFlags(a)
    BY <2>10 DEF QueueFlags, QueueCheckReturns
  <2>11. CASE QueueTransactions(a)
    BY <2>11 DEF QueueTransactions, QueueCheckReturns
  <2> QED
    BY <1>9, <2>1, <2>2, <2>3, <2>4, <2>5, <2>6, <2>7, <2>8, <2>9, <2>10, <2>11
       DEF PublishStep
<1>10. ASSUME WorkerStep PROVE LeaseMove
  BY <1>10 DEF WorkerStep, WorkerStart, WorkerInit, WorkerClear, WorkerDone
<1> QED
  BY <1>1, <1>2, <1>3, <1>4, <1>5, <1>6, <1>7, <1>8, <1>9, <1>10 DEF Next,
     Continue

\* A transition with an owner has only that one.
LEMMA OwnerChosen ==
    ASSUME NEW r, \A t, u \in Task : r[t] # "none" /\ r[u] # "none" => t = u,
           NEW e, e = IF \E t \in Task : r[t] # "none"
                      THEN CHOOSE t \in Task : r[t] # "none" ELSE NoTask
    PROVE  /\ \A t \in Task : r[t] # "none" => e = t
           /\ (\A t \in Task : r[t] = "none") => e = NoTask
<1>1. ASSUME NEW t \in Task, r[t] # "none" PROVE e = t
  <2>1. e \in Task /\ r[e] # "none"
    BY <1>1
  <2> QED
    BY <1>1, <2>1
<1> QED
  BY <1>1

\* Every such move is a step of the lease, under the mapping of HardwareAdmission.
LEMMA LeaseMoveMaps ==
    ASSUME AdmissionSafe, ExclusiveOwner, ExclusiveOwner', TypeOK, TypeOK', LeaseMove
    PROVE  [Lease!LeaseNext]_(Lease!lease)
<1> DEFINE H == {a \in Actor : Admitted(a)}
           X == IF \E t \in Task : role[t] # "none"
                THEN CHOOSE t \in Task : role[t] # "none" ELSE NoTask
<1>1. /\ \A t \in Task : role[t] # "none" => X = t
      /\ (\A t \in Task : role[t] = "none") => X = NoTask
  <2>1. \A t, u \in Task : role[t] # "none" /\ role[u] # "none" => t = u
    BY DEF ExclusiveOwner, Actor
  <2> QED
    BY <2>1, OwnerChosen
<1>2. /\ \A t \in Task : role'[t] # "none" => X' = t
      /\ (\A t \in Task : role'[t] = "none") => X' = NoTask
  <2>1. \A t, u \in Task : role'[t] # "none" /\ role'[u] # "none" => t = u
    BY DEF ExclusiveOwner, Actor
  <2> QED
    BY <2>1, OwnerChosen
<1> HIDE DEF X
<1>3. CASE Quiet
  <2>1. H' = H /\ X' = X /\ parked' = parked
    BY <1>3 DEF Quiet, X
  <2> QED
    BY <2>1 DEF Lease!lease, X
<1>4. ASSUME NEW a \in Actor, Admits(a) PROVE Lease!Admit(a)
  <2>1. H' = H \cup {a} /\ X' = X /\ ~parked /\ parked' = parked
    BY <1>4 DEF Admits, X
  <2>2. X \in {NoTask, a}
    <3>1. \A t \in Task : role[t] # "none" => t = a
      BY <1>4 DEF Admits, ExclusiveOwner
    <3> QED
      BY <1>1, <3>1
  <2> QED
    BY <2>1, <2>2 DEF Lease!Admit, X
<1>5. ASSUME NEW a \in Actor, Leaves(a) PROVE Lease!Leave(a)
  <2>1. a \in H /\ H' = H \ {a} /\ X' = X /\ parked' = parked
    BY <1>5 DEF Leaves, X
  <2> QED
    BY <2>1 DEF Lease!Leave, X
<1>6. ASSUME NEW t \in Task, Claims(t) PROVE Lease!Claim(t)
  <2>1. H = {} /\ H' = {} /\ X = NoTask /\ X' = t /\ parked' = parked
    BY <1>1, <1>2, <1>6 DEF Claims
  <2> QED
    BY <2>1 DEF Lease!Claim, X
<1>7. ASSUME NEW t \in Task, GivesUp(t) PROVE Lease!GiveUp(t)
  <2>1. H = {} /\ H' = {} /\ X = t /\ X' = NoTask /\ parked' = parked
    BY <1>1, <1>2, <1>7 DEF GivesUp
  <2> QED
    BY <2>1 DEF Lease!GiveUp, X
<1>8. CASE Dies
  <2>1. H' = H /\ X' = X /\ parked' = TRUE
    BY <1>8 DEF Dies, X
  <2> QED
    BY <2>1 DEF Lease!Die, Lease!LeaseNext, X
<1>9. Task \subseteq Actor
  BY DEF Actor
<1> QED
  BY <1>3, <1>4, <1>5, <1>6, <1>7, <1>8, <1>9 DEF LeaseMove, Lease!LeaseNext

\* The counted protocol implements the lease it promises its callers: shared
\* accessors, one exclusive owner, and nobody admitted to a dead device.
THEOREM LeaseRefinement == Spec => ImplementsLease
<1>1. Init => Lease!LeaseInit
  <2> SUFFICES ASSUME Init PROVE Lease!LeaseInit
    OBVIOUS
  <2>1. \A a \in Actor : ~Admitted(a)
    BY DEF Init, Admitted, AdmittedTx, AdmittedRd
  <2>2. \A t \in Task : role[t] = "none"
    BY DEF Init, Actor
  <2>3. parked = FALSE
    BY DEF Init
  <2> QED
    BY <2>1, <2>2, <2>3 DEF Lease!LeaseInit
<1>2. ASSUME AdmissionSafe, AdmissionSafe', ExclusiveOwner, ExclusiveOwner', [Next]_vars
      PROVE  [Lease!LeaseNext]_(Lease!lease)
  <2>1. TypeOK /\ TypeOK'
    BY <1>2 DEF AdmissionSafe, AdmissionInv
  <2>2. CASE Next
    <3>1. LeaseMove
      BY <1>2, <2>2, LeaseStep
    <3> QED
      BY <1>2, <2>1, <3>1, LeaseMoveMaps
  <2>3. CASE UNCHANGED vars
    BY <2>3 DEF vars, shared, hardware, gate, counts, local, Lease!lease,
       Admitted, AdmittedTx, AdmittedRd
  <2> QED
    BY <1>2, <2>2, <2>3
<1> QED
  BY <1>1, <1>2, SafeInvariance, OwnerExclusive, PTL
     DEF Spec, ImplementsLease, Lease!LeaseSpec
==============================================================================
