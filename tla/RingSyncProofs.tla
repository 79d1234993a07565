---------------------------- MODULE RingSyncProofs ----------------------------
(***************************************************************************)
(* The invariant behind the order of the jobs of several rings, and the    *)
(* proofs that what a ring is noted to have waited for is true, that the   *)
(* memory of the semaphores is kept as long as it is named, and that jobs  *)
(* which share a buffer run in the order of their submission.  For any     *)
(* number of rings, buffers, slots, submissions and failures.              *)
(*                                                                         *)
(* The invariant speaks of every way the rings can go on: a cut of the     *)
(* queues is possible if no ring has passed a wait without its signal, and *)
(* whatever a ring is noted to know holds in every possible cut in which   *)
(* the ring has come to its end.                                           *)
(***************************************************************************)
EXTENDS RingSync, FiniteSetTheorems, FunctionTheorems, SequenceTheorems, TLAPS

-----------------------------------------------------------------------------
(* The least and the greatest of a set *)

\* What Min returns of a set of naturals that is not empty.
LEMMA MinIs ==
  ASSUME NEW S \in SUBSET Nat, S # {}
  PROVE  Min(S) \in S /\ \A y \in S : Min(S) <= y
<1>. DEFINE Less == {ss \in Nat \X Nat : ss[1] < ss[2]}
<1>1. IsWellFoundedOn(Less, Nat)
  BY NatLessThanWellFounded DEF OpToRel
<1>2. PICK x \in S : \A y \in S : ~ (<<y, x>> \in Less)
  BY <1>1, WFMin
<1>3. ASSUME NEW y \in S PROVE x <= y
  <2>1. x \in Nat /\ y \in Nat
    OBVIOUS
  <2>2. ~(y < x)
    <3>1. <<y, x>> \notin Less
      BY <1>2
    <3>2. <<y, x>> \in Nat \X Nat /\ <<y, x>>[1] = y /\ <<y, x>>[2] = x
      BY <2>1
    <3>. QED
      BY <3>1, <3>2
  <2>. QED
    BY <2>1, <2>2
<1>. QED
  BY <1>3 DEF Min

\* What Max returns of a finite set of naturals that is not empty.
LEMMA MaxIs ==
  ASSUME NEW S \in SUBSET Nat, S # {}, NEW n \in Nat, \A y \in S : y <= n
  PROVE  Max(S) \in S /\ \A y \in S : y <= Max(S)
<1>. DEFINE T == {n - y : y \in S}
<1>1. T \in SUBSET Nat
  <2>1. ASSUME NEW y \in S PROVE n - y \in Nat
    <3>1. y \in Nat /\ y <= n
      OBVIOUS
    <3>. QED
      BY <3>1
  <2>. QED
    BY <2>1
<1>2. T # {}
  OBVIOUS
<1>3. PICK t \in T : \A u \in T : t <= u
  <2>. HIDE DEF T
  <2>. QED
    BY <1>1, <1>2, MinIs
<1>4. PICK x \in S : t = n - x
  OBVIOUS
<1>5. ASSUME NEW y \in S PROVE y <= x
  <2>1. n - y \in T
    OBVIOUS
  <2>2. n - x <= n - y
    BY <1>3, <1>4, <2>1
  <2>. QED
    BY <2>2
<1>. QED
  BY <1>4, <1>5 DEF Max

-----------------------------------------------------------------------------
(* The inductive invariant: who waits for what, and what is counted *)

\* What a ring holds: signals, waits and jobs.
Command == {Signal(x) : x \in Slot} \cup {Wait(x) : x \in Slot}
             \cup {Run(n, use) : n \in Nat, use \in Use}

\* A submission that is going on.
Job == [ring : Ring, use : Use, sync_to : [Ring -> Nat], next : 1 .. R + 1,
        waits : Seq({Wait(x) : x \in Slot}), slots : SUBSET Slot, manual : BOOLEAN]

\* The types. A submission is begun only while there is room for its job.
Typed ==
  /\ mute \subseteq Ring
  /\ queue \in [Ring -> Seq(Command)] /\ done \in [Ring -> Nat]
  /\ sync_seq \in [Ring -> [Ring -> Nat]]
  /\ readers \in [Bo -> [Ring -> Nat]] /\ writers \in [Bo -> [Ring -> Nat]]
  /\ claim \in [Slot -> [ring : 0 .. R, seq : 0 .. MaxJobs]] /\ value \in [Slot -> Nat]
  /\ submitted \in 0 .. MaxJobs /\ fails \in 0 .. MaxFail
  /\ Busy => job \in Job /\ submitted < MaxJobs

\* How many of the first i commands of a queue are jobs.
RunsIn(q, i) == Cardinality({k \in 1 .. i : q[k].op = "run"})

\* The last fence ring r will have executed when the first i commands of its queue are
\* done.
Reach(r, i) == done[r] + RunsIn(queue[r], i)

\* Every fence emitted is executed or its job is still queued, and nobody, ring or buffer,
\* has heard of a fence of a ring before the ring emitted it.
Counted ==
  /\ \A r \in Ring : Reach(r, Len(queue[r])) = sync_seq[r][r] /\ sync_seq[r][r] <= submitted
  /\ \A d, s \in Ring : sync_seq[d][s] <= sync_seq[s][s]
  /\ \A o \in Bo, r \in Ring : readers[o][r] <= sync_seq[r][r] /\ writers[o][r] <= sync_seq[r][r]

\* A list of commands waits for slot x.
Asks(w, x) == \E k \in DOMAIN w : w[k] = Wait(x)

\* A wait for slot x is queued or about to be.
Awaited(x) == (\E r \in Ring : Asks(queue[r], x)) \/ (Busy /\ Asks(job.waits, x))

\* A queued wait is the only one for its slot, and the fence the slot comes back with is
\* emitted on the same ring after the wait.
WaitsHold ==
  \A x \in Slot, r \in Ring : \A i \in 1 .. Len(queue[r]) :
    queue[r][i] = Wait(x) =>
      /\ claim[x].ring = r /\ Reach(r, i) < claim[x].seq /\ claim[x].seq <= sync_seq[r][r]
      /\ \A j \in 1 .. Len(queue[r]) : queue[r][j] = Wait(x) => j = i

\* The slots of the submission that is going on are its own, and each is waited for once.
JobHolds ==
  Busy =>
    /\ \A x \in job.slots : claim[x] = Held
    /\ \A x \in Slot : \A k \in DOMAIN job.waits :
         job.waits[k] = Wait(x) =>
           x \in job.slots /\ \A l \in DOMAIN job.waits : job.waits[l] = Wait(x) => l = k

\* The places in the queues where slot x is signalled.
Signals(x) ==
  {p \in Ring \X Nat : p[2] \in 1 .. Len(queue[p[1]]) /\ queue[p[1]][p[2]] = Signal(x)}

\* The signals of a slot, queued or given already, are no more than the waits that will
\* take them; each failed submission may have left one over.
Balanced ==
  \A x \in Slot :
    /\ IsFiniteSet(Signals(x))
    /\ Cardinality(Signals(x)) + value[x] <= (IF Awaited(x) THEN 1 ELSE 0) + fails

-----------------------------------------------------------------------------
(* The inductive invariant: what the rings can rely on *)

\* A cut says how many of its queued commands each ring has executed.
Cut == {c \in [Ring -> Nat] : \A r \in Ring : c[r] <= Len(queue[r])}

\* Slot x has been signalled when the rings are as far as cut c.
Signalled(x, c) ==
  value[x] > 0 \/ \E r \in Ring : \E i \in 1 .. c[r] : queue[r][i] = Signal(x)

\* The rings can be as far as c: every wait they have passed has been signalled.
Possible(c) ==
  \A r \in Ring : \A i \in 1 .. c[r] : \A x \in Slot : queue[r][i] = Wait(x) => Signalled(x, c)

\* Ring d has executed all it has, and the waits about to be queued on it would pass.
Through(d, c) ==
  /\ c[d] = Len(queue[d])
  /\ Busy /\ job.ring = d => \A x \in Slot : Asks(job.waits, x) => Signalled(x, c)

\* However the rings go on, a ring that has executed all it has finds the others as far as
\* sync_seq says it knows.
Knowing ==
  \A c \in Cut : Possible(c) =>
    \A d \in Ring : Through(d, c) => \A s \in Ring : Reach(s, c[s]) >= sync_seq[d][s]

\* A queued job is on its buffers' reservations with its own fence or a later one, and no
\* two jobs have the same number.
Reserved ==
  \A r \in Ring : \A i \in 1 .. Len(queue[r]) : queue[r][i].op = "run" =>
    LET j == queue[r][i].job IN
    /\ j.n < submitted
    /\ \A o \in Bo : /\ j.use[o] = "write" => writers[o][r] >= Reach(r, i)
                     /\ j.use[o] = "read" => readers[o][r] >= Reach(r, i)
    /\ \A q \in Ring : \A m \in 1 .. Len(queue[q]) :
         queue[q][m].op = "run" /\ queue[q][m].job.n = j.n => q = r /\ m = i

\* The submission that is going on has noted every fence it must wait for, and of the
\* rings it has looked at it need wait no more: its ring knows the fence, or it is over.
Synced ==
  Busy =>
    /\ \A s \in Ring : job.sync_to[s] <= sync_seq[s][s]
    /\ \A s \in Ring, o \in Bo :
         /\ job.use[o] # "none" => writers[o][s] <= job.sync_to[s]
         /\ job.use[o] = "write" => readers[o][s] <= job.sync_to[s]
    /\ \A s \in Ring : s < job.next =>
         s = job.ring \/ job.sync_to[s] <= sync_seq[job.ring][s] \/ done[s] >= job.sync_to[s]

\* However the rings go on, a job that has run had no earlier job it conflicts with still
\* to run.
Ordered ==
  \A c \in Cut : Possible(c) =>
    \A r \in Ring : \A i \in 1 .. c[r] : queue[r][i].op = "run" =>
      \A q \in Ring : \A m \in 1 .. Len(queue[q]) :
        /\ queue[q][m].op = "run" /\ queue[q][m].job.n < queue[r][i].job.n
        /\ Order!Conflict(queue[r][i].job, queue[q][m].job)
        => m <= c[q]

\* The inductive invariant. Until a submission fails, what is noted is true and what is
\* queued is in order. After one has failed neither need hold, but the memory is still
\* counted.
SyncInv ==
  /\ Typed /\ Counted /\ WaitsHold /\ JobHolds /\ Balanced /\ Reserved
  /\ fails = 0 => Knowing /\ Synced /\ Ordered

-----------------------------------------------------------------------------
(* Counting *)

\* A command is one of the three, and tells which.
LEMMA CommandKinds ==
  /\ \A c \in Command :
       \/ c.op = "run" /\ c.job.n \in Nat /\ c.job.use \in Use /\ c = Run(c.job.n, c.job.use)
       \/ c.op = "signal" /\ c.slot \in Slot /\ c = Signal(c.slot)
       \/ c.op = "wait" /\ c.slot \in Slot /\ c = Wait(c.slot)
  /\ \A x : Signal(x).op = "signal" /\ Signal(x).slot = x
            /\ Wait(x).op = "wait" /\ Wait(x).slot = x
  /\ \A n, use : Run(n, use).op = "run" /\ Run(n, use).job = [n |-> n, use |-> use]
BY DEF Command, Signal, Wait, Run

\* A count of jobs is a number.
LEMMA RunsInType ==
  ASSUME NEW q, NEW i \in Nat
  PROVE  /\ IsFiniteSet({k \in 1 .. i : q[k].op = "run"})
         /\ RunsIn(q, i) \in Nat
<1>1. IsFiniteSet(1 .. i)
  BY FS_Interval
<1>2. IsFiniteSet({k \in 1 .. i : q[k].op = "run"})
  BY <1>1, FS_Subset
<1>. QED
  BY <1>2, FS_CardinalityType DEF RunsIn

\* There are no jobs before the first command.
LEMMA RunsInZero ==
  ASSUME NEW q
  PROVE  RunsIn(q, 0) = 0
<1>1. {k \in 1 .. 0 : q[k].op = "run"} = {}
  OBVIOUS
<1>. QED
  BY <1>1, FS_EmptySet DEF RunsIn

\* One more command is one more job, or none.
LEMMA RunsInNext ==
  ASSUME NEW q, NEW i \in Nat
  PROVE  RunsIn(q, i + 1) = RunsIn(q, i) + (IF q[i + 1].op = "run" THEN 1 ELSE 0)
<1>. DEFINE A == {k \in 1 .. i : q[k].op = "run"}
            B == {k \in 1 .. i + 1 : q[k].op = "run"}
<1>1. IsFiniteSet(A) /\ i + 1 \notin A
  <2>1. IsFiniteSet(A)
    BY RunsInType
  <2>. QED
    BY <2>1
<1>2. CASE q[i + 1].op = "run"
  <2>1. B = A \cup {i + 1}
    BY <1>2
  <2>2. Cardinality(B) = Cardinality(A) + 1
    <3>. HIDE DEF A, B
    <3>. QED
      BY <1>1, <2>1, FS_AddElement
  <2>. QED
    BY <1>2, <2>2 DEF RunsIn
<1>3. CASE q[i + 1].op # "run"
  <2>1. B = A
    BY <1>3
  <2>2. RunsIn(q, i + 1) = RunsIn(q, i)
    BY <2>1 DEF RunsIn
  <2>3. RunsIn(q, i) \in Nat
    BY RunsInType
  <2>. HIDE DEF A, B
  <2>. QED
    BY <1>3, <2>2, <2>3
<1>. QED
  BY <1>2, <1>3

\* Further along there are as many jobs or more, and more where a job lies between.
LEMMA RunsInMonotone ==
  ASSUME NEW q, NEW i \in Nat, NEW j \in Nat, i <= j
  PROVE  /\ RunsIn(q, i) <= RunsIn(q, j)
         /\ i < j /\ q[j].op = "run" => RunsIn(q, i) < RunsIn(q, j)
<1>1. ASSUME NEW a \in Nat, NEW b \in Nat, a <= b PROVE RunsIn(q, a) <= RunsIn(q, b)
  <2>1. {k \in 1 .. a : q[k].op = "run"} \in SUBSET {k \in 1 .. b : q[k].op = "run"}
    BY <1>1
  <2>2. IsFiniteSet({k \in 1 .. b : q[k].op = "run"})
    BY <1>1, RunsInType
  <2>. QED
    BY <2>1, <2>2, FS_Subset DEF RunsIn
<1>2. ASSUME i < j, q[j].op = "run" PROVE RunsIn(q, i) < RunsIn(q, j)
  <2>1. j - 1 \in Nat /\ i <= j - 1 /\ (j - 1) + 1 = j
    BY <1>2
  <2>2. RunsIn(q, j) = RunsIn(q, j - 1) + 1
    BY <1>2, <2>1, RunsInNext
  <2>3. RunsIn(q, i) <= RunsIn(q, j - 1)
    BY <1>1, <2>1
  <2>4. RunsIn(q, i) \in Nat /\ RunsIn(q, j - 1) \in Nat
    BY <2>1, RunsInType
  <2>. QED
    BY <2>2, <2>3, <2>4
<1>. QED
  BY <1>1, <1>2

\* When the first command is gone, so is its job.
LEMMA RunsInTail ==
  ASSUME NEW q \in Seq(Command), q # <<>>, NEW i \in 0 .. Len(q) - 1
  PROVE  RunsIn(Tail(q), i) = RunsIn(q, i + 1) - (IF Head(q).op = "run" THEN 1 ELSE 0)
<1>. DEFINE T == {k \in 1 .. i : Tail(q)[k].op = "run"}
            S == {k \in 1 .. i + 1 : q[k].op = "run"}
            f == [k \in T |-> k + 1]
<1>1. /\ Len(q) \in Nat \ {0} /\ Len(Tail(q)) = Len(q) - 1 /\ Head(q) = q[1]
      /\ \A k \in 1 .. Len(q) - 1 : Tail(q)[k] = q[k + 1]
  OBVIOUS
<1>2. IsFiniteSet(T) /\ IsFiniteSet(S)
  <2>1. i \in Nat /\ i + 1 \in Nat
    BY <1>1
  <2>2. IsFiniteSet(T)
    BY <2>1, RunsInType
  <2>3. IsFiniteSet(S)
    BY <2>1, RunsInType
  <2>. QED
    BY <2>2, <2>3
<1>3. f \in Bijection(T, S \ {1})
  <2>1. \A k \in T : k + 1 \in S \ {1}
    BY <1>1
  <2>2. \A m \in S \ {1} : \E k \in T : m = k + 1
    <3>1. ASSUME NEW m \in S \ {1} PROVE m - 1 \in T /\ m = (m - 1) + 1
      BY <1>1
    <3>. QED
      BY <3>1
  <2>3. \A k, l \in T : k + 1 = l + 1 => k = l
    BY <1>1
  <2>4. f \in [T -> S \ {1}] /\ \A k \in T : f[k] = k + 1
    BY <2>1
  <2>. HIDE DEF f, S, T
  <2>. QED
    BY <2>2, <2>3, <2>4 DEF Bijection, Injection, Surjection, IsInjective
<1>4. Cardinality(S \ {1}) = Cardinality(T)
  <2>. HIDE DEF S, T, f
  <2>1. ExistsBijection(T, S \ {1})
    BY <1>3 DEF ExistsBijection
  <2>. QED
    BY <1>2, <2>1, FS_Bijection
<1>5. Cardinality(S \ {1}) = IF 1 \in S THEN Cardinality(S) - 1 ELSE Cardinality(S)
  <2>. HIDE DEF S, T, f
  <2>. QED
    BY <1>2, FS_RemoveElement
<1>6. 1 \in S <=> Head(q).op = "run"
  BY <1>1
<1>7. Cardinality(S) \in Nat
  <2>. HIDE DEF S, T, f
  <2>. QED
    BY <1>2, FS_CardinalityType
<1>8. RunsIn(Tail(q), i) = Cardinality(T) /\ RunsIn(q, i + 1) = Cardinality(S)
  BY DEF RunsIn
<1>. HIDE DEF S, T, f
<1>. QED
  BY <1>4, <1>5, <1>6, <1>7, <1>8

-----------------------------------------------------------------------------
(* What the steps do to the queues *)

\* The types of one ring.
LEMMA QueueTypes ==
  ASSUME Typed, NEW r \in Ring
  PROVE  /\ queue[r] \in Seq(Command) /\ Len(queue[r]) \in Nat
         /\ \A i \in 1 .. Len(queue[r]) : queue[r][i] \in Command
         /\ done[r] \in Nat
<1>1. queue[r] \in Seq(Command) /\ done[r] \in Nat
  BY DEF Typed
<1>. QED
  BY <1>1

\* A ring reaches a fence, at least the one it has executed.
LEMMA ReachType ==
  ASSUME Typed, NEW r \in Ring, NEW i \in Nat
  PROVE  Reach(r, i) \in Nat /\ done[r] <= Reach(r, i) /\ Reach(r, 0) = done[r]
<1>1. RunsIn(queue[r], i) \in Nat /\ RunsIn(queue[r], 0) = 0 /\ done[r] \in Nat
  BY RunsInType, RunsInZero, QueueTypes
<1>. QED
  BY <1>1 DEF Reach

\* Further along a ring reaches the same fence or a later one, and a later one where a job
\* lies between.
LEMMA ReachMonotone ==
  ASSUME Typed, NEW r \in Ring, NEW i \in Nat, NEW j \in Nat, i <= j
  PROVE  /\ Reach(r, i) <= Reach(r, j)
         /\ i < j /\ queue[r][j].op = "run" => Reach(r, i) < Reach(r, j)
<1>1. /\ RunsIn(queue[r], i) <= RunsIn(queue[r], j)
      /\ i < j /\ queue[r][j].op = "run" => RunsIn(queue[r], i) < RunsIn(queue[r], j)
  BY RunsInMonotone
<1>2. RunsIn(queue[r], i) \in Nat /\ RunsIn(queue[r], j) \in Nat /\ done[r] \in Nat
  BY RunsInType, QueueTypes
<1>. QED
  BY <1>1, <1>2 DEF Reach

\* What executing a command does to the queues.
LEMMA Executed ==
  ASSUME Typed, NEW r \in Ring, Execute(r)
  PROVE  /\ Len(queue[r]) \in Nat \ {0} /\ queue[r][1] \in Command
         /\ queue' \in [Ring -> Seq(Command)]
         /\ Len(queue'[r]) = Len(queue[r]) - 1
         /\ \A i \in 1 .. Len(queue'[r]) : queue'[r][i] = queue[r][i + 1]
         /\ \A q \in Ring : q # r => queue'[q] = queue[q]
         /\ Head(queue[r]) = queue[r][1] /\ queue'[r] = Tail(queue[r]) /\ queue[r] # <<>>
<1>1. queue[r] \in Seq(Command) /\ queue[r] # <<>> /\ queue \in [Ring -> Seq(Command)]
  BY DEF Typed, Execute
<1>2. /\ Tail(queue[r]) \in Seq(Command) /\ Len(Tail(queue[r])) = Len(queue[r]) - 1
      /\ \A i \in 1 .. Len(Tail(queue[r])) : Tail(queue[r])[i] = queue[r][i + 1]
      /\ Head(queue[r]) = queue[r][1] /\ Len(queue[r]) \in Nat \ {0}
      /\ queue[r][1] \in Command
  BY <1>1
<1>3. queue' = [queue EXCEPT ![r] = Tail(queue[r])]
  BY DEF Execute
<1>4. queue'[r] = Tail(queue[r]) /\ \A q \in Ring : q # r => queue'[q] = queue[q]
  BY <1>1, <1>3
<1>5. queue' \in [Ring -> Seq(Command)]
  BY <1>1, <1>2, <1>3
<1>. QED
  BY <1>1, <1>2, <1>4, <1>5

\* The head of the queue: a job ends, a signal is given, or a wait takes one.
LEMMA ExecutedHead ==
  ASSUME Typed, NEW r \in Ring, Execute(r)
  PROVE  LET c == queue[r][1] IN
         \/ /\ c.op = "run" /\ done' = [done EXCEPT ![r] = @ + 1] /\ value' = value
         \/ /\ c.op = "signal" /\ c.slot \in Slot /\ c = Signal(c.slot)
            /\ value' = [value EXCEPT ![c.slot] = @ + 1] /\ done' = done
         \/ /\ c.op = "wait" /\ c.slot \in Slot /\ c = Wait(c.slot) /\ value[c.slot] > 0
            /\ value' = [value EXCEPT ![c.slot] = @ - 1] /\ done' = done
<1>1. queue[r][1] \in Command /\ Head(queue[r]) = queue[r][1]
  BY Executed
<1>2. LET c == Head(queue[r]) IN
       \/ c.op = "run" /\ done' = [done EXCEPT ![r] = @ + 1] /\ UNCHANGED value
       \/ c.op = "signal" /\ value' = [value EXCEPT ![c.slot] = @ + 1] /\ UNCHANGED done
       \/ /\ c.op = "wait" /\ value[c.slot] > 0
          /\ value' = [value EXCEPT ![c.slot] = @ - 1] /\ UNCHANGED done
  BY DEF Execute
<1>. QED
  BY <1>1, <1>2, CommandKinds

\* Executing a command does not change which fence the later commands reach.
LEMMA ReachExecuted ==
  ASSUME Typed, NEW r \in Ring, Execute(r), NEW q \in Ring, NEW i \in 0 .. Len(queue'[q])
  PROVE  Reach(q, i)' = Reach(q, IF q = r THEN i + 1 ELSE i)
<1>1. done \in [Ring -> Nat]
  BY DEF Typed
<1>2. CASE q # r
  <2>1. queue'[q] = queue[q] /\ done'[q] = done[q]
    BY <1>1, <1>2, Executed, ExecutedHead
  <2>. QED
    BY <1>2, <2>1 DEF Reach
<1>3. CASE q = r
  <2>1. /\ queue[r] \in Seq(Command) /\ queue[r] # <<>> /\ queue'[r] = Tail(queue[r])
        /\ i \in 0 .. Len(queue[r]) - 1 /\ Head(queue[r]) = queue[r][1]
    BY <1>3, Executed, QueueTypes
  <2>2. RunsIn(queue'[r], i)
          = RunsIn(queue[r], i + 1) - (IF queue[r][1].op = "run" THEN 1 ELSE 0)
    BY <2>1, RunsInTail
  <2>3. done'[r] = done[r] + (IF queue[r][1].op = "run" THEN 1 ELSE 0)
    BY <1>1, ExecutedHead
  <2>4. RunsIn(queue[r], i + 1) \in Nat /\ done[r] \in Nat
    <3>1. i + 1 \in Nat
      BY <2>1, QueueTypes
    <3>. QED
      BY <1>1, <3>1, RunsInType
  <2>. QED
    BY <1>3, <2>2, <2>3, <2>4 DEF Reach
<1>. QED
  BY <1>2, <1>3

\* The types of the submission that is going on.
LEMMA JobTypes ==
  ASSUME Typed, Busy
  PROVE  /\ job.ring \in Ring /\ job.use \in Use /\ job.sync_to \in [Ring -> Nat]
         /\ job.next \in 1 .. R + 1 /\ job.slots \in SUBSET Slot /\ job.manual \in BOOLEAN
         /\ job.waits \in Seq({Wait(x) : x \in Slot}) /\ Len(job.waits) \in Nat
         /\ DOMAIN job.waits = 1 .. Len(job.waits)
         /\ \A k \in 1 .. Len(job.waits) :
              /\ \E x \in Slot : job.waits[k] = Wait(x)
              /\ job.waits[k] \in Command /\ job.waits[k].op = "wait"
<1>1. job \in Job
  BY DEF Typed
<1>2. job.waits \in Seq({Wait(x) : x \in Slot})
  BY <1>1 DEF Job
<1>3. Len(job.waits) \in Nat /\ DOMAIN job.waits = 1 .. Len(job.waits)
  BY <1>2
<1>4. \A k \in 1 .. Len(job.waits) : job.waits[k] \in {Wait(x) : x \in Slot}
  BY <1>2
<1>5. \A x \in Slot : Wait(x) \in Command /\ Wait(x).op = "wait"
  BY DEF Command, Wait
<1>6. /\ job.ring \in Ring /\ job.use \in Use /\ job.sync_to \in [Ring -> Nat]
      /\ job.next \in 1 .. R + 1 /\ job.slots \in SUBSET Slot /\ job.manual \in BOOLEAN
  BY <1>1 DEF Job
<1>. QED
  BY <1>2, <1>3, <1>4, <1>5, <1>6

\* What emitting a job does to the queues.
LEMMA Emitted ==
  ASSUME Typed, Busy, NEW failed, Emit(failed)
  PROVE  LET r == job.ring  old == Len(queue[r])  n == Len(job.waits) IN
         /\ queue' \in [Ring -> Seq(Command)]
         /\ Len(queue'[r]) = old + n + 1
         /\ \A i \in 1 .. old : queue'[r][i] = queue[r][i]
         /\ \A k \in 1 .. n : queue'[r][old + k] = job.waits[k]
         /\ queue'[r][old + n + 1] = Run(submitted, job.use)
         /\ \A q \in Ring : q # r => queue'[q] = queue[q]
<1>1. PICK r : r = job.ring
  OBVIOUS
<1>2. PICK q : q = queue[r]
  OBVIOUS
<1>3. PICK w : w = job.waits
  OBVIOUS
<1>4. PICK c : c = Run(submitted, job.use)
  OBVIOUS
<1>5. r \in Ring /\ q \in Seq(Command)
  BY <1>1, <1>2, JobTypes, QueueTypes
<1>6. w \in Seq(Command)
  <2>1. PICK W : W = {Wait(x) : x \in Slot}
    OBVIOUS
  <2>2. w \in Seq(W)
    BY <1>3, <2>1, JobTypes
  <2>3. W \subseteq Command
    BY <2>1 DEF Command
  <2>. QED
    BY <2>2, <2>3, SeqMonotonic
<1>7. c \in Command
  <2>1. submitted \in Nat
    BY SyncAssumption DEF Typed
  <2>2. job.use \in Use
    BY JobTypes
  <2>. QED
    BY <1>4, <2>1, <2>2 DEF Command
<1>8. <<c>> \in Seq(Command) /\ Len(<<c>>) = 1 /\ <<c>>[1] = c
  BY <1>7
<1>9. PICK p : p = q \o w
  OBVIOUS
<1>10. /\ p \in Seq(Command) /\ Len(p) = Len(q) + Len(w)
       /\ \A i \in 1 .. Len(q) : p[i] = q[i]
       /\ \A k \in 1 .. Len(w) : p[Len(q) + k] = w[k]
  BY <1>5, <1>6, <1>9
<1>11. PICK z : z = p \o <<c>>
  OBVIOUS
<1>12. /\ z \in Seq(Command) /\ Len(z) = Len(p) + 1
       /\ \A i \in 1 .. Len(p) : z[i] = p[i]
       /\ z[Len(p) + 1] = c
  BY <1>7, <1>8, <1>10, <1>11
<1>13. Len(q) \in Nat /\ Len(w) \in Nat
  BY <1>5, <1>6
<1>14. /\ Len(z) = Len(q) + Len(w) + 1
       /\ \A i \in 1 .. Len(q) : z[i] = q[i]
       /\ \A k \in 1 .. Len(w) : z[Len(q) + k] = w[k]
       /\ z[Len(q) + Len(w) + 1] = c
  BY <1>10, <1>12, <1>13
<1>15. queue' = [queue EXCEPT ![r] = z]
  BY <1>1, <1>2, <1>3, <1>4, <1>9, <1>11 DEF Emit
<1>16. queue \in [Ring -> Seq(Command)]
  BY DEF Typed
<1>17. /\ queue' \in [Ring -> Seq(Command)] /\ queue'[r] = z
       /\ \A s \in Ring : s # r => queue'[s] = queue[s]
  BY <1>5, <1>12, <1>15, <1>16
<1>. QED
  BY <1>1, <1>2, <1>3, <1>4, <1>14, <1>17

\* Synchronize, where one of the rings takes no semaphores.
Refused(x) ==
  /\ job' = [job EXCEPT !.slots = @ \cup {x}, !.manual = TRUE]
  /\ queue' = queue /\ sync_seq' = sync_seq

\* Synchronize, where ring s signals the semaphore.
Given(s, x) ==
  /\ queue' = [queue EXCEPT ![s] = Append(@, Signal(x))]
  /\ job' = [job EXCEPT !.slots = @ \cup {x}, !.next = s + 1, !.waits = Append(@, Wait(x))]
  /\ NoteSync(job.ring, s)

\* Synchronize, for the ring s that is due and the slot x that is taken.
SyncedWith(s, x) ==
  /\ s \in Ring /\ s # job.ring /\ job.next <= s /\ \A q \in job.next .. (s - 1) : ~NeedSync(q)
  /\ x \in Slot /\ Available(x)
  /\ claim' = [claim EXCEPT ![x] = Held] /\ value' = [value EXCEPT ![x] = 0]
  /\ Refused(x) \/ Given(s, x)
  /\ UNCHANGED <<mute, done, resv, submitted, fails>>

\* The first ring that is due is a ring, and none before it is due.
LEMMA FirstDue ==
  ASSUME Typed, Busy, Due # {}
  PROVE  /\ Min(Due) \in Ring /\ NeedSync(Min(Due)) /\ job.next <= Min(Due)
         /\ \A q \in job.next .. (Min(Due) - 1) : ~NeedSync(q)
<1>1. job.next \in 1 .. R + 1 /\ R \in Nat
  BY JobTypes, SyncAssumption
<1>2. Due \in SUBSET Nat
  BY <1>1 DEF Due
<1>3. Min(Due) \in Due /\ \A y \in Due : Min(Due) <= y
  BY <1>2, MinIs
<1>4. Min(Due) \in job.next .. R /\ NeedSync(Min(Due))
  BY <1>3 DEF Due
<1>5. \A q \in job.next .. (Min(Due) - 1) : q \in job.next .. R /\ ~(Min(Due) <= q)
  BY <1>1, <1>4
<1>. QED
  BY <1>1, <1>3, <1>4, <1>5 DEF Due, Ring

\* Every synchronisation is one with a ring and a slot.
LEMMA SynchronizeSteps ==
  ASSUME Typed, Synchronize
  PROVE  \E s, x : SyncedWith(s, x)
<1>1. Busy /\ Due # {}
  BY DEF Synchronize
<1>2. PICK s : s = Min(Due)
  OBVIOUS
<1>3. s \in Ring /\ NeedSync(s) /\ job.next <= s /\ \A q \in job.next .. (s - 1) : ~NeedSync(q)
  BY <1>1, <1>2, FirstDue
<1>4. PICK x \in Slot :
        /\ Available(x)
        /\ claim' = [claim EXCEPT ![x] = Held] /\ value' = [value EXCEPT ![x] = 0]
        /\ Refused(x) \/ Given(s, x)
  BY <1>2 DEF Synchronize, Refused, Given
<1>5. UNCHANGED <<mute, done, resv, submitted, fails>>
  BY DEF Synchronize
<1>6. s # job.ring
  BY <1>3 DEF NeedSync
<1>. QED
  BY <1>3, <1>4, <1>5, <1>6 DEF SyncedWith

\* What giving a signal does to the queues and to the submission.
LEMMA GivenQueues ==
  ASSUME Typed, Busy, NEW s, NEW x, SyncedWith(s, x), Given(s, x)
  PROVE  /\ queue' \in [Ring -> Seq(Command)]
         /\ Len(queue'[s]) = Len(queue[s]) + 1
         /\ \A i \in 1 .. Len(queue[s]) : queue'[s][i] = queue[s][i]
         /\ queue'[s][Len(queue[s]) + 1] = Signal(x)
         /\ \A q \in Ring : q # s => queue'[q] = queue[q]
         /\ Len(job.waits') = Len(job.waits) + 1
         /\ DOMAIN job.waits' = 1 .. Len(job.waits) + 1
         /\ \A k \in 1 .. Len(job.waits) : job.waits'[k] = job.waits[k]
         /\ job.waits'[Len(job.waits) + 1] = Wait(x)
         /\ job' \in Job /\ job.ring' = job.ring /\ job.use' = job.use
              /\ job.sync_to' = job.sync_to
         /\ job.next' = s + 1 /\ job.slots' = job.slots \cup {x} /\ Busy'
<1>1. s \in Ring /\ x \in Slot /\ queue \in [Ring -> Seq(Command)] /\ queue[s] \in Seq(Command)
  BY QueueTypes DEF SyncedWith, Typed
<1>2. Signal(x) \in Command
  BY <1>1 DEF Command
<1>3. PICK q : q = Append(queue[s], Signal(x))
  OBVIOUS
<1>4. /\ q \in Seq(Command) /\ Len(q) = Len(queue[s]) + 1
      /\ \A i \in 1 .. Len(queue[s]) : q[i] = queue[s][i]
      /\ q[Len(queue[s]) + 1] = Signal(x)
  BY <1>1, <1>2, <1>3
<1>5. queue' = [queue EXCEPT ![s] = q]
  BY <1>3 DEF Given
<1>6. /\ queue' \in [Ring -> Seq(Command)] /\ queue'[s] = q
      /\ \A r \in Ring : r # s => queue'[r] = queue[r]
  BY <1>1, <1>4, <1>5
<1>7. PICK w : w = Append(job.waits, Wait(x))
  OBVIOUS
<1>8. PICK W : W = {Wait(y) : y \in Slot}
  OBVIOUS
<1>9. /\ w \in Seq(W) /\ Len(w) = Len(job.waits) + 1
      /\ DOMAIN w = 1 .. Len(job.waits) + 1
      /\ \A k \in 1 .. Len(job.waits) : w[k] = job.waits[k]
      /\ w[Len(job.waits) + 1] = Wait(x)
  <2>1. job.waits \in Seq(W) /\ Wait(x) \in W
    BY <1>1, <1>8, JobTypes
  <2>2. /\ w \in Seq(W) /\ Len(w) = Len(job.waits) + 1
        /\ \A k \in 1 .. Len(job.waits) : w[k] = job.waits[k]
        /\ w[Len(job.waits) + 1] = Wait(x)
    BY <1>7, <2>1, AppendProperties
  <2>3. DOMAIN w = 1 .. Len(w)
    BY <2>2
  <2>. QED
    BY <2>2, <2>3
<1>10. job' = [job EXCEPT !.slots = @ \cup {x}, !.next = s + 1, !.waits = w]
  BY <1>7 DEF Given
<1>11. job \in Job /\ s + 1 \in 1 .. R + 1 /\ job.slots \cup {x} \in SUBSET Slot
  <2>1. job \in Job
    BY DEF Typed
  <2>2. s + 1 \in 1 .. R + 1
    BY <1>1, SyncAssumption DEF Ring
  <2>3. job.slots \cup {x} \in SUBSET Slot
    BY <1>1, JobTypes
  <2>. QED
    BY <2>1, <2>2, <2>3
<1>12. /\ job.waits' = w /\ job' \in Job /\ job.ring' = job.ring /\ job.use' = job.use
       /\ job.sync_to' = job.sync_to
       /\ job.next' = s + 1 /\ job.slots' = job.slots \cup {x}
  BY <1>8, <1>9, <1>10, <1>11 DEF Job
<1>13. Busy'
  <2>1. job.ring' \in Ring
    BY <1>12, JobTypes
  <2>. QED
    BY <2>1, SyncAssumption DEF Busy, NoJob, Ring
<1>. QED
  BY <1>4, <1>6, <1>9, <1>12, <1>13

\* Commands that stay reach the same fence.
LEMMA ReachKept ==
  ASSUME NEW q, NEW i \in Nat, done'[q] = done[q],
         \A k \in 1 .. i : queue'[q][k] = queue[q][k]
  PROVE  Reach(q, i)' = Reach(q, i)
<1>1. {k \in 1 .. i : queue'[q][k].op = "run"} = {k \in 1 .. i : queue[q][k].op = "run"}
  OBVIOUS
<1>. QED
  BY <1>1 DEF Reach, RunsIn

\* The ring of the submission, the length of its queue and the number of waits, as they
\* are now: constants of the step they are named in.
Sizes(r, old, n) == r = job.ring /\ old = Len(queue[r]) /\ n = Len(job.waits)

\* Emitting a job changes no fence that was reached; the waits reach the last one and the
\* job the next.
LEMMA ReachEmitted ==
  ASSUME Typed, Busy, NEW failed, Emit(failed), NEW r, NEW old, NEW n, Sizes(r, old, n)
  PROVE  /\ \A q \in Ring : \A i \in 0 .. Len(queue[q]) : Reach(q, i)' = Reach(q, i)
         /\ \A k \in 0 .. n : Reach(r, old + k)' = Reach(r, old)
         /\ Reach(r, old + n + 1)' = Reach(r, old) + 1
<1>1. r = job.ring
  BY DEF Sizes
<1>2. old = Len(queue[r])
  BY DEF Sizes
<1>3. n = Len(job.waits)
  BY DEF Sizes
<1>4. r \in Ring /\ n \in Nat /\ old \in Nat
  BY <1>1, <1>2, <1>3, JobTypes, QueueTypes
<1>5. /\ Len(queue'[r]) = old + n + 1
      /\ \A i \in 1 .. old : queue'[r][i] = queue[r][i]
      /\ \A k \in 1 .. n : queue'[r][old + k] = job.waits[k]
      /\ queue'[r][old + n + 1] = Run(submitted, job.use)
      /\ \A q \in Ring : q # r => queue'[q] = queue[q]
  BY <1>1, <1>2, <1>3, Emitted
<1>6. done' = done
  BY DEF Emit
<1>7. ASSUME NEW q \in Ring, NEW i \in 0 .. Len(queue[q])
      PROVE  Reach(q, i)' = Reach(q, i)
  <2>1. i \in Nat /\ i <= Len(queue[q]) /\ Len(queue[q]) \in Nat
    BY QueueTypes
  <2>2. \A k \in 1 .. i : queue'[q][k] = queue[q][k]
    <3>1. CASE q # r
      BY <1>5, <3>1
    <3>2. CASE q = r
      BY <1>2, <1>5, <2>1, <3>2
    <3>. QED
      BY <3>1, <3>2
  <2>. QED
    BY <1>6, <2>1, <2>2, ReachKept
<1>8. ASSUME NEW k \in 0 .. n PROVE Reach(r, old + k)' = Reach(r, old)
  <2>1. {j \in 1 .. old + k : queue'[r][j].op = "run"} = {j \in 1 .. old : queue'[r][j].op = "run"}
    <3>1. ASSUME NEW j \in 1 .. old + k, j > old PROVE queue'[r][j].op # "run"
      <4>1. j - old \in 1 .. n /\ old + (j - old) = j
        BY <1>4, <3>1
      <4>2. queue'[r][j] = job.waits[j - old]
        BY <1>5, <4>1
      <4>. QED
        BY <1>3, <4>1, <4>2, JobTypes
    <3>. QED
      BY <1>4, <3>1
  <2>2. Reach(r, old + k)' = Reach(r, old)'
    BY <2>1 DEF Reach, RunsIn
  <2>3. old \in 0 .. Len(queue[r])
    BY <1>2, <1>4
  <2>. QED
    BY <1>4, <1>7, <2>2, <2>3
<1>9. Reach(r, old + n + 1)' = Reach(r, old) + 1
  <2>1. PICK m \in Nat : m = old + n
    BY <1>4
  <2>2. PICK a \in Nat : a = RunsIn(queue'[r], m)
    BY <2>1, RunsInType
  <2>3. queue'[r][m + 1].op = "run"
    BY <1>5, <2>1 DEF Run
  <2>4. RunsIn(queue'[r], m + 1) = a + 1
    BY <2>1, <2>2, <2>3, RunsInNext
  <2>5. Reach(r, m)' = Reach(r, old)
    <3>1. n \in 0 .. n
      BY <1>4
    <3>. QED
      BY <1>8, <2>1, <3>1
  <2>6. Reach(r, m)' = done'[r] + a /\ Reach(r, m + 1)' = done'[r] + (a + 1)
    BY <2>2, <2>4 DEF Reach
  <2>7. done'[r] \in Nat
    BY <1>4, <1>6, QueueTypes
  <2>8. Reach(r, m + 1)' = Reach(r, old) + 1
    BY <2>2, <2>5, <2>6, <2>7
  <2>. QED
    BY <2>1, <2>8
<1>. QED
  BY <1>7, <1>8, <1>9

\* Nor does a signal.
LEMMA ReachGiven ==
  ASSUME Typed, Busy, NEW s, NEW x, SyncedWith(s, x), Given(s, x),
         NEW old, old = Len(queue[s])
  PROVE  /\ \A q \in Ring : \A i \in 0 .. Len(queue[q]) : Reach(q, i)' = Reach(q, i)
         /\ Reach(s, old + 1)' = Reach(s, old)
<1>1. s \in Ring /\ done' = done
  BY DEF SyncedWith
<1>2. ASSUME NEW q \in Ring, NEW i \in 0 .. Len(queue[q])
      PROVE  Reach(q, i)' = Reach(q, i)
  <2>1. i \in Nat /\ i <= Len(queue[q]) /\ Len(queue[q]) \in Nat
    BY QueueTypes
  <2>2. \A k \in 1 .. i : queue'[q][k] = queue[q][k]
    BY <2>1, GivenQueues
  <2>. QED
    BY <1>1, <2>1, <2>2, ReachKept
<1>3. Reach(s, old + 1)' = Reach(s, old)
  <2>1. old \in Nat /\ old \in 0 .. Len(queue[s])
    BY <1>1, QueueTypes
  <2>2. RunsIn(queue'[s], old + 1) = RunsIn(queue'[s], old)
    <3>1. queue'[s][old + 1].op # "run"
      BY GivenQueues, CommandKinds
    <3>2. RunsIn(queue'[s], old) \in Nat
      BY <2>1, RunsInType
    <3>3. RunsIn(queue'[s], old + 1)
            = RunsIn(queue'[s], old) + (IF queue'[s][old + 1].op = "run" THEN 1 ELSE 0)
      BY <2>1, RunsInNext
    <3>. QED
      BY <3>1, <3>2, <3>3
  <2>3. Reach(s, old)' = Reach(s, old)
    BY <1>1, <1>2, <2>1
  <2>. QED
    BY <2>2, <2>3 DEF Reach
<1>. QED
  BY <1>2, <1>3

-----------------------------------------------------------------------------
(* Types and counts *)

\* The types of a claim.
LEMMA ClaimsTyped ==
  ASSUME Typed, NEW x \in Slot
  PROVE  claim[x].ring \in 0 .. R /\ claim[x].seq \in 0 .. MaxJobs
BY DEF Typed

\* Executing a command keeps the types.
LEMMA ExecuteTyped ==
  ASSUME Typed, NEW r \in Ring, Execute(r)
  PROVE  Typed'
<1>1. queue' \in [Ring -> Seq(Command)]
  BY Executed
<1>2. done' \in [Ring -> Nat]
  <2>1. done \in [Ring -> Nat]
    BY DEF Typed
  <2>2. done' = done \/ done' = [done EXCEPT ![r] = @ + 1]
    BY ExecutedHead
  <2>. QED
    BY <2>1, <2>2
<1>3. value' \in [Slot -> Nat]
  <2>1. value \in [Slot -> Nat]
    BY DEF Typed
  <2>2. \/ value' = value
        \/ \E x \in Slot : value' = [value EXCEPT ![x] = @ + 1]
        \/ \E x \in Slot : value[x] > 0 /\ value' = [value EXCEPT ![x] = @ - 1]
    BY ExecutedHead
  <2>3. ASSUME NEW x \in Slot, value[x] > 0, value' = [value EXCEPT ![x] = @ - 1]
        PROVE  value' \in [Slot -> Nat]
    <3>1. value[x] - 1 \in Nat
      BY <2>1, <2>3
    <3>. QED
      BY <2>1, <2>3, <3>1
  <2>4. ASSUME NEW x \in Slot, value' = [value EXCEPT ![x] = @ + 1]
        PROVE  value' \in [Slot -> Nat]
    BY <2>1, <2>4
  <2>. QED
    BY <2>1, <2>2, <2>3, <2>4
<1>4. UNCHANGED <<mute, sync_seq, readers, writers, claim, job, submitted, fails>>
  BY DEF Execute, resv
<1>. QED
  BY <1>1, <1>2, <1>3, <1>4 DEF Typed, Busy

\* Beginning a submission keeps the types; it knows what it must wait for, and has looked
\* at no ring.
LEMMA BeginTyped ==
  ASSUME Typed, Counted, NEW r \in Ring, NEW use \in Use, Begin(r, use)
  PROVE  Typed' /\ Synced' /\ Busy' /\ job.waits' = <<>> /\ job.slots' = {} /\ job.ring' = r
<1>1. ASSUME NEW s \in Ring
      PROVE  /\ SyncTo(use)[s] \in 0 .. sync_seq[s][s]
             /\ \A o \in Bo : Fences(use, o, s) <= SyncTo(use)[s]
  <2>1. PICK S : S = {0} \cup {Fences(use, o, s) : o \in Bo}
    OBVIOUS
  <2>2. sync_seq[s][s] \in Nat
    BY DEF Typed
  <2>3. \A o \in Bo : Fences(use, o, s) \in Nat /\ Fences(use, o, s) <= sync_seq[s][s]
    <3>1. ASSUME NEW o \in Bo
          PROVE  Fences(use, o, s) \in Nat /\ Fences(use, o, s) <= sync_seq[s][s]
      <4>1. /\ readers[o][s] \in Nat /\ writers[o][s] \in Nat
            /\ readers[o][s] <= sync_seq[s][s] /\ writers[o][s] <= sync_seq[s][s]
        BY DEF Typed, Counted
      <4>2. use[o] \in {"none", "read", "write"}
        BY DEF Use
      <4>. QED
        BY <2>2, <4>1, <4>2 DEF Fences, Larger
    <3>. QED
      BY <3>1
  <2>4. S \in SUBSET Nat /\ S # {} /\ \A y \in S : y <= sync_seq[s][s]
    BY <2>1, <2>2, <2>3
  <2>5. Max(S) \in S /\ \A y \in S : y <= Max(S)
    BY <2>2, <2>4, MaxIs
  <2>6. SyncTo(use)[s] = Max(S)
    BY <2>1 DEF SyncTo
  <2>. QED
    BY <2>1, <2>2, <2>4, <2>5, <2>6
<1>2. job' = [ring |-> r, use |-> use, sync_to |-> SyncTo(use), next |-> 1,
              waits |-> <<>>, slots |-> {}, manual |-> FALSE]
  BY DEF Begin
<1>3. SyncTo(use) \in [Ring -> Nat]
  <2>1. \A s \in Ring : SyncTo(use)[s] \in Nat
    <3>1. \A s \in Ring : sync_seq[s][s] \in Nat
      BY DEF Typed
    <3>. QED
      BY <1>1, <3>1
  <2>2. SyncTo(use) = [s \in Ring |-> SyncTo(use)[s]]
    BY DEF SyncTo
  <2>. QED
    BY <2>1, <2>2
<1>4. 1 \in 1 .. R + 1 /\ <<>> \in Seq({Wait(x) : x \in Slot})
  BY SyncAssumption
<1>5. job' \in Job
  BY <1>2, <1>3, <1>4 DEF Job
<1>6. /\ job.waits' = <<>> /\ job.slots' = {} /\ job.ring' = r /\ job.next' = 1
      /\ job.sync_to' = SyncTo(use) /\ job.use' = use
  BY <1>2
<1>7. Busy'
  BY <1>6, SyncAssumption DEF Busy, NoJob, Ring
<1>8. /\ UNCHANGED <<mute, queue, done, sync_seq, readers, writers, claim, value, submitted,
           fails>>
      /\ submitted < MaxJobs
  BY DEF Begin, resv
<1>9. Typed'
  BY <1>5, <1>8 DEF Typed
<1>10. Synced'
  <2>1. ASSUME NEW s \in Ring PROVE SyncTo(use)[s] <= sync_seq[s][s] /\ ~(s < 1)
    BY <1>1, SyncAssumption DEF Ring
  <2>2. ASSUME NEW s \in Ring, NEW o \in Bo
        PROVE  /\ use[o] # "none" => writers[o][s] <= SyncTo(use)[s]
               /\ use[o] = "write" => readers[o][s] <= SyncTo(use)[s]
    <3>1. use[o] \in {"none", "read", "write"} /\ Fences(use, o, s) <= SyncTo(use)[s]
      BY <1>1 DEF Use
    <3>2. readers[o][s] \in Nat /\ writers[o][s] \in Nat /\ SyncTo(use)[s] \in Nat
      BY <1>3 DEF Typed
    <3>. QED
      BY <3>1, <3>2 DEF Fences, Larger
  <2>. QED
    BY <1>6, <1>8, <2>1, <2>2 DEF Synced
<1>. QED
  BY <1>6, <1>7, <1>9, <1>10

\* What noting a synchronisation does: the ring's own fences stay, the others only grow.
LEMMA Noted ==
  ASSUME Typed, NEW d \in Ring, NEW s \in Ring, NoteSync(d, s)
  PROVE  /\ sync_seq' \in [Ring -> [Ring -> Nat]]
         /\ \A e \in Ring : e # d => sync_seq'[e] = sync_seq[e]
         /\ \A i \in Ring :
              sync_seq'[d][i] = IF i = d THEN sync_seq[d][i]
                                ELSE Larger(sync_seq[d][i], sync_seq[s][i])
         /\ \A i \in Ring : sync_seq'[i][i] = sync_seq[i][i]
<1>1. sync_seq \in [Ring -> [Ring -> Nat]]
  BY DEF Typed
<1>2. PICK f : f = [i \in Ring |-> IF i = d THEN sync_seq[d][i]
                                    ELSE Larger(sync_seq[d][i], sync_seq[s][i])]
  OBVIOUS
<1>3. sync_seq' = [sync_seq EXCEPT ![d] = f]
  BY <1>2 DEF NoteSync
<1>4. f \in [Ring -> Nat]
  <2>1. \A i \in Ring : sync_seq[d][i] \in Nat /\ sync_seq[s][i] \in Nat
    BY <1>1
  <2>. QED
    BY <1>2, <2>1 DEF Larger
<1>5. /\ sync_seq' \in [Ring -> [Ring -> Nat]] /\ sync_seq'[d] = f
      /\ \A e \in Ring : e # d => sync_seq'[e] = sync_seq[e]
  BY <1>1, <1>3, <1>4
<1>6. \A i \in Ring : sync_seq'[d][i] = IF i = d THEN sync_seq[d][i]
                                        ELSE Larger(sync_seq[d][i], sync_seq[s][i])
  BY <1>2, <1>5
<1>. QED
  BY <1>5, <1>6

\* Synchronising keeps the types and the counts.
LEMMA SynchronizeTyped ==
  ASSUME Typed, Counted, Busy, NEW s, NEW x, SyncedWith(s, x)
  PROVE  Typed' /\ Counted' /\ Busy' /\ job.ring' = job.ring
<1>1. s \in Ring /\ x \in Slot /\ job.ring \in Ring
  BY JobTypes DEF SyncedWith
<1>2. claim' \in [Slot -> [ring : 0 .. R, seq : 0 .. MaxJobs]] /\ value' \in [Slot -> Nat]
  <2>1. claim \in [Slot -> [ring : 0 .. R, seq : 0 .. MaxJobs]] /\ value \in [Slot -> Nat]
    BY DEF Typed
  <2>2. Held \in [ring : 0 .. R, seq : 0 .. MaxJobs]
    <3>1. 1 \in 0 .. MaxJobs
      BY SyncAssumption DEF Typed
    <3>. QED
      BY <3>1, SyncAssumption DEF Held
  <2>3. claim' = [claim EXCEPT ![x] = Held] /\ value' = [value EXCEPT ![x] = 0]
    BY DEF SyncedWith
  <2>. QED
    BY <1>1, <2>1, <2>2, <2>3
<1>3. UNCHANGED <<mute, done, readers, writers, submitted, fails>>
  BY DEF SyncedWith, resv
<1>4. CASE Refused(x)
  <2>1. queue' = queue /\ sync_seq' = sync_seq
    BY <1>4 DEF Refused
  <2>2. job \in Job /\ job' = [job EXCEPT !.slots = @ \cup {x}, !.manual = TRUE]
    BY <1>4 DEF Refused, Typed
  <2>3. job.slots \cup {x} \in SUBSET Slot
    BY <1>1, JobTypes
  <2>4. job' \in Job /\ job.ring' = job.ring
    BY <2>2, <2>3 DEF Job
  <2>5. Busy'
    BY <1>1, <2>4, SyncAssumption DEF Busy, NoJob, Ring
  <2>6. Typed'
    BY <1>2, <1>3, <2>1, <2>4 DEF Typed
  <2>7. Counted'
    BY <1>3, <2>1 DEF Counted, Reach
  <2>. QED
    BY <2>4, <2>5, <2>6, <2>7
<1>5. CASE Given(s, x)
  <2>1. NoteSync(job.ring, s)
    BY <1>5 DEF Given
  <2>2. PICK d \in Ring : d = job.ring
    BY <1>1
  <2>3. /\ sync_seq' \in [Ring -> [Ring -> Nat]]
        /\ \A e \in Ring : e # d => sync_seq'[e] = sync_seq[e]
        /\ \A i \in Ring : sync_seq'[d][i] = IF i = d THEN sync_seq[d][i]
                                             ELSE Larger(sync_seq[d][i], sync_seq[s][i])
        /\ \A i \in Ring : sync_seq'[i][i] = sync_seq[i][i]
    BY <1>1, <2>1, <2>2, Noted
  <2>4. /\ queue' \in [Ring -> Seq(Command)] /\ job' \in Job /\ Busy' /\ job.ring' = job.ring
    BY <1>5, GivenQueues
  <2>5. Typed'
    BY <1>2, <1>3, <2>3, <2>4 DEF Typed
  <2>6. \A r \in Ring : Reach(r, Len(queue[r]))' = Reach(r, Len(queue[r]))
    <3>1. SUFFICES ASSUME NEW r \in Ring
                   PROVE  Reach(r, Len(queue[r]))' = Reach(r, Len(queue[r]))
      OBVIOUS
    <3>2. PICK old \in Nat : old = Len(queue[r])
      BY QueueTypes
    <3>3. old \in 0 .. Len(queue[r])
      BY <3>2
    <3>4. Reach(r, old)' = Reach(r, old)
      BY <1>5, <3>3, ReachGiven
    <3>5. CASE r # s
      <4>1. Len(queue'[r]) = old
        BY <1>5, <3>2, <3>5, GivenQueues
      <4>. QED
        BY <3>2, <3>4, <4>1 DEF Reach
    <3>6. CASE r = s
      <4>1. Len(queue'[r]) = old + 1
        BY <1>5, <3>2, <3>6, GivenQueues
      <4>2. Reach(r, old + 1)' = Reach(r, old)
        BY <1>5, <3>2, <3>6, ReachGiven
      <4>. QED
        BY <3>2, <4>1, <4>2 DEF Reach
    <3>. QED
      BY <3>5, <3>6
  <2>7. \A e, i \in Ring : sync_seq'[e][i] <= sync_seq'[i][i]
    <3>1. \A e, i \in Ring : /\ sync_seq[e][i] \in Nat /\ sync_seq[e][i] <= sync_seq[i][i]
      BY DEF Typed, Counted
    <3>2. ASSUME NEW e \in Ring, NEW i \in Ring PROVE sync_seq'[e][i] <= sync_seq[i][i]
      <4>1. CASE e # d
        BY <2>3, <3>1, <4>1
      <4>2. CASE e = d
        BY <1>1, <2>3, <3>1, <4>2 DEF Larger
      <4>. QED
        BY <4>1, <4>2
    <3>. QED
      BY <2>3, <3>2
  <2>8. Counted'
    BY <1>3, <2>3, <2>6, <2>7 DEF Counted
  <2>. QED
    BY <2>4, <2>5, <2>8
<1>. QED
  BY <1>4, <1>5 DEF SyncedWith

\* Emitting a job keeps the types and the counts.
LEMMA EmitTyped ==
  ASSUME Typed, Counted, Busy, NEW failed \in Nat, fails + failed <= MaxFail, Emit(failed)
  PROVE  Typed' /\ Counted' /\ ~Busy'
<1>1. PICK r \in Ring : r = job.ring
  BY JobTypes
<1>2. PICK seq : seq = sync_seq[r][r] + 1
  OBVIOUS
<1>3. /\ sync_seq \in [Ring -> [Ring -> Nat]] /\ sync_seq[r][r] \in Nat
      /\ sync_seq[r][r] <= submitted /\ submitted \in 0 .. MaxJobs /\ submitted < MaxJobs
  BY DEF Typed, Counted
<1>4. seq \in 0 .. MaxJobs /\ seq \in Nat
  BY <1>2, <1>3, SyncAssumption
<1>5. /\ sync_seq' = [sync_seq EXCEPT ![r][r] = seq]
      /\ claim' = [y \in Slot |-> IF y \in job.slots THEN [ring |-> r, seq |-> seq] ELSE claim[y]]
      /\ readers' = [o \in Bo |-> IF job.use[o] = "read"
                                  THEN [readers[o] EXCEPT ![r] = seq] ELSE readers[o]]
      /\ writers' = [o \in Bo |-> IF job.use[o] = "write"
                                  THEN [writers[o] EXCEPT ![r] = seq] ELSE writers[o]]
      /\ submitted' = submitted + 1 /\ fails' = fails + failed /\ job' = NoJob
      /\ UNCHANGED <<mute, done, value>>
  BY <1>1, <1>2 DEF Emit
<1>6. /\ sync_seq' \in [Ring -> [Ring -> Nat]]
      /\ sync_seq'[r][r] = seq
      /\ \A d, s \in Ring : d # r \/ s # r => sync_seq'[d][s] = sync_seq[d][s]
  BY <1>1, <1>3, <1>4, <1>5
<1>7. claim' \in [Slot -> [ring : 0 .. R, seq : 0 .. MaxJobs]]
  <2>1. \A y \in Slot : claim[y] \in [ring : 0 .. R, seq : 0 .. MaxJobs]
    BY DEF Typed
  <2>2. [ring |-> r, seq |-> seq] \in [ring : 0 .. R, seq : 0 .. MaxJobs]
    BY <1>4, SyncAssumption DEF Ring
  <2>. QED
    BY <1>5, <2>1, <2>2
<1>8. \A o \in Bo : /\ readers[o] \in [Ring -> Nat] /\ writers[o] \in [Ring -> Nat]
                    /\ [readers[o] EXCEPT ![r] = seq] \in [Ring -> Nat]
                    /\ [writers[o] EXCEPT ![r] = seq] \in [Ring -> Nat]
  <2>1. \A o \in Bo : readers[o] \in [Ring -> Nat] /\ writers[o] \in [Ring -> Nat]
    BY DEF Typed
  <2>. QED
    BY <1>4, <2>1
<1>9. readers' \in [Bo -> [Ring -> Nat]] /\ writers' \in [Bo -> [Ring -> Nat]]
  BY <1>5, <1>8
<1>10. ~Busy'
  BY <1>5 DEF Busy
<1>11. submitted' \in 0 .. MaxJobs /\ fails' \in 0 .. MaxFail
  BY <1>3, <1>5, SyncAssumption DEF Typed
<1>12. queue' \in [Ring -> Seq(Command)] /\ mute' \subseteq Ring /\ done' \in [Ring -> Nat]
       /\ value' \in [Slot -> Nat]
  <2>1. queue' \in [Ring -> Seq(Command)]
    BY Emitted
  <2>. QED
    BY <1>5, <2>1 DEF Typed
<1>13. Typed'
  BY <1>6, <1>7, <1>9, <1>10, <1>11, <1>12 DEF Typed
<1>14. ASSUME NEW q \in Ring
       PROVE  /\ Reach(q, Len(queue[q]))' = sync_seq'[q][q]
              /\ sync_seq'[q][q] <= submitted'
  <2>1. PICK old \in Nat : old = Len(queue[q])
    BY QueueTypes
  <2>2. Reach(q, old) = sync_seq[q][q] /\ sync_seq[q][q] <= submitted /\ sync_seq[q][q] \in Nat
    BY <2>1 DEF Counted, Typed
  <2>3. CASE q # r
    <3>1. Len(queue'[q]) = old
      BY <1>1, <2>1, <2>3, Emitted
    <3>2. Reach(q, old)' = Reach(q, old)
      <4>1. PICK n : n = Len(job.waits)
        OBVIOUS
      <4>2. PICK m : m = Len(queue[r])
        OBVIOUS
      <4>3. Sizes(r, m, n) /\ old \in 0 .. Len(queue[q])
        BY <1>1, <2>1, <4>1, <4>2 DEF Sizes
      <4>. QED
        BY <4>3, ReachEmitted
    <3>3. Reach(q, Len(queue[q]))' = Reach(q, old)'
      BY <3>1 DEF Reach
    <3>. QED
      BY <1>3, <1>5, <1>6, <2>2, <2>3, <3>2, <3>3
  <2>4. CASE q = r
    <3>1. PICK n : n = Len(job.waits)
      OBVIOUS
    <3>2. Len(queue'[q]) = old + n + 1
      BY <1>1, <2>1, <2>4, <3>1, Emitted
    <3>3. Sizes(r, old, n)
      BY <1>1, <2>1, <2>4, <3>1 DEF Sizes
    <3>4. Reach(r, old + n + 1)' = Reach(r, old) + 1
      BY <3>3, ReachEmitted
    <3>5. Reach(q, Len(queue[q]))' = Reach(r, old + n + 1)'
      BY <2>4, <3>2 DEF Reach
    <3>. QED
      BY <1>2, <1>3, <1>5, <1>6, <2>2, <2>4, <3>4, <3>5
  <2>. QED
    BY <2>3, <2>4
<1>15. \A d, s \in Ring : sync_seq'[d][s] <= sync_seq'[s][s]
  <2>1. \A d, s \in Ring : sync_seq[d][s] \in Nat /\ sync_seq[d][s] <= sync_seq[s][s]
    BY DEF Typed, Counted
  <2>. QED
    BY <1>2, <1>6, <2>1
<1>16. \A o \in Bo, q \in Ring :
         readers'[o][q] <= sync_seq'[q][q] /\ writers'[o][q] <= sync_seq'[q][q]
  <2>1. SUFFICES ASSUME NEW o \in Bo, NEW q \in Ring
                 PROVE  readers'[o][q] <= sync_seq'[q][q] /\ writers'[o][q] <= sync_seq'[q][q]
    OBVIOUS
  <2>2. /\ readers[o][q] \in Nat /\ writers[o][q] \in Nat /\ sync_seq[q][q] \in Nat
        /\ readers[o][q] <= sync_seq[q][q] /\ writers[o][q] <= sync_seq[q][q]
    BY DEF Typed, Counted
  <2>3. /\ readers'[o][q] \in {readers[o][q], IF q = r THEN seq ELSE readers[o][q]}
        /\ writers'[o][q] \in {writers[o][q], IF q = r THEN seq ELSE writers[o][q]}
    BY <1>5, <1>8
  <2>4. sync_seq[q][q] <= sync_seq'[q][q] /\ (q = r => sync_seq'[q][q] = seq)
    BY <1>2, <1>6, <2>2
  <2>5. seq \in Nat /\ sync_seq'[q][q] \in Nat
    BY <1>4, <1>6
  <2>6. CASE q = r
    BY <1>2, <2>2, <2>3, <2>4, <2>5, <2>6
  <2>7. CASE q # r
    BY <2>2, <2>3, <2>4, <2>5, <2>7
  <2>. QED
    BY <2>6, <2>7
<1>17. Counted'
  BY <1>14, <1>15, <1>16 DEF Counted
<1>. QED
  BY <1>10, <1>13, <1>17

\* Executing a command keeps the counts.
LEMMA ExecuteCounted ==
  ASSUME Typed, Counted, NEW r \in Ring, Execute(r)
  PROVE  Counted'
<1>1. UNCHANGED <<sync_seq, readers, writers, submitted>>
  BY DEF Execute, resv
<1>2. ASSUME NEW q \in Ring
      PROVE  Reach(q, Len(queue[q]))' = Reach(q, Len(queue[q]))
  <2>1. PICK m \in Nat : m = Len(queue'[q])
    BY Executed
  <2>2. m \in 0 .. Len(queue'[q]) /\ Len(queue[q]) = IF q = r THEN m + 1 ELSE m
    BY <2>1, Executed
  <2>3. Reach(q, m)' = Reach(q, IF q = r THEN m + 1 ELSE m)
    BY <2>2, ReachExecuted
  <2>4. Reach(q, Len(queue[q]))' = Reach(q, m)'
    BY <2>1 DEF Reach
  <2>. QED
    BY <2>2, <2>3, <2>4
<1>. QED
  BY <1>1, <1>2 DEF Counted

-----------------------------------------------------------------------------
(* The memory of the semaphores *)

\* A slot that can be given out is named by no wait: the fence it comes back with lies
\* after the wait.
LEMMA AwaitedIsKept ==
  ASSUME Typed, WaitsHold, JobHolds, NEW x \in Slot, Available(x)
  PROVE  /\ \A r \in Ring : \A i \in 1 .. Len(queue[r]) : queue[r][i] # Wait(x)
         /\ Busy => x \notin job.slots /\ ~Asks(job.waits, x)
         /\ ~Awaited(x)
<1>1. ASSUME NEW r \in Ring, NEW i \in 1 .. Len(queue[r]), queue[r][i] = Wait(x)
      PROVE  FALSE
  <2>1. claim[x].ring = r /\ Reach(r, i) < claim[x].seq
    BY <1>1 DEF WaitsHold
  <2>2. i \in Nat /\ done[r] \in Nat
    BY QueueTypes
  <2>3. Reach(r, i) \in Nat /\ done[r] <= Reach(r, i)
    BY <2>2, ReachType
  <2>4. claim[x] # Free
    BY <2>1, SyncAssumption DEF Free, Ring
  <2>5. done[r] >= claim[x].seq
    BY <2>1, <2>4 DEF Available
  <2>. QED
    BY <2>1, <2>2, <2>3, <2>5, ClaimsTyped
<1>2. ASSUME Busy, x \in job.slots PROVE FALSE
  <2>1. claim[x] = Held
    BY <1>2 DEF JobHolds
  <2>. QED
    BY <2>1 DEF Available, Held, Free
<1>3. ASSUME Busy, Asks(job.waits, x) PROVE FALSE
  BY <1>2, <1>3 DEF JobHolds, Asks
<1>4. ~Awaited(x)
  <2>1. \A r \in Ring : DOMAIN queue[r] = 1 .. Len(queue[r])
    BY QueueTypes
  <2>. QED
    BY <1>1, <1>3, <2>1 DEF Awaited, Asks
<1>. QED
  BY <1>1, <1>2, <1>3, <1>4

\* Executing a command keeps the slots with those who wait for them.
LEMMA ExecuteHolds ==
  ASSUME Typed, WaitsHold, JobHolds, NEW r \in Ring, Execute(r)
  PROVE  WaitsHold' /\ JobHolds'
<1>1. UNCHANGED <<sync_seq, claim, job>>
  BY DEF Execute
<1>2. ASSUME NEW x \in Slot, NEW q \in Ring, NEW i \in 1 .. Len(queue'[q]), queue'[q][i] = Wait(x)
      PROVE  /\ claim[x].ring = q /\ Reach(q, i)' < claim[x].seq /\ claim[x].seq <= sync_seq[q][q]
             /\ \A j \in 1 .. Len(queue'[q]) : queue'[q][j] = Wait(x) => j = i
  <2>1. PICK k : k = IF q = r THEN i + 1 ELSE i
    OBVIOUS
  <2>2. k \in 1 .. Len(queue[q]) /\ queue[q][k] = Wait(x)
    BY <1>2, <2>1, Executed
  <2>3. Reach(q, i)' = Reach(q, k)
    BY <2>1, ReachExecuted
  <2>4. /\ claim[x].ring = q /\ Reach(q, k) < claim[x].seq /\ claim[x].seq <= sync_seq[q][q]
        /\ \A j \in 1 .. Len(queue[q]) : queue[q][j] = Wait(x) => j = k
    BY <2>2 DEF WaitsHold
  <2>5. ASSUME NEW j \in 1 .. Len(queue'[q]), queue'[q][j] = Wait(x) PROVE j = i
    <3>1. PICK l : l = IF q = r THEN j + 1 ELSE j
      OBVIOUS
    <3>2. l \in 1 .. Len(queue[q]) /\ queue[q][l] = Wait(x)
      BY <2>5, <3>1, Executed
    <3>3. l = k
      BY <2>4, <3>2
    <3>. QED
      BY <2>1, <3>1, <3>3
  <2>. QED
    BY <2>3, <2>4, <2>5
<1>3. WaitsHold'
  BY <1>1, <1>2 DEF WaitsHold
<1>4. JobHolds'
  BY <1>1 DEF JobHolds, Busy
<1>. QED
  BY <1>3, <1>4

\* So does synchronising, which takes a slot that nobody waits for.
LEMMA SynchronizeHolds ==
  ASSUME Typed, Counted, WaitsHold, JobHolds, Busy, NEW s, NEW x, SyncedWith(s, x)
  PROVE  WaitsHold' /\ JobHolds'
<1>1. s \in Ring /\ x \in Slot /\ job.ring \in Ring /\ Available(x)
  BY JobTypes DEF SyncedWith
<1>2. /\ \A r \in Ring : \A i \in 1 .. Len(queue[r]) : queue[r][i] # Wait(x)
      /\ x \notin job.slots /\ ~Asks(job.waits, x)
  BY <1>1, AwaitedIsKept
<1>3. claim' = [claim EXCEPT ![x] = Held] /\ claim \in [Slot -> [ring : 0 .. R,
      seq : 0 .. MaxJobs]]
  BY DEF SyncedWith, Typed
<1>4. claim'[x] = Held /\ \A y \in Slot : y # x => claim'[y] = claim[y]
  BY <1>1, <1>3
<1>5. ASSUME NEW q \in Ring PROVE sync_seq'[q][q] = sync_seq[q][q]
  <2>1. CASE Refused(x)
    BY <2>1 DEF Refused
  <2>2. CASE Given(s, x)
    BY <1>1, <2>2, Noted DEF Given
  <2>. QED
    BY <2>1, <2>2 DEF SyncedWith
<1>6. ASSUME NEW q \in Ring, NEW i \in 1 .. Len(queue'[q]), NEW y \in Slot, queue'[q][i] = Wait(y)
      PROVE  i \in 1 .. Len(queue[q]) /\ queue[q][i] = Wait(y) /\ Reach(q, i)' = Reach(q, i)
  <2>1. CASE Refused(x)
    <3>1. queue' = queue /\ done' = done
      BY <2>1 DEF Refused, SyncedWith
    <3>. QED
      BY <1>6, <3>1 DEF Reach
  <2>2. CASE Given(s, x)
    <3>1. i \in 1 .. Len(queue[q]) /\ queue[q][i] = Wait(y)
      <4>1. CASE q # s
        BY <1>6, <2>2, <4>1, GivenQueues
      <4>2. CASE q = s
        <5>1. Len(queue[s]) \in Nat
          BY <1>1, QueueTypes
        <5>2. i # Len(queue[s]) + 1
          <6>1. queue'[s][Len(queue[s]) + 1] = Signal(x)
            BY <2>2, GivenQueues
          <6>2. Signal(x).op # Wait(y).op
            BY CommandKinds
          <6>. QED
            BY <1>6, <4>2, <6>1, <6>2
        <5>3. Len(queue'[s]) = Len(queue[s]) + 1
          BY <2>2, GivenQueues
        <5>4. i \in 1 .. Len(queue[s])
          BY <4>2, <5>1, <5>2, <5>3
        <5>. QED
          BY <1>6, <2>2, <4>2, <5>4, GivenQueues
      <4>. QED
        BY <4>1, <4>2
    <3>2. Reach(q, i)' = Reach(q, i)
      <4>1. PICK old : old = Len(queue[s])
        OBVIOUS
      <4>2. i \in 0 .. Len(queue[q])
        BY <3>1
      <4>. QED
        BY <2>2, <4>1, <4>2, ReachGiven
    <3>. QED
      BY <3>1, <3>2
  <2>. QED
    BY <2>1, <2>2 DEF SyncedWith
<1>7. ASSUME NEW y \in Slot, NEW q \in Ring, NEW i \in 1 .. Len(queue'[q]), queue'[q][i] = Wait(y)
      PROVE  /\ claim'[y].ring = q /\ Reach(q, i)' < claim'[y].seq
             /\ claim'[y].seq <= sync_seq'[q][q]
             /\ \A j \in 1 .. Len(queue'[q]) : queue'[q][j] = Wait(y) => j = i
  <2>1. i \in 1 .. Len(queue[q]) /\ queue[q][i] = Wait(y) /\ Reach(q, i)' = Reach(q, i)
    BY <1>6, <1>7
  <2>2. y # x /\ claim'[y] = claim[y]
    BY <1>2, <1>4, <2>1
  <2>3. /\ claim[y].ring = q /\ Reach(q, i) < claim[y].seq /\ claim[y].seq <= sync_seq[q][q]
        /\ \A j \in 1 .. Len(queue[q]) : queue[q][j] = Wait(y) => j = i
    BY <2>1 DEF WaitsHold
  <2>. QED
    BY <1>5, <1>6, <2>1, <2>2, <2>3
<1>8. WaitsHold'
  BY <1>7 DEF WaitsHold
<1>9. JobHolds'
  <2>1. job.slots' = job.slots \cup {x}
    <3>1. CASE Refused(x)
      BY <3>1 DEF Refused, Typed, Job
    <3>2. CASE Given(s, x)
      BY <3>2, GivenQueues
    <3>. QED
      BY <3>1, <3>2 DEF SyncedWith
  <2>2. \A y \in job.slots' : claim'[y] = Held
    <3>1. job.slots \in SUBSET Slot /\ \A y \in job.slots : claim[y] = Held
      BY JobTypes DEF JobHolds
    <3>. QED
      BY <1>4, <2>1, <3>1
  <2>3. ASSUME NEW y \in Slot, NEW k \in DOMAIN job.waits', job.waits'[k] = Wait(y)
        PROVE  y \in job.slots' /\ \A l \in DOMAIN job.waits' : job.waits'[l] = Wait(y) => l = k
    <3>1. CASE Refused(x)
      <4>1. job.waits' = job.waits
        BY <3>1 DEF Refused, Typed, Job
      <4>. QED
        BY <2>1, <2>3, <4>1 DEF JobHolds
    <3>2. CASE Given(s, x)
      <4>1. PICK n \in Nat : n = Len(job.waits)
        BY JobTypes
      <4>2. /\ DOMAIN job.waits = 1 .. n /\ DOMAIN job.waits' = 1 .. n + 1
            /\ \A l \in 1 .. n : job.waits'[l] = job.waits[l]
            /\ job.waits'[n + 1] = Wait(x)
        BY <3>2, <4>1, JobTypes, GivenQueues
      <4>3. CASE y = x
        <5>1. \A l \in 1 .. n : job.waits[l] # Wait(x)
          BY <1>2, <4>2 DEF Asks
        <5>2. \A l \in 1 .. n + 1 : job.waits'[l] = Wait(x) => l = n + 1
          BY <4>1, <4>2, <5>1
        <5>. QED
          BY <2>1, <2>3, <4>2, <4>3, <5>2
      <4>4. CASE y # x
        <5>1. Wait(y) # Wait(x)
          BY <4>4 DEF Wait
        <5>2. k \in 1 .. n /\ job.waits[k] = Wait(y)
          BY <2>3, <4>1, <4>2, <5>1
        <5>3. y \in job.slots /\ \A l \in 1 .. n : job.waits[l] = Wait(y) => l = k
          BY <4>2, <5>2 DEF JobHolds
        <5>4. \A l \in 1 .. n + 1 : job.waits'[l] = Wait(y) => l \in 1 .. n
              /\ job.waits[l] = Wait(y)
          BY <4>1, <4>2, <5>1
        <5>. QED
          BY <2>1, <4>2, <5>3, <5>4
      <4>. QED
        BY <4>3, <4>4
    <3>. QED
      BY <3>1, <3>2 DEF SyncedWith
  <2>. QED
    BY <2>2, <2>3 DEF JobHolds
<1>. QED
  BY <1>8, <1>9

\* A slot that is waited for in a queue is not one of the submission's.
LEMMA HeldByJob ==
  ASSUME Typed, WaitsHold, JobHolds, Busy,
         NEW y \in Slot, NEW q \in Ring, NEW i \in 1 .. Len(queue[q]), queue[q][i] = Wait(y)
  PROVE  y \notin job.slots /\ \A k \in DOMAIN job.waits : job.waits[k] # Wait(y)
<1>1. claim[y].ring = q
  BY DEF WaitsHold
<1>2. y \notin job.slots
  BY <1>1, SyncAssumption DEF JobHolds, Held, Ring
<1>. QED
  BY <1>2 DEF JobHolds

\* So does emitting a job: its fence, the next one of the ring, frees the slots.
LEMMA EmitHolds ==
  ASSUME Typed, Counted, WaitsHold, JobHolds, Busy, NEW failed, Emit(failed)
  PROVE  WaitsHold' /\ JobHolds'
<1>1. PICK r \in Ring : r = job.ring
  BY JobTypes
<1>2. PICK old \in Nat : old = Len(queue[r])
  BY QueueTypes
<1>3. PICK n \in Nat : n = Len(job.waits)
  BY JobTypes
<1>4. Sizes(r, old, n)
  BY <1>1, <1>2, <1>3 DEF Sizes
<1>5. PICK seq : seq = sync_seq[r][r] + 1
  OBVIOUS
<1>6. sync_seq[r][r] \in Nat /\ sync_seq \in [Ring -> [Ring -> Nat]] /\ Reach(r,
      old) = sync_seq[r][r]
  BY <1>2 DEF Typed, Counted
<1>7. /\ sync_seq' = [sync_seq EXCEPT ![r][r] = seq]
      /\ claim' = [y \in Slot |-> IF y \in job.slots THEN [ring |-> r, seq |-> seq] ELSE claim[y]]
      /\ job' = NoJob
  BY <1>1, <1>5 DEF Emit
<1>8. /\ sync_seq'[r][r] = seq
      /\ \A q \in Ring : q # r => sync_seq'[q][q] = sync_seq[q][q]
  BY <1>6, <1>7
<1>9. /\ Len(queue'[r]) = old + n + 1
      /\ \A i \in 1 .. old : queue'[r][i] = queue[r][i]
      /\ \A k \in 1 .. n : queue'[r][old + k] = job.waits[k]
      /\ queue'[r][old + n + 1] = Run(submitted, job.use)
      /\ \A q \in Ring : q # r => queue'[q] = queue[q]
  BY <1>1, <1>2, <1>3, Emitted
<1>10. DOMAIN job.waits = 1 .. n
  BY <1>3, JobTypes
<1>11. ASSUME NEW y \in Slot, NEW q \in Ring, NEW i \in 1 .. Len(queue'[q]),
       queue'[q][i] = Wait(y)
       PROVE  \/ i \in 1 .. Len(queue[q]) /\ queue[q][i] = Wait(y)
              \/ q = r /\ \E k \in 1 .. n : i = old + k /\ job.waits[k] = Wait(y)
  <2>1. CASE q # r
    BY <1>9, <1>11, <2>1
  <2>2. CASE q = r
    <3>1. i # old + n + 1
      <4>1. Run(submitted, job.use).op # Wait(y).op
        BY CommandKinds
      <4>. QED
        BY <1>9, <1>11, <2>2, <4>1
    <3>2. CASE i <= old
      <4>1. i \in 1 .. old
        BY <1>9, <2>2, <3>2
      <4>. QED
        BY <1>2, <1>9, <1>11, <2>2, <4>1
    <3>3. CASE i > old
      <4>1. i - old \in 1 .. n /\ i = old + (i - old)
        BY <1>9, <2>2, <3>1, <3>3
      <4>2. job.waits[i - old] = Wait(y)
        BY <1>9, <1>11, <2>2, <4>1
      <4>. QED
        BY <2>2, <4>1, <4>2
    <3>. QED
      BY <3>2, <3>3
  <2>. QED
    BY <2>1, <2>2
<1>12. ASSUME NEW y \in Slot, NEW q \in Ring, NEW i \in 1 .. Len(queue'[q]),
       queue'[q][i] = Wait(y)
       PROVE  /\ claim'[y].ring = q /\ Reach(q, i)' < claim'[y].seq
              /\ claim'[y].seq <= sync_seq'[q][q]
              /\ \A j \in 1 .. Len(queue'[q]) : queue'[q][j] = Wait(y) => j = i
  <2>1. CASE i \in 1 .. Len(queue[q]) /\ queue[q][i] = Wait(y)
    <3>1. y \notin job.slots /\ \A k \in 1 .. n : job.waits[k] # Wait(y)
      BY <1>10, <2>1, HeldByJob
    <3>2. claim'[y] = claim[y]
      BY <1>7, <3>1
    <3>3. /\ claim[y].ring = q /\ Reach(q, i) < claim[y].seq /\ claim[y].seq <= sync_seq[q][q]
          /\ \A j \in 1 .. Len(queue[q]) : queue[q][j] = Wait(y) => j = i
      BY <2>1 DEF WaitsHold
    <3>4. i \in 0 .. Len(queue[q])
      BY <2>1
    <3>5. Reach(q, i)' = Reach(q, i)
      BY <1>4, <3>4, ReachEmitted
    <3>6. claim[y].seq <= sync_seq'[q][q]
      <4>1. claim[y].seq \in 0 .. MaxJobs /\ sync_seq[q][q] \in Nat
        BY <1>6, ClaimsTyped
      <4>2. sync_seq[q][q] <= sync_seq'[q][q]
        BY <1>5, <1>6, <1>8
      <4>3. sync_seq'[q][q] \in Nat
        BY <1>5, <1>6, <1>8
      <4>. QED
        BY <3>3, <4>1, <4>2, <4>3
    <3>7. \A j \in 1 .. Len(queue'[q]) : queue'[q][j] = Wait(y) => j = i
      BY <1>11, <3>1, <3>3
    <3>. QED
      BY <3>2, <3>3, <3>5, <3>6, <3>7
  <2>2. CASE q = r /\ \E k \in 1 .. n : i = old + k /\ job.waits[k] = Wait(y)
    <3>1. PICK k \in 1 .. n : i = old + k /\ job.waits[k] = Wait(y)
      BY <2>2
    <3>2. y \in job.slots /\ \A l \in 1 .. n : job.waits[l] = Wait(y) => l = k
      BY <1>10, <3>1 DEF JobHolds
    <3>3. claim'[y] = [ring |-> r, seq |-> seq]
      BY <1>7, <3>2
    <3>4. Reach(r, old + k)' = Reach(r, old)
      <4>1. k \in 0 .. n
        OBVIOUS
      <4>. QED
        BY <1>4, <4>1, ReachEmitted
    <3>5. ASSUME NEW j \in 1 .. Len(queue'[q]), queue'[q][j] = Wait(y) PROVE j = i
      <4>1. ~(j \in 1 .. Len(queue[q]) /\ queue[q][j] = Wait(y))
        BY <3>2, HeldByJob
      <4>2. PICK l \in 1 .. n : j = old + l /\ job.waits[l] = Wait(y)
        BY <1>11, <3>5, <4>1
      <4>. QED
        BY <3>1, <3>2, <4>2
    <3>6. Reach(q, i)' = sync_seq[r][r]
      BY <1>6, <2>2, <3>1, <3>4
    <3>7. claim'[y].ring = q /\ claim'[y].seq = seq /\ sync_seq'[q][q] = seq
      BY <1>8, <2>2, <3>3
    <3>8. sync_seq[r][r] < seq /\ seq <= seq
      BY <1>5, <1>6
    <3>. QED
      BY <3>5, <3>6, <3>7, <3>8
  <2>. QED
    BY <1>11, <1>12, <2>1, <2>2
<1>13. WaitsHold'
  BY <1>12 DEF WaitsHold
<1>14. JobHolds'
  BY <1>7 DEF JobHolds, Busy
<1>. QED
  BY <1>13, <1>14

\* So does undoing a submission, for none of its waits is queued.
LEMMA UndoHolds ==
  ASSUME Typed, WaitsHold, JobHolds, Undo
  PROVE  WaitsHold' /\ JobHolds'
<1>1. /\ Busy /\ UNCHANGED <<queue, done, sync_seq>> /\ job' = NoJob
      /\ claim' = [y \in Slot |-> IF y \in job.slots THEN Free ELSE claim[y]]
  BY DEF Undo
<1>2. ASSUME NEW y \in Slot, NEW q \in Ring, NEW i \in 1 .. Len(queue[q]), queue[q][i] = Wait(y)
      PROVE  claim'[y] = claim[y]
  BY <1>1, <1>2, HeldByJob
<1>3. WaitsHold'
  BY <1>1, <1>2 DEF WaitsHold, Reach
<1>4. JobHolds'
  BY <1>1 DEF JobHolds, Busy
<1>. QED
  BY <1>3, <1>4

\* Waiting for a fence changes nothing but the submission's own place.
LEMMA ManualKeeps ==
  ASSUME Typed, WaitManually
  PROVE  /\ job' \in Job /\ Busy /\ Busy'
         /\ job.ring' = job.ring /\ job.use' = job.use /\ job.sync_to' = job.sync_to
         /\ job.waits' = job.waits /\ job.slots' = job.slots
         /\ UNCHANGED <<mute, queue, done, sync_seq, readers, writers, claim, value, submitted,
              fails>>
         /\ \E s \in Ring : /\ job.next' = s + 1 /\ done[s] >= job.sync_to[s] /\ job.next <= s
                            /\ \A q \in job.next .. (s - 1) : ~NeedSync(q)
<1>1. /\ Busy /\ Due # {} /\ done[Min(Due)] >= job.sync_to[Min(Due)]
      /\ job' = [job EXCEPT !.next = Min(Due) + 1, !.manual = FALSE]
      /\ UNCHANGED <<mute, queue, done, sync_seq, readers, writers, claim, value, submitted,
           fails>>
  BY DEF WaitManually, resv
<1>2. PICK s : s = Min(Due)
  OBVIOUS
<1>3. s \in Ring /\ job.next <= s /\ \A q \in job.next .. (s - 1) : ~NeedSync(q)
  BY <1>1, <1>2, FirstDue
<1>4. job \in Job /\ s + 1 \in 1 .. R + 1
  <2>1. job \in Job
    BY <1>1 DEF Typed
  <2>2. s + 1 \in 1 .. R + 1
    BY <1>3, SyncAssumption DEF Ring
  <2>. QED
    BY <2>1, <2>2
<1>5. job' = [job EXCEPT !.next = s + 1, !.manual = FALSE]
  BY <1>1, <1>2
<1>6. /\ job' \in Job /\ job.ring' = job.ring /\ job.use' = job.use /\ job.sync_to' = job.sync_to
      /\ job.waits' = job.waits /\ job.slots' = job.slots /\ job.next' = s + 1
  BY <1>4, <1>5 DEF Job
<1>7. Busy'
  <2>1. job.ring' \in Ring
    BY <1>1, <1>6, JobTypes
  <2>. QED
    BY <2>1, SyncAssumption DEF Busy, NoJob, Ring
<1>. QED
  BY <1>1, <1>2, <1>3, <1>6, <1>7

-----------------------------------------------------------------------------
(* Signals and waits *)

\* Where a wait for a slot can be.
LEMMA AwaitedWhere ==
  ASSUME Typed, NEW x
  PROVE  Awaited(x) <=> \/ \E r \in Ring : \E i \in 1 .. Len(queue[r]) : queue[r][i] = Wait(x)
                        \/ Busy /\ \E k \in 1 .. Len(job.waits) : job.waits[k] = Wait(x)
<1>1. \A r \in Ring : DOMAIN queue[r] = 1 .. Len(queue[r])
  BY QueueTypes
<1>2. Busy => DOMAIN job.waits = 1 .. Len(job.waits)
  BY JobTypes
<1>. QED
  BY <1>1, <1>2 DEF Awaited, Asks

\* Executing a signal removes one, executing anything else removes none.
LEMMA SignalsExecuted ==
  ASSUME Typed, NEW r \in Ring, Execute(r), NEW x \in Slot, IsFiniteSet(Signals(x))
  PROVE  /\ IsFiniteSet(Signals(x)')
         /\ Cardinality(Signals(x)')
              = Cardinality(Signals(x)) - (IF queue[r][1] = Signal(x) THEN 1 ELSE 0)
<1>1. PICK S : S = Signals(x)
  OBVIOUS
<1>2. PICK T : T = Signals(x)'
  OBVIOUS
<1>3. PICK f : f = [p \in T |-> <<p[1], IF p[1] = r THEN p[2] + 1 ELSE p[2]>>]
  OBVIOUS
<1>4. /\ Len(queue[r]) \in Nat \ {0} /\ Len(queue'[r]) = Len(queue[r]) - 1
      /\ \A i \in 1 .. Len(queue'[r]) : queue'[r][i] = queue[r][i + 1]
      /\ \A q \in Ring : q # r => queue'[q] = queue[q]
  BY Executed
<1>5. ASSUME NEW p \in T
      PROVE  /\ p = <<p[1], p[2]>> /\ p[1] \in Ring /\ p[2] \in Nat
             /\ f[p] \in S \ {<<r, 1>>} /\ f[p][1] = p[1]
             /\ f[p][2] = IF p[1] = r THEN p[2] + 1 ELSE p[2]
  <2>1. /\ p = <<p[1], p[2]>> /\ p[1] \in Ring /\ p[2] \in Nat
        /\ p[2] \in 1 .. Len(queue'[p[1]]) /\ queue'[p[1]][p[2]] = Signal(x)
    BY <1>2, <1>5 DEF Signals
  <2>2. PICK k \in Nat : k = IF p[1] = r THEN p[2] + 1 ELSE p[2]
    BY <2>1
  <2>3. k \in 1 .. Len(queue[p[1]]) /\ queue[p[1]][k] = Signal(x) /\ (p[1] = r => k # 1)
    BY <1>4, <2>1, <2>2
  <2>4. <<p[1], k>> \in S
    BY <1>1, <2>1, <2>2, <2>3 DEF Signals
  <2>5. <<p[1], k>> # <<r, 1>>
    BY <2>3
  <2>6. f[p] = <<p[1], k>>
    BY <1>3, <1>5, <2>2
  <2>7. f[p][1] = p[1] /\ f[p][2] = k
    BY <2>6
  <2>. QED
    BY <2>1, <2>2, <2>4, <2>5, <2>6, <2>7
<1>6. ASSUME NEW p \in S \ {<<r, 1>>} PROVE \E t \in T : f[t] = p
  <2>1. /\ p = <<p[1], p[2]>> /\ p[1] \in Ring /\ p[2] \in Nat
        /\ p[2] \in 1 .. Len(queue[p[1]]) /\ queue[p[1]][p[2]] = Signal(x)
    BY <1>1, <1>6 DEF Signals
  <2>2. p[1] = r => p[2] # 1
    BY <1>6, <2>1
  <2>3. PICK k \in Nat : k = IF p[1] = r THEN p[2] - 1 ELSE p[2]
    BY <2>1, <2>2
  <2>4. k \in 1 .. Len(queue'[p[1]]) /\ queue'[p[1]][k] = Signal(x)
    <3>1. CASE p[1] = r
      <4>1. k = p[2] - 1 /\ k + 1 = p[2] /\ k \in 1 .. Len(queue'[r])
        BY <1>4, <2>1, <2>2, <2>3, <3>1
      <4>. QED
        BY <1>4, <2>1, <3>1, <4>1
    <3>2. CASE p[1] # r
      BY <1>4, <2>1, <2>3, <3>2
    <3>. QED
      BY <3>1, <3>2
  <2>5. PICK t : t = <<p[1], k>>
    OBVIOUS
  <2>6. t \in T /\ t[1] = p[1] /\ t[2] = k
    BY <1>2, <2>1, <2>4, <2>5 DEF Signals
  <2>7. f[t] = <<t[1], IF t[1] = r THEN t[2] + 1 ELSE t[2]>>
    BY <1>3, <2>6
  <2>8. f[t] = p
    BY <2>1, <2>3, <2>6, <2>7
  <2>. QED
    BY <2>6, <2>8
<1>7. \A p, u \in T : f[p] = f[u] => p = u
  <2>1. SUFFICES ASSUME NEW p \in T, NEW u \in T, f[p] = f[u] PROVE p = u
    OBVIOUS
  <2>2. /\ p = <<p[1], p[2]>> /\ u = <<u[1], u[2]>> /\ p[2] \in Nat /\ u[2] \in Nat
        /\ f[p][1] = p[1] /\ f[p][2] = (IF p[1] = r THEN p[2] + 1 ELSE p[2])
        /\ f[u][1] = u[1] /\ f[u][2] = (IF u[1] = r THEN u[2] + 1 ELSE u[2])
    BY <1>5
  <2>3. p[1] = u[1]
    BY <2>1, <2>2
  <2>4. p[2] = u[2]
    <3>1. CASE p[1] = r
      BY <2>1, <2>2, <2>3, <3>1
    <3>2. CASE p[1] # r
      BY <2>1, <2>2, <2>3, <3>2
    <3>. QED
      BY <3>1, <3>2
  <2>. QED
    BY <2>2, <2>3, <2>4
<1>8. f \in [T -> S \ {<<r, 1>>}]
  BY <1>3, <1>5
<1>9. f \in Bijection(T, S \ {<<r, 1>>})
  BY <1>6, <1>7, <1>8 DEF Bijection, Injection, Surjection, IsInjective
<1>10. IsFiniteSet(S \ {<<r, 1>>})
       /\ Cardinality(S \ {<<r, 1>>})
            = IF <<r, 1>> \in S THEN Cardinality(S) - 1 ELSE Cardinality(S)
  BY <1>1, FS_RemoveElement
<1>11. ExistsBijection(S \ {<<r, 1>>}, T)
  BY <1>9, Fun_ExistsBijSymmetric DEF ExistsBijection
<1>12. IsFiniteSet(T) /\ Cardinality(T) = Cardinality(S \ {<<r, 1>>})
  BY <1>10, <1>11, FS_Bijection
<1>13. <<r, 1>> \in S <=> queue[r][1] = Signal(x)
  BY <1>1, <1>4 DEF Signals
<1>14. Cardinality(S) \in Nat
  BY <1>1, FS_CardinalityType
<1>. QED
  BY <1>1, <1>2, <1>10, <1>12, <1>13, <1>14

\* Executing a command keeps the balance: a signal that is given was queued, and a wait
\* that is over took one.
LEMMA ExecuteBalanced ==
  ASSUME Typed, Typed', Balanced, NEW r \in Ring, Execute(r)
  PROVE  Balanced'
<1>1. SUFFICES ASSUME NEW x \in Slot
               PROVE  /\ IsFiniteSet(Signals(x)')
                      /\ Cardinality(Signals(x)') + value'[x]
                           <= (IF Awaited(x)' THEN 1 ELSE 0) + fails'
  BY DEF Balanced
<1>2. /\ IsFiniteSet(Signals(x))
      /\ Cardinality(Signals(x)) + value[x] <= (IF Awaited(x) THEN 1 ELSE 0) + fails
  BY DEF Balanced
<1>3. /\ IsFiniteSet(Signals(x)')
      /\ Cardinality(Signals(x)')
           = Cardinality(Signals(x)) - (IF queue[r][1] = Signal(x) THEN 1 ELSE 0)
  BY <1>2, SignalsExecuted
<1>4. /\ Cardinality(Signals(x)) \in Nat /\ Cardinality(Signals(x)') \in Nat
  BY <1>2, <1>3, FS_CardinalityType
<1>5. /\ value[x] \in Nat /\ value'[x] \in Nat /\ fails \in Nat /\ fails' = fails
      /\ value \in [Slot -> Nat] /\ job' = job
  BY SyncAssumption DEF Typed, Execute
<1>6. queue[r][1] # Wait(x) => (Awaited(x) => Awaited(x)')
  <2>1. SUFFICES ASSUME queue[r][1] # Wait(x), Awaited(x) PROVE Awaited(x)'
    OBVIOUS
  <2>2. CASE Busy /\ \E k \in 1 .. Len(job.waits) : job.waits[k] = Wait(x)
    BY <1>5, <2>2, AwaitedWhere DEF Busy, Awaited, Asks
  <2>3. CASE \E q \in Ring : \E i \in 1 .. Len(queue[q]) : queue[q][i] = Wait(x)
    <3>0. PICK q \in Ring : \E i \in 1 .. Len(queue[q]) : queue[q][i] = Wait(x)
      BY <2>3
    <3>1. PICK i \in 1 .. Len(queue[q]) : queue[q][i] = Wait(x)
      BY <3>0
    <3>2. PICK k : k = IF q = r THEN i - 1 ELSE i
      OBVIOUS
    <3>3. k \in 1 .. Len(queue'[q]) /\ queue'[q][k] = Wait(x)
      <4>1. CASE q # r
        BY <3>1, <3>2, <4>1, Executed
      <4>2. CASE q = r
        <5>1. i # 1 /\ Len(queue[r]) \in Nat
          BY <2>1, <3>1, <4>2, QueueTypes
        <5>2. k = i - 1 /\ i = k + 1 /\ k \in 1 .. Len(queue'[r])
          BY <3>2, <4>2, <5>1, Executed
        <5>. QED
          BY <3>1, <4>2, <5>2, Executed
      <4>. QED
        BY <4>1, <4>2
    <3>4. DOMAIN queue'[q] = 1 .. Len(queue'[q])
      BY Executed
    <3>. QED
      BY <3>3, <3>4 DEF Awaited, Asks
  <2>. QED
    BY <2>1, <2>2, <2>3, AwaitedWhere
<1>7. CASE queue[r][1].op = "run" /\ value' = value
  <2>1. queue[r][1] # Wait(x) /\ queue[r][1] # Signal(x)
    BY <1>7, CommandKinds
  <2>. QED
    BY <1>2, <1>3, <1>4, <1>5, <1>6, <1>7, <2>1
<1>8. ASSUME NEW y \in Slot, queue[r][1] = Signal(y), value' = [value EXCEPT ![y] = @ + 1]
      PROVE  Cardinality(Signals(x)') + value'[x] <= (IF Awaited(x)' THEN 1 ELSE 0) + fails'
  <2>1. queue[r][1] # Wait(x) /\ (queue[r][1] = Signal(x) <=> x = y)
    BY <1>8 DEF Signal, Wait
  <2>2. value'[x] = value[x] + (IF x = y THEN 1 ELSE 0)
    BY <1>5, <1>8
  <2>. QED
    BY <1>2, <1>3, <1>4, <1>5, <1>6, <2>1, <2>2
<1>9. ASSUME NEW y \in Slot, queue[r][1] = Wait(y), value[y] > 0,
             value' = [value EXCEPT ![y] = @ - 1]
      PROVE  Cardinality(Signals(x)') + value'[x] <= (IF Awaited(x)' THEN 1 ELSE 0) + fails'
  <2>1. queue[r][1] # Signal(x) /\ (queue[r][1] = Wait(x) <=> x = y)
    BY <1>9 DEF Signal, Wait
  <2>2. value'[x] = value[x] - (IF x = y THEN 1 ELSE 0)
    BY <1>5, <1>9
  <2>. QED
    BY <1>2, <1>3, <1>4, <1>5, <1>6, <2>1, <2>2
<1>10. \/ queue[r][1].op = "run" /\ value' = value
       \/ \E y \in Slot : queue[r][1] = Signal(y) /\ value' = [value EXCEPT ![y] = @ + 1]
       \/ \E y \in Slot : /\ queue[r][1] = Wait(y) /\ value[y] > 0
                          /\ value' = [value EXCEPT ![y] = @ - 1]
  BY ExecutedHead
<1>. QED
  BY <1>3, <1>7, <1>8, <1>9, <1>10

\* Emitting a job adds no signal, and the waits are waited for still.
LEMMA EmitSignals ==
  ASSUME Typed, Busy, NEW failed, Emit(failed), NEW x
  PROVE  /\ Signals(x)' = Signals(x)
         /\ Awaited(x) => Awaited(x)'
<1>1. PICK r : r = job.ring
  OBVIOUS
<1>2. PICK old : old = Len(queue[r])
  OBVIOUS
<1>3. PICK n : n = Len(job.waits)
  OBVIOUS
<1>4. /\ queue' \in [Ring -> Seq(Command)]
      /\ Len(queue'[r]) = old + n + 1
      /\ \A i \in 1 .. old : queue'[r][i] = queue[r][i]
      /\ \A k \in 1 .. n : queue'[r][old + k] = job.waits[k]
      /\ queue'[r][old + n + 1] = Run(submitted, job.use)
      /\ \A q \in Ring : q # r => queue'[q] = queue[q]
  BY <1>1, <1>2, <1>3, Emitted
<1>5. /\ r \in Ring /\ old \in Nat /\ n \in Nat
      /\ \A k \in 1 .. n : \E y \in Slot : job.waits[k] = Wait(y)
  BY <1>1, <1>2, <1>3, JobTypes, QueueTypes
<1>6. \A i \in Nat \ {0} : i <= old + n + 1 =>
        i \in 1 .. old \/ (\E k \in 1 .. n : i = old + k) \/ i = old + n + 1
  <2>1. SUFFICES ASSUME NEW i \in Nat \ {0}, i <= old + n + 1, ~(i \in 1 .. old), i # old + n + 1
                 PROVE  \E k \in 1 .. n : i = old + k
    OBVIOUS
  <2>2. i - old \in 1 .. n /\ i = old + (i - old)
    BY <1>5, <2>1
  <2>. QED
    BY <2>2
<1>7. ASSUME NEW q \in Ring, NEW i \in Nat
      PROVE  /\ i \in 1 .. Len(queue'[q]) /\ queue'[q][i] = Signal(x)
             <=> i \in 1 .. Len(queue[q]) /\ queue[q][i] = Signal(x)
  <2>1. CASE q # r
    BY <1>4, <2>1
  <2>2. CASE q = r
    <3>0. \A y : Wait(y) # Signal(x)
      BY DEF Wait, Signal
    <3>1. \A k \in 1 .. n : queue'[r][old + k] # Signal(x)
      BY <1>4, <1>5, <3>0
    <3>2. queue'[r][old + n + 1] # Signal(x)
      BY <1>4 DEF Run, Signal
    <3>3. i \in 1 .. old => i \in 1 .. old + n + 1
      BY <1>5
    <3>4. i \in 1 .. old + n + 1 => i \in Nat \ {0} /\ i <= old + n + 1
      BY <1>5
    <3>. QED
      BY <1>2, <1>4, <1>6, <2>2, <3>1, <3>2, <3>3, <3>4
  <2>. QED
    BY <2>1, <2>2
<1>8. Signals(x)' = Signals(x)
  <2>1. Signals(x)' = {p \in Ring \X Nat : p[2] \in 1 .. Len(queue'[p[1]])
                                          /\ queue'[p[1]][p[2]] = Signal(x)}
    BY DEF Signals
  <2>2. \A p \in Ring \X Nat :
          /\ p[2] \in 1 .. Len(queue'[p[1]]) /\ queue'[p[1]][p[2]] = Signal(x)
          <=> p[2] \in 1 .. Len(queue[p[1]]) /\ queue[p[1]][p[2]] = Signal(x)
    BY <1>7
  <2>. QED
    BY <2>1, <2>2 DEF Signals
<1>9. ASSUME Awaited(x) PROVE Awaited(x)'
  <2>1. \A q \in Ring : DOMAIN queue'[q] = 1 .. Len(queue'[q])
    BY <1>4
  <2>2. CASE Busy /\ \E k \in 1 .. Len(job.waits) : job.waits[k] = Wait(x)
    <3>1. PICK k \in 1 .. n : job.waits[k] = Wait(x)
      BY <1>3, <2>2
    <3>2. old + k \in 1 .. old + n + 1
      BY <1>5
    <3>3. old + k \in DOMAIN queue'[r] /\ queue'[r][old + k] = Wait(x)
      BY <1>4, <1>5, <2>1, <3>1, <3>2
    <3>. QED
      BY <1>5, <3>3 DEF Awaited, Asks
  <2>3. CASE \E q \in Ring : \E i \in 1 .. Len(queue[q]) : queue[q][i] = Wait(x)
    <3>1. PICK q \in Ring : \E i \in 1 .. Len(queue[q]) : queue[q][i] = Wait(x)
      BY <2>3
    <3>2. PICK i \in 1 .. Len(queue[q]) : queue[q][i] = Wait(x)
      BY <3>1
    <3>3. i \in 1 .. Len(queue'[q]) /\ queue'[q][i] = Wait(x)
      <4>1. CASE q # r
        BY <1>4, <3>2, <4>1
      <4>2. CASE q = r
        <5>1. i \in 1 .. old /\ i \in 1 .. old + n + 1
          BY <1>2, <1>5, <3>2, <4>2
        <5>. QED
          BY <1>4, <3>2, <4>2, <5>1
      <4>. QED
        BY <4>1, <4>2
    <3>. QED
      BY <2>1, <3>3 DEF Awaited, Asks
  <2>. QED
    BY <1>9, <2>2, <2>3, AwaitedWhere
<1>. QED
  BY <1>8, <1>9

\* Emitting a job keeps the balance.
LEMMA EmitBalanced ==
  ASSUME Typed, Typed', Balanced, Busy, NEW failed \in Nat, Emit(failed)
  PROVE  Balanced'
<1>1. SUFFICES ASSUME NEW x \in Slot
               PROVE  /\ IsFiniteSet(Signals(x)')
                      /\ Cardinality(Signals(x)') + value'[x]
                           <= (IF Awaited(x)' THEN 1 ELSE 0) + fails'
  BY DEF Balanced
<1>2. /\ IsFiniteSet(Signals(x))
      /\ Cardinality(Signals(x)) + value[x] <= (IF Awaited(x) THEN 1 ELSE 0) + fails
  BY DEF Balanced
<1>3. Signals(x)' = Signals(x) /\ (Awaited(x) => Awaited(x)')
  BY EmitSignals
<1>4. value'[x] = value[x] /\ fails' = fails + failed /\ fails \in Nat /\ value[x] \in Nat
  BY SyncAssumption DEF Emit, Typed
<1>5. Cardinality(Signals(x)) \in Nat
  BY <1>2, FS_CardinalityType
<1>. QED
  BY <1>2, <1>3, <1>4, <1>5

\* Undoing a submission keeps the balance, for it counts as a failure.
LEMMA UndoBalanced ==
  ASSUME Typed, Balanced, Undo
  PROVE  Balanced'
<1>1. queue' = queue /\ value' = value /\ fails' = fails + 1 /\ fails \in Nat
      /\ value \in [Slot -> Nat]
  BY SyncAssumption DEF Undo, Typed
<1>2. SUFFICES ASSUME NEW x \in Slot
               PROVE  /\ IsFiniteSet(Signals(x)')
                      /\ Cardinality(Signals(x)') + value'[x]
                           <= (IF Awaited(x)' THEN 1 ELSE 0) + fails'
  BY DEF Balanced
<1>3. /\ IsFiniteSet(Signals(x))
      /\ Cardinality(Signals(x)) + value[x] <= (IF Awaited(x) THEN 1 ELSE 0) + fails
  BY DEF Balanced
<1>4. Signals(x)' = Signals(x)
  BY <1>1 DEF Signals
<1>5. Cardinality(Signals(x)) \in Nat /\ value[x] \in Nat
  BY <1>1, <1>3, FS_CardinalityType
<1>. QED
  BY <1>1, <1>3, <1>4, <1>5

\* So does every step that leaves the queues and the semaphores alone and drops no wait.
LEMMA WaitingBalanced ==
  ASSUME Typed, Balanced, queue' = queue, value' = value, fails' = fails,
         \A x : Busy /\ Asks(job.waits, x) => Busy' /\ Asks(job.waits, x)'
  PROVE  Balanced'
<1>1. SUFFICES ASSUME NEW x \in Slot
               PROVE  /\ IsFiniteSet(Signals(x)')
                      /\ Cardinality(Signals(x)') + value'[x]
                           <= (IF Awaited(x)' THEN 1 ELSE 0) + fails'
  BY DEF Balanced
<1>2. /\ IsFiniteSet(Signals(x))
      /\ Cardinality(Signals(x)) + value[x] <= (IF Awaited(x) THEN 1 ELSE 0) + fails
  BY DEF Balanced
<1>3. Signals(x)' = Signals(x)
  BY DEF Signals
<1>4. Cardinality(Signals(x)) \in Nat /\ value[x] \in Nat /\ fails \in Nat
  BY <1>2, FS_CardinalityType, SyncAssumption DEF Typed
<1>5. Awaited(x) => Awaited(x)'
  BY DEF Awaited, Asks
<1>. QED
  BY <1>2, <1>3, <1>4, <1>5

\* Giving a signal adds one signal of one slot, and a wait for it.
LEMMA GivenSignals ==
  ASSUME Typed, Busy, NEW s, NEW x, SyncedWith(s, x), Given(s, x), NEW y \in Slot
  PROVE  /\ \E at : /\ at \notin Signals(y)
                    /\ Signals(y)' = IF y = x THEN Signals(y) \cup {at} ELSE Signals(y)
         /\ Awaited(y) => Awaited(y)'
         /\ Awaited(x)'
<1>1. PICK old : old = Len(queue[s])
  OBVIOUS
<1>2. PICK at : at = <<s, old + 1>>
  OBVIOUS
<1>3. /\ s \in Ring /\ x \in Slot /\ old \in Nat
  BY <1>1, QueueTypes DEF SyncedWith
<1>4. /\ queue' \in [Ring -> Seq(Command)]
      /\ Len(queue'[s]) = old + 1
      /\ \A i \in 1 .. old : queue'[s][i] = queue[s][i]
      /\ queue'[s][old + 1] = Signal(x)
      /\ \A q \in Ring : q # s => queue'[q] = queue[q]
  BY <1>1, GivenQueues
<1>5. ASSUME NEW q \in Ring, NEW i \in Nat
      PROVE  /\ i \in 1 .. Len(queue'[q]) /\ queue'[q][i] = Signal(y)
             <=> \/ i \in 1 .. Len(queue[q]) /\ queue[q][i] = Signal(y)
                 \/ y = x /\ q = s /\ i = old + 1
  <2>1. CASE q # s
    BY <1>4, <2>1
  <2>2. CASE q = s
    <3>1. i \in 1 .. old + 1 <=> i \in 1 .. old \/ i = old + 1
      BY <1>3
    <3>2. Signal(x) = Signal(y) <=> x = y
      BY DEF Signal
    <3>3. ~(old + 1 \in 1 .. old)
      BY <1>3
    <3>. QED
      BY <1>1, <1>4, <2>2, <3>1, <3>2, <3>3
  <2>. QED
    BY <2>1, <2>2
<1>6. at \notin Signals(y)
  <2>1. ~(old + 1 \in 1 .. old)
    BY <1>3
  <2>. QED
    BY <1>1, <1>2, <2>1 DEF Signals
<1>7. Signals(y)' = IF y = x THEN Signals(y) \cup {at} ELSE Signals(y)
  <2>1. Signals(y)' = {p \in Ring \X Nat : p[2] \in 1 .. Len(queue'[p[1]])
                                          /\ queue'[p[1]][p[2]] = Signal(y)}
    BY DEF Signals
  <2>2. \A p \in Ring \X Nat :
          /\ p[2] \in 1 .. Len(queue'[p[1]]) /\ queue'[p[1]][p[2]] = Signal(y)
          <=> \/ p[2] \in 1 .. Len(queue[p[1]]) /\ queue[p[1]][p[2]] = Signal(y)
              \/ y = x /\ p[1] = s /\ p[2] = old + 1
    BY <1>5
  <2>3. at \in Ring \X Nat /\ \A p \in Ring \X Nat : p[1] = s /\ p[2] = old + 1 <=> p = at
    BY <1>2, <1>3
  <2>4. CASE y = x
    BY <2>1, <2>2, <2>3, <2>4 DEF Signals
  <2>5. CASE y # x
    BY <2>1, <2>2, <2>5 DEF Signals
  <2>. QED
    BY <2>4, <2>5
<1>8. Asks(job.waits, y) => Asks(job.waits, y)'
  <2>1. /\ DOMAIN job.waits = 1 .. Len(job.waits) /\ DOMAIN job.waits' = 1 .. Len(job.waits) + 1
        /\ \A k \in 1 .. Len(job.waits) : job.waits'[k] = job.waits[k]
        /\ Len(job.waits) \in Nat
    BY GivenQueues, JobTypes
  <2>2. \A k \in 1 .. Len(job.waits) : k \in DOMAIN job.waits'
    BY <2>1
  <2>. QED
    BY <2>1, <2>2 DEF Asks
<1>9. Asks(job.waits, x)' /\ Busy'
  <2>1. /\ DOMAIN job.waits' = 1 .. Len(job.waits) + 1 /\ Busy'
        /\ job.waits'[Len(job.waits) + 1] = Wait(x) /\ Len(job.waits) \in Nat
    BY GivenQueues, JobTypes
  <2>2. Len(job.waits) + 1 \in DOMAIN job.waits'
    BY <2>1
  <2>. QED
    BY <2>1, <2>2 DEF Asks
<1>10. \A q \in Ring : Asks(queue[q], y) => Asks(queue'[q], y)
  <2>1. SUFFICES ASSUME NEW q \in Ring, NEW i \in 1 .. Len(queue[q]), queue[q][i] = Wait(y)
                 PROVE  Asks(queue'[q], y)
    BY QueueTypes DEF Asks
  <2>2. i \in 1 .. Len(queue'[q]) /\ queue'[q][i] = Wait(y)
    <3>1. CASE q # s
      BY <1>4, <2>1, <3>1
    <3>2. CASE q = s
      <4>1. i \in 1 .. old /\ i \in 1 .. old + 1
        BY <1>1, <1>3, <2>1, <3>2
      <4>. QED
        BY <1>4, <2>1, <3>2, <4>1
    <3>. QED
      BY <3>1, <3>2
  <2>3. DOMAIN queue'[q] = 1 .. Len(queue'[q])
    BY <1>4
  <2>. QED
    BY <2>2, <2>3 DEF Asks
<1>11. Awaited(y) => Awaited(y)'
  <2>1. CASE Busy /\ Asks(job.waits, y)
    BY <1>8, <1>9, <2>1 DEF Awaited
  <2>2. CASE \E q \in Ring : Asks(queue[q], y)
    <3>1. \E q \in Ring : Asks(queue'[q], y)
      BY <1>10, <2>2
    <3>2. (\E q \in Ring : Asks(queue[q], y))'
      BY <3>1
    <3>. QED
      BY <3>2 DEF Awaited
  <2>. QED
    BY <2>1, <2>2 DEF Awaited
<1>. QED
  BY <1>6, <1>7, <1>9, <1>11 DEF Awaited

\* Synchronising keeps the balance: nobody waited for the slot, and its semaphore is
\* cleared.
LEMMA SynchronizeBalanced ==
  ASSUME Typed, Typed', WaitsHold, JobHolds, Balanced, Busy, NEW s, NEW x, SyncedWith(s, x)
  PROVE  Balanced'
<1>1. /\ x \in Slot /\ Available(x) /\ fails' = fails /\ value' = [value EXCEPT ![x] = 0]
      /\ fails \in Nat /\ value \in [Slot -> Nat]
  BY SyncAssumption DEF SyncedWith, Typed
<1>2. ~Awaited(x)
  BY <1>1, AwaitedIsKept
<1>3. SUFFICES ASSUME NEW y \in Slot
               PROVE  /\ IsFiniteSet(Signals(y)')
                      /\ Cardinality(Signals(y)') + value'[y]
                           <= (IF Awaited(y)' THEN 1 ELSE 0) + fails'
  BY DEF Balanced
<1>4. /\ IsFiniteSet(Signals(y))
      /\ Cardinality(Signals(y)) + value[y] <= (IF Awaited(y) THEN 1 ELSE 0) + fails
  BY DEF Balanced
<1>5. Cardinality(Signals(y)) \in Nat /\ value[y] \in Nat
      /\ value'[y] = IF y = x THEN 0 ELSE value[y]
  BY <1>1, <1>4, FS_CardinalityType
<1>6. CASE Refused(x)
  <2>1. queue' = queue /\ job.waits' = job.waits /\ Busy'
    <3>1. job \in Job
      BY DEF Typed
    <3>2. job' = [job EXCEPT !.slots = @ \cup {x}, !.manual = TRUE] /\ queue' = queue
      BY <1>6 DEF Refused
    <3>3. job'.ring = job.ring /\ job'.waits = job.waits /\ job.ring \in Ring
      BY <3>1, <3>2 DEF Job
    <3>4. Busy'
      BY <3>3, SyncAssumption DEF Busy, NoJob, Ring
    <3>. QED
      BY <3>2, <3>3, <3>4
  <2>2. Signals(y)' = Signals(y) /\ (Awaited(y) => Awaited(y)')
    BY <2>1 DEF Signals, Awaited, Asks
  <2>. QED
    BY <1>1, <1>4, <1>5, <2>2
<1>7. CASE Given(s, x)
  <2>1. PICK at : /\ at \notin Signals(y)
                  /\ Signals(y)' = IF y = x THEN Signals(y) \cup {at} ELSE Signals(y)
    BY <1>7, GivenSignals
  <2>2. (Awaited(y) => Awaited(y)') /\ Awaited(x)'
    BY <1>7, GivenSignals
  <2>3. CASE y = x
    <3>1. /\ IsFiniteSet(Signals(y)')
          /\ Cardinality(Signals(y)') = Cardinality(Signals(y)) + 1
      BY <1>4, <2>1, <2>3, FS_AddElement
    <3>. QED
      BY <1>1, <1>2, <1>4, <1>5, <2>2, <2>3, <3>1
  <2>4. CASE y # x
    BY <1>1, <1>4, <1>5, <2>1, <2>2, <2>4
  <2>. QED
    BY <2>3, <2>4
<1>. QED
  BY <1>6, <1>7 DEF SyncedWith

-----------------------------------------------------------------------------
(* The reservations *)

\* What a step that neither emits nor reserves has to show of the jobs it leaves.
LEMMA ReservedKept ==
  ASSUME Reserved, readers' = readers, writers' = writers, submitted' = submitted,
         NEW off \in [Ring -> Nat],
         \A q \in Ring : \A i \in 1 .. Len(queue'[q]) : queue'[q][i].op = "run" =>
           /\ i + off[q] \in 1 .. Len(queue[q]) /\ queue[q][i + off[q]] = queue'[q][i]
           /\ Reach(q, i)' = Reach(q, i + off[q])
  PROVE  Reserved'
<1>1. SUFFICES ASSUME NEW r \in Ring, NEW i \in 1 .. Len(queue'[r]), queue'[r][i].op = "run"
               PROVE  /\ queue'[r][i].job.n < submitted
                      /\ \A o \in Bo :
                           /\ queue'[r][i].job.use[o] = "write" => writers[o][r] >= Reach(r, i)'
                           /\ queue'[r][i].job.use[o] = "read" => readers[o][r] >= Reach(r, i)'
                      /\ \A q \in Ring : \A m \in 1 .. Len(queue'[q]) :
                           queue'[q][m].op = "run" /\ queue'[q][m].job.n = queue'[r][i].job.n
                           => q = r /\ m = i
  BY DEF Reserved
<1>2. PICK k : k = i + off[r]
  OBVIOUS
<1>3. k \in 1 .. Len(queue[r]) /\ queue[r][k] = queue'[r][i] /\ Reach(r, i)' = Reach(r, k)
  BY <1>1, <1>2
<1>4. /\ queue[r][k].job.n < submitted
      /\ \A o \in Bo : /\ queue[r][k].job.use[o] = "write" => writers[o][r] >= Reach(r, k)
                       /\ queue[r][k].job.use[o] = "read" => readers[o][r] >= Reach(r, k)
      /\ \A q \in Ring : \A m \in 1 .. Len(queue[q]) :
           queue[q][m].op = "run" /\ queue[q][m].job.n = queue[r][k].job.n => q = r /\ m = k
  BY <1>1, <1>3 DEF Reserved
<1>5. ASSUME NEW q \in Ring, NEW m \in 1 .. Len(queue'[q]),
             queue'[q][m].op = "run", queue'[q][m].job.n = queue'[r][i].job.n
      PROVE  q = r /\ m = i
  <2>1. m + off[q] \in 1 .. Len(queue[q]) /\ queue[q][m + off[q]] = queue'[q][m]
    BY <1>5
  <2>2. q = r /\ m + off[q] = k
    BY <1>3, <1>4, <1>5, <2>1
  <2>3. m \in Int /\ i \in Int /\ off[r] \in Int
    OBVIOUS
  <2>. QED
    BY <1>2, <2>2, <2>3
<1>. QED
  BY <1>3, <1>4, <1>5

\* Executing a command leaves the other jobs on their reservations.
LEMMA ExecuteReserved ==
  ASSUME Typed, Reserved, NEW r \in Ring, Execute(r)
  PROVE  Reserved'
<1>1. PICK off \in [Ring -> Nat] : off = [q \in Ring |-> IF q = r THEN 1 ELSE 0]
  <2>1. [q \in Ring |-> IF q = r THEN 1 ELSE 0] \in [Ring -> Nat]
    OBVIOUS
  <2>. QED
    BY <2>1
<1>2. UNCHANGED <<readers, writers, submitted>>
  BY DEF Execute, resv
<1>3. ASSUME NEW q \in Ring, NEW i \in 1 .. Len(queue'[q])
      PROVE  /\ i + off[q] \in 1 .. Len(queue[q]) /\ queue[q][i + off[q]] = queue'[q][i]
             /\ Reach(q, i)' = Reach(q, i + off[q])
  <2>1. Len(queue'[q]) \in Nat
    BY Executed
  <2>2. i \in 0 .. Len(queue'[q])
    BY <2>1
  <2>3. CASE q = r
    <3>1. off[q] = 1
      BY <1>1, <2>3
    <3>2. i + 1 \in 1 .. Len(queue[r]) /\ queue'[r][i] = queue[r][i + 1]
      BY <2>3, Executed
    <3>3. Reach(q, i)' = Reach(q, i + 1)
      BY <2>2, <2>3, ReachExecuted
    <3>. QED
      BY <2>3, <3>1, <3>2, <3>3
  <2>4. CASE q # r
    <3>1. off[q] = 0 /\ i + 0 = i
      BY <1>1, <2>4
    <3>2. queue'[q] = queue[q]
      BY <2>4, Executed
    <3>3. Reach(q, i)' = Reach(q, i)
      BY <2>2, <2>4, ReachExecuted
    <3>. QED
      BY <3>1, <3>2, <3>3
  <2>. QED
    BY <2>3, <2>4
<1>. QED
  BY <1>2, <1>3, ReservedKept

\* Where the queues keep what they had and get no job, the reservations are as good as
\* before.
LEMMA QueuesReserved ==
  ASSUME Reserved, Typed, readers' = readers, writers' = writers, submitted' = submitted,
         done' = done,
         \A q \in Ring : \A i \in 1 .. Len(queue'[q]) : queue'[q][i].op = "run" =>
           i \in 1 .. Len(queue[q]),
         \A q \in Ring : \A i \in 1 .. Len(queue[q]) : queue'[q][i] = queue[q][i]
  PROVE  Reserved'
<1>1. PICK off \in [Ring -> Nat] : off = [q \in Ring |-> 0]
  <2>1. [q \in Ring |-> 0] \in [Ring -> Nat]
    OBVIOUS
  <2>. QED
    BY <2>1
<1>2. ASSUME NEW q \in Ring, NEW i \in 1 .. Len(queue'[q]), queue'[q][i].op = "run"
      PROVE  /\ i + off[q] \in 1 .. Len(queue[q]) /\ queue[q][i + off[q]] = queue'[q][i]
             /\ Reach(q, i)' = Reach(q, i + off[q])
  <2>1. i \in 1 .. Len(queue[q]) /\ Len(queue[q]) \in Nat
    BY <1>2, QueueTypes
  <2>2. off[q] = 0 /\ i + 0 = i /\ i \in Nat
    BY <1>1, <2>1
  <2>3. \A k \in 1 .. i : queue'[q][k] = queue[q][k]
    BY <2>1
  <2>4. Reach(q, i)' = Reach(q, i)
    BY <2>2, <2>3, ReachKept
  <2>. QED
    BY <2>1, <2>2, <2>3, <2>4
<1>. QED
  BY <1>2, ReservedKept

\* Synchronising adds no job.
LEMMA SynchronizeReserved ==
  ASSUME Typed, Reserved, Busy, NEW s, NEW x, SyncedWith(s, x)
  PROVE  Reserved'
<1>1. UNCHANGED <<readers, writers, submitted, done>>
  BY DEF SyncedWith, resv
<1>2. CASE Refused(x)
  BY <1>1, <1>2, QueuesReserved DEF Refused
<1>3. CASE Given(s, x)
  <2>1. /\ s \in Ring /\ Len(queue[s]) \in Nat
        /\ Len(queue'[s]) = Len(queue[s]) + 1
        /\ \A i \in 1 .. Len(queue[s]) : queue'[s][i] = queue[s][i]
        /\ queue'[s][Len(queue[s]) + 1] = Signal(x)
        /\ \A q \in Ring : q # s => queue'[q] = queue[q]
    BY <1>3, GivenQueues, QueueTypes DEF SyncedWith
  <2>2. ASSUME NEW q \in Ring, NEW i \in 1 .. Len(queue'[q]), queue'[q][i].op = "run"
        PROVE  i \in 1 .. Len(queue[q])
    <3>1. CASE q = s
      <4>1. i \in 1 .. Len(queue[s]) \/ i = Len(queue[s]) + 1
        BY <2>1, <2>2, <3>1
      <4>. QED
        BY <2>1, <2>2, <3>1, <4>1, CommandKinds
    <3>2. CASE q # s
      BY <2>1, <3>2
    <3>. QED
      BY <3>1, <3>2
  <2>3. \A q \in Ring : \A i \in 1 .. Len(queue[q]) : queue'[q][i] = queue[q][i]
    BY <2>1
  <2>. QED
    BY <1>1, <2>2, <2>3, QueuesReserved
<1>. QED
  BY <1>2, <1>3 DEF SyncedWith

\* What is in the queues after a job was emitted: what was there, the waits, and the job.
LEMMA EmittedRuns ==
  ASSUME Typed, Busy, NEW failed, Emit(failed), NEW r, NEW old, NEW n, Sizes(r, old, n)
  PROVE  /\ r \in Ring /\ old \in Nat /\ n \in Nat /\ queue'[r][old + n + 1] = Run(submitted,
              job.use)
         /\ Len(queue'[r]) = old + n + 1
         /\ \A q \in Ring : \A i \in 1 .. Len(queue[q]) :
              i \in 1 .. Len(queue'[q]) /\ queue'[q][i] = queue[q][i]
         /\ \A q \in Ring : \A i \in 1 .. Len(queue'[q]) :
              \/ i \in 1 .. Len(queue[q])
              \/ q = r /\ i = old + n + 1
              \/ q = r /\ \E k \in 1 .. n : i = old + k /\ queue'[r][i] = job.waits[k]
                                            /\ queue'[r][i].op = "wait"
<1>1. /\ Len(queue'[r]) = old + n + 1
      /\ \A i \in 1 .. old : queue'[r][i] = queue[r][i]
      /\ \A k \in 1 .. n : queue'[r][old + k] = job.waits[k]
      /\ queue'[r][old + n + 1] = Run(submitted, job.use)
      /\ \A q \in Ring : q # r => queue'[q] = queue[q]
  BY Emitted DEF Sizes
<1>2. /\ r \in Ring /\ old \in Nat /\ n \in Nat /\ old = Len(queue[r])
      /\ \A k \in 1 .. n : job.waits[k].op = "wait"
  BY JobTypes, QueueTypes DEF Sizes
<1>3. ASSUME NEW q \in Ring, NEW i \in 1 .. Len(queue[q])
      PROVE  i \in 1 .. Len(queue'[q]) /\ queue'[q][i] = queue[q][i]
  <2>1. CASE q = r
    BY <1>1, <1>2, <2>1
  <2>2. CASE q # r
    BY <1>1, <2>2
  <2>. QED
    BY <2>1, <2>2
<1>4. ASSUME NEW q \in Ring, NEW i \in 1 .. Len(queue'[q])
      PROVE  \/ i \in 1 .. Len(queue[q])
             \/ q = r /\ i = old + n + 1
             \/ q = r /\ \E k \in 1 .. n : i = old + k /\ queue'[r][i] = job.waits[k]
                                           /\ queue'[r][i].op = "wait"
  <2>1. CASE q # r
    BY <1>1, <2>1
  <2>2. CASE q = r /\ ~(i \in 1 .. Len(queue[q])) /\ i # old + n + 1
    <3>1. i \in 1 .. old + n + 1 /\ ~(i \in 1 .. old)
      BY <1>1, <1>2, <2>2
    <3>2. PICK k : k = i - old
      OBVIOUS
    <3>3. k \in 1 .. n /\ i = old + k
      BY <1>2, <2>2, <3>1, <3>2
    <3>. QED
      BY <1>1, <1>2, <2>2, <3>3
  <2>. QED
    BY <2>1, <2>2
<1>. QED
  BY <1>1, <1>2, <1>3, <1>4

\* The only job a submission adds is its own, at the end of its ring.
LEMMA EmittedRun ==
  ASSUME Typed, Busy, NEW failed, Emit(failed), NEW r, NEW old, NEW n, Sizes(r, old, n),
         NEW q \in Ring, NEW i \in 1 .. Len(queue'[q]), queue'[q][i].op = "run"
  PROVE  i \in 1 .. Len(queue[q]) \/ (q = r /\ i = old + n + 1)
<1>1. \/ i \in 1 .. Len(queue[q])
      \/ q = r /\ i = old + n + 1
      \/ q = r /\ \E k \in 1 .. n : i = old + k /\ queue'[r][i] = job.waits[k]
                                    /\ queue'[r][i].op = "wait"
  BY EmittedRuns
<1>. QED
  BY <1>1

\* The job that is emitted is on the reservations with its fence, and has a number of its
\* own.
LEMMA EmitReserved ==
  ASSUME Typed, Counted, Reserved, Busy, NEW failed, Emit(failed)
  PROVE  Reserved'
<1>1. PICK r : r = job.ring
  OBVIOUS
<1>2. PICK old : old = Len(queue[r])
  OBVIOUS
<1>3. PICK n : n = Len(job.waits)
  OBVIOUS
<1>4. Sizes(r, old, n)
  BY <1>1, <1>2, <1>3 DEF Sizes
<1>5. PICK seq : seq = sync_seq[r][r] + 1
  OBVIOUS
<1>6. /\ r \in Ring /\ old \in Nat /\ n \in Nat
      /\ queue'[r][old + n + 1] = Run(submitted, job.use) /\ Len(queue'[r]) = old + n + 1
      /\ \A q \in Ring : \A i \in 1 .. Len(queue[q]) :
           i \in 1 .. Len(queue'[q]) /\ queue'[q][i] = queue[q][i]
  BY <1>4, EmittedRuns
<1>7. ASSUME NEW q \in Ring, NEW i \in 1 .. Len(queue'[q]), queue'[q][i].op = "run"
      PROVE  i \in 1 .. Len(queue[q]) \/ (q = r /\ i = old + n + 1)
  BY <1>4, <1>7, EmittedRun
<1>8. /\ \A q \in Ring : \A i \in 0 .. Len(queue[q]) : Reach(q, i)' = Reach(q, i)
      /\ Reach(r, old + n + 1)' = Reach(r, old) + 1
  BY <1>4, ReachEmitted
<1>9. Reach(r, old) = sync_seq[r][r] /\ sync_seq[r][r] \in Nat
  BY <1>2, <1>6 DEF Counted, Typed
<1>10. /\ submitted' = submitted + 1 /\ submitted \in Nat
       /\ readers' = [o \in Bo |-> IF job.use[o] = "read"
                                   THEN [readers[o] EXCEPT ![r] = seq] ELSE readers[o]]
       /\ writers' = [o \in Bo |-> IF job.use[o] = "write"
                                   THEN [writers[o] EXCEPT ![r] = seq] ELSE writers[o]]
  BY <1>1, <1>5, SyncAssumption DEF Emit, Typed
<1>11. ASSUME NEW o \in Bo, NEW q \in Ring
       PROVE  /\ readers[o][q] \in Nat /\ readers'[o][q] \in Nat
                   /\ readers'[o][q] >= readers[o][q]
              /\ writers[o][q] \in Nat /\ writers'[o][q] \in Nat
                   /\ writers'[o][q] >= writers[o][q]
  <2>1. /\ readers[o] \in [Ring -> Nat] /\ writers[o] \in [Ring -> Nat]
        /\ readers[o][r] <= sync_seq[r][r] /\ writers[o][r] <= sync_seq[r][r]
    BY <1>6 DEF Typed, Counted
  <2>2. seq \in Nat /\ readers[o][r] <= seq /\ writers[o][r] <= seq
    BY <1>5, <1>6, <1>9, <2>1
  <2>3. readers'[o][q] = readers[o][q] \/ (q = r /\ readers'[o][q] = seq)
    BY <1>10, <2>1
  <2>4. writers'[o][q] = writers[o][q] \/ (q = r /\ writers'[o][q] = seq)
    BY <1>10, <2>1
  <2>. QED
    BY <2>1, <2>2, <2>3, <2>4
<1>12. ASSUME NEW q \in Ring, NEW i \in 1 .. Len(queue[q]), queue[q][i].op = "run"
       PROVE  /\ queue[q][i].job.n \in Nat /\ queue[q][i].job.n < submitted
              /\ \A o \in Bo :
                   /\ queue[q][i].job.use[o] = "write" => writers[o][q] >= Reach(q, i)
                   /\ queue[q][i].job.use[o] = "read" => readers[o][q] >= Reach(q, i)
              /\ \A p \in Ring : \A m \in 1 .. Len(queue[p]) :
                   queue[p][m].op = "run" /\ queue[p][m].job.n = queue[q][i].job.n => p = q
                     /\ m = i
              /\ Reach(q, i) \in Nat /\ Reach(q, i)' = Reach(q, i)
  <2>1. i \in Nat /\ i \in 0 .. Len(queue[q]) /\ queue[q][i] \in Command
    BY QueueTypes
  <2>2. queue[q][i].job.n \in Nat /\ Reach(q, i) \in Nat
    BY <1>12, <2>1, CommandKinds, ReachType
  <2>. QED
    BY <1>8, <1>12, <2>1, <2>2 DEF Reserved
<1>13. /\ Run(submitted, job.use).op = "run" /\ Run(submitted, job.use).job.n = submitted
       /\ Run(submitted, job.use).job.use = job.use
  BY DEF Run
<1>14. SUFFICES ASSUME NEW q \in Ring, NEW i \in 1 .. Len(queue'[q]), queue'[q][i].op = "run"
                PROVE  /\ queue'[q][i].job.n < submitted'
                       /\ \A o \in Bo :
                            /\ queue'[q][i].job.use[o] = "write" => writers'[o][q] >= Reach(q, i)'
                            /\ queue'[q][i].job.use[o] = "read" => readers'[o][q] >= Reach(q, i)'
                       /\ \A p \in Ring : \A m \in 1 .. Len(queue'[p]) :
                            queue'[p][m].op = "run" /\ queue'[p][m].job.n = queue'[q][i].job.n
                            => p = q /\ m = i
  BY DEF Reserved
<1>15. CASE i \in 1 .. Len(queue[q])
  <2>1. queue'[q][i] = queue[q][i]
    BY <1>6, <1>15
  <2>2. queue[q][i].op = "run"
    BY <1>14, <2>1
  <2>3. queue[q][i].job.n < submitted + 1
    BY <1>10, <1>12, <1>15, <2>2
  <2>4. ASSUME NEW o \in Bo
        PROVE  /\ queue[q][i].job.use[o] = "write" => writers'[o][q] >= Reach(q, i)
               /\ queue[q][i].job.use[o] = "read" => readers'[o][q] >= Reach(q, i)
    BY <1>11, <1>12, <1>15, <2>2
  <2>5. ASSUME NEW p \in Ring, NEW m \in 1 .. Len(queue'[p]),
               queue'[p][m].op = "run", queue'[p][m].job.n = queue[q][i].job.n
        PROVE  p = q /\ m = i
    <3>1. CASE m \in 1 .. Len(queue[p])
      <4>1. queue'[p][m] = queue[p][m]
        BY <1>6, <3>1
      <4>2. queue[p][m].op = "run" /\ queue[p][m].job.n = queue[q][i].job.n
        BY <2>5, <4>1
      <4>3. \A l \in 1 .. Len(queue[p]) :
              queue[p][l].op = "run" /\ queue[p][l].job.n = queue[q][i].job.n => p = q /\ l = i
        BY <1>12, <1>15, <2>2
      <4>. QED
        BY <3>1, <4>2, <4>3
    <3>2. CASE p = r /\ m = old + n + 1
      BY <1>6, <1>10, <1>12, <1>13, <1>15, <2>2, <2>5, <3>2
    <3>. QED
      BY <1>7, <2>5, <3>1, <3>2
  <2>. QED
    BY <1>10, <1>12, <1>15, <2>1, <2>2, <2>3, <2>4, <2>5
<1>16. CASE q = r /\ i = old + n + 1
  <2>1. queue'[q][i].job.n = submitted /\ queue'[q][i].job.use = job.use
    BY <1>6, <1>13, <1>16
  <2>2. Reach(q, i)' = seq /\ seq \in Nat
    BY <1>5, <1>8, <1>9, <1>16
  <2>3. ASSUME NEW o \in Bo
        PROVE  /\ job.use[o] = "write" => writers'[o][r] >= seq
               /\ job.use[o] = "read" => readers'[o][r] >= seq
    <3>1. readers[o] \in [Ring -> Nat] /\ writers[o] \in [Ring -> Nat]
      BY DEF Typed
    <3>2. /\ job.use[o] = "write" => writers'[o][r] = seq
          /\ job.use[o] = "read" => readers'[o][r] = seq
      BY <1>6, <1>10, <3>1
    <3>. QED
      BY <2>2, <3>2
  <2>4. ASSUME NEW p \in Ring, NEW m \in 1 .. Len(queue'[p]),
               queue'[p][m].op = "run", queue'[p][m].job.n = submitted
        PROVE  p = q /\ m = i
    <3>1. CASE m \in 1 .. Len(queue[p])
      BY <1>6, <1>10, <1>12, <2>4, <3>1
    <3>. QED
      BY <1>7, <1>16, <2>4, <3>1
  <2>. QED
    BY <1>10, <1>16, <2>1, <2>2, <2>3, <2>4
<1>. QED
  BY <1>7, <1>14, <1>15, <1>16

-----------------------------------------------------------------------------
(* What is known and what is ordered *)

\* A step after which no more can have happened leaves what is known and what is ordered.
LEMMA StillKnowing ==
  ASSUME queue' = queue, done' = done, sync_seq' = sync_seq,
         \A c \in Cut : \A x \in Slot : Signalled(x, c)' => Signalled(x, c),
         \A c \in Cut : \A d \in Ring : Through(d, c)' => Through(d, c)
  PROVE  (Knowing => Knowing') /\ (Ordered => Ordered')
<1>1. Cut' = Cut
  BY DEF Cut
<1>2. ASSUME NEW c \in Cut PROVE Possible(c)' => Possible(c)
  BY <1>2 DEF Possible
<1>3. \A c \in Cut : \A s \in Ring : Reach(s, c[s])' = Reach(s, c[s])
  BY DEF Reach
<1>4. Knowing => Knowing'
  BY <1>1, <1>2, <1>3 DEF Knowing
<1>5. Ordered => Ordered'
  BY <1>1, <1>2 DEF Ordered
<1>. QED
  BY <1>4, <1>5

\* So does the beginning of a submission that waits for nothing yet.
LEMMA SameWaits ==
  ASSUME queue' = queue, value' = value, done' = done, sync_seq' = sync_seq,
         Busy' => \A x : Asks(job.waits, x)' => FALSE
  PROVE  (Knowing /\ ~Busy => Knowing') /\ (Ordered => Ordered')
<1>1. \A c \in Cut : \A x \in Slot : Signalled(x, c)' => Signalled(x, c)
  BY DEF Signalled
<1>2. Cut' = Cut
  BY DEF Cut
<1>3. \A c \in Cut : Possible(c)' => Possible(c)
  BY <1>1 DEF Possible
<1>4. \A c \in Cut : \A d \in Ring : ~Busy /\ Through(d, c)' => Through(d, c)
  BY DEF Through
<1>5. \A c \in Cut : \A s \in Ring : Reach(s, c[s])' = Reach(s, c[s])
  BY DEF Reach
<1>6. Knowing /\ ~Busy => Knowing'
  BY <1>2, <1>3, <1>4, <1>5 DEF Knowing
<1>7. Ordered => Ordered'
  BY <1>2, <1>3 DEF Ordered
<1>. QED
  BY <1>6, <1>7

\* Beginning a submission keeps what is known and what is ordered.
LEMMA BeginKnows ==
  ASSUME Typed, Counted, NEW r \in Ring, NEW use \in Use, Begin(r, use), Knowing, Ordered
  PROVE  Knowing' /\ Ordered'
<1>1. queue' = queue /\ value' = value /\ done' = done /\ sync_seq' = sync_seq /\ ~Busy
  BY DEF Begin
<1>2. job.waits' = <<>>
  BY BeginTyped
<1>3. \A x : Asks(job.waits, x)' => FALSE
  BY <1>2 DEF Asks
<1>. QED
  BY <1>1, <1>3, SameWaits

\* Waiting for a fence keeps them, and the ring that was waited for need not be looked at
\* again.
LEMMA ManualKnows ==
  ASSUME Typed, Counted, WaitManually, Knowing, Synced, Ordered
  PROVE  Knowing' /\ Synced' /\ Ordered'
<1>1. /\ Busy /\ Busy'
      /\ job.ring' = job.ring /\ job.use' = job.use /\ job.sync_to' = job.sync_to
      /\ job.waits' = job.waits
      /\ UNCHANGED <<queue, done, sync_seq, readers, writers, value>>
  BY ManualKeeps
<1>2. \A c \in Cut : \A x \in Slot : Signalled(x, c)' => Signalled(x, c)
  BY <1>1 DEF Signalled
<1>3. \A x : Asks(job.waits, x)' <=> Asks(job.waits, x)
  BY <1>1 DEF Asks
<1>4. \A c \in Cut : \A d \in Ring : Through(d, c)' => Through(d, c)
  BY <1>1, <1>2, <1>3 DEF Through
<1>5. Knowing' /\ Ordered'
  BY <1>1, <1>2, <1>4, StillKnowing
<1>6. PICK s \in Ring : /\ job.next' = s + 1 /\ done[s] >= job.sync_to[s] /\ job.next <= s
                        /\ \A q \in job.next .. (s - 1) : ~NeedSync(q)
  BY ManualKeeps
<1>7. ASSUME NEW t \in Ring, t < s + 1
      PROVE  t = job.ring \/ job.sync_to[t] <= sync_seq[job.ring][t] \/ done[t] >= job.sync_to[t]
  <2>1. job.next \in Int /\ t \in Int /\ s \in Int
    BY <1>1, JobTypes, SyncAssumption DEF Ring
  <2>2. CASE t < job.next
    BY <1>1, <2>2 DEF Synced
  <2>3. CASE t = s
    BY <1>6, <2>3
  <2>4. CASE t \in job.next .. (s - 1)
    <3>1. /\ sync_seq[job.ring][t] \in Nat /\ job.sync_to[t] \in Nat
      BY <1>1, JobTypes DEF Typed
    <3>. QED
      BY <1>6, <2>4, <3>1 DEF NeedSync
  <2>. QED
    BY <1>7, <2>1, <2>2, <2>3, <2>4
<1>8. Synced'
  <2>1. /\ \A t \in Ring : job.sync_to[t] <= sync_seq[t][t]
        /\ \A t \in Ring, o \in Bo :
             /\ job.use[o] # "none" => writers[o][t] <= job.sync_to[t]
             /\ job.use[o] = "write" => readers[o][t] <= job.sync_to[t]
    BY <1>1 DEF Synced
  <2>2. \A t \in Ring : t < job.next' =>
          t = job.ring \/ job.sync_to[t] <= sync_seq[job.ring][t] \/ done[t] >= job.sync_to[t]
    BY <1>6, <1>7
  <2>. QED
    BY <1>1, <2>1, <2>2 DEF Synced
<1>. QED
  BY <1>5, <1>8

\* A semaphore that is refused keeps them, for the slot it cleared was nobody's.
LEMMA RefusedKnows ==
  ASSUME Typed, Busy, NEW s, NEW x, SyncedWith(s, x), Refused(x), Knowing, Synced, Ordered
  PROVE  Knowing' /\ Synced' /\ Ordered'
<1>1. /\ queue' = queue /\ sync_seq' = sync_seq
      /\ done' = done /\ readers' = readers /\ writers' = writers
      /\ value' = [value EXCEPT ![x] = 0] /\ x \in Slot /\ value \in [Slot -> Nat]
  BY DEF SyncedWith, Refused, Typed, resv
<1>2. /\ job.ring' = job.ring /\ job.use' = job.use /\ job.sync_to' = job.sync_to
      /\ job.waits' = job.waits /\ job.next' = job.next
  <2>1. job \in Job /\ job' = [job EXCEPT !.slots = @ \cup {x}, !.manual = TRUE]
    BY DEF Typed, Refused
  <2>. QED
    BY <2>1 DEF Job
<1>3. \A c \in Cut : \A y \in Slot : Signalled(y, c)' => Signalled(y, c)
  <2>1. \A y \in Slot : value'[y] > 0 => value[y] > 0
    BY <1>1
  <2>. QED
    BY <1>1, <2>1 DEF Signalled
<1>4. \A y : Asks(job.waits, y)' <=> Asks(job.waits, y)
  BY <1>2 DEF Asks
<1>5. Busy'
  <2>1. job.ring' \in Ring
    BY <1>2, JobTypes
  <2>. QED
    BY <2>1, SyncAssumption DEF Busy, NoJob, Ring
<1>6. \A c \in Cut : \A d \in Ring : Through(d, c)' => Through(d, c)
  BY <1>1, <1>2, <1>3, <1>4, <1>5 DEF Through
<1>7. Knowing' /\ Ordered'
  BY <1>1, <1>3, <1>6, StillKnowing
<1>8. Synced'
  BY <1>1, <1>2 DEF Synced
<1>. QED
  BY <1>7, <1>8

\* What may have happened after a command could have happened, with it, before.
LEMMA ExecutedCut ==
  ASSUME Typed, NEW r \in Ring, Execute(r), NEW c \in [Ring -> Nat], c \in Cut', Possible(c)',
         NEW b, b = [q \in Ring |-> IF q = r THEN c[q] + 1 ELSE c[q]]
  PROVE  /\ b \in Cut /\ Possible(b)
         /\ \A x \in Slot : Signalled(x, c)' => Signalled(x, b)
         /\ \A q \in Ring : Reach(q, c[q])' = Reach(q, b[q])
<1>1. /\ Len(queue[r]) \in Nat \ {0} /\ Len(queue'[r]) = Len(queue[r]) - 1
      /\ \A i \in 1 .. Len(queue'[r]) : queue'[r][i] = queue[r][i + 1]
      /\ \A q \in Ring : q # r => queue'[q] = queue[q]
      /\ queue' \in [Ring -> Seq(Command)]
  BY Executed
<1>2. \A q \in Ring : c[q] \in Nat /\ c[q] <= Len(queue'[q])
  BY DEF Cut
<1>3. b[r] = c[r] + 1 /\ \A q \in Ring : q # r => b[q] = c[q]
  OBVIOUS
<1>4. b \in Cut
  <2>1. b \in [Ring -> Nat]
    OBVIOUS
  <2>2. \A q \in Ring : b[q] <= Len(queue[q])
    BY <1>1, <1>2, <1>3
  <2>. QED
    BY <2>1, <2>2 DEF Cut
<1>5. ASSUME NEW q \in Ring, NEW i \in 1 .. c[q]
      PROVE  \E j \in 1 .. b[q] : queue[q][j] = queue'[q][i]
  <2>1. CASE q = r
    <3>1. i \in 1 .. Len(queue'[r]) /\ i + 1 \in 1 .. b[r]
      BY <1>1, <1>2, <1>3, <1>5, <2>1
    <3>. QED
      BY <1>1, <2>1, <3>1
  <2>2. CASE q # r
    BY <1>1, <1>3, <2>2
  <2>. QED
    BY <2>1, <2>2
<1>6. ASSUME NEW q \in Ring, NEW i \in 1 .. b[q], ~(q = r /\ i = 1)
      PROVE  \E j \in 1 .. c[q] : queue'[q][j] = queue[q][i]
  <2>1. CASE q = r
    <3>1. PICK j : j = i - 1
      OBVIOUS
    <3>2. j \in 1 .. c[r] /\ j \in 1 .. Len(queue'[r]) /\ j + 1 = i
      BY <1>1, <1>2, <1>3, <1>6, <2>1, <3>1
    <3>3. queue'[r][j] = queue[r][j + 1]
      BY <1>1, <3>2
    <3>. QED
      BY <2>1, <3>2, <3>3
  <2>2. CASE q # r
    BY <1>1, <1>3, <2>2
  <2>. QED
    BY <2>1, <2>2
<1>7. 1 \in 1 .. b[r]
  BY <1>2, <1>3
<1>8. ASSUME NEW x \in Slot, Signalled(x, c)' PROVE Signalled(x, b)
  <2>1. CASE \E q \in Ring : \E i \in 1 .. c[q] : queue'[q][i] = Signal(x)
    <3>1. PICK q \in Ring : \E i \in 1 .. c[q] : queue'[q][i] = Signal(x)
      BY <2>1
    <3>. QED
      BY <1>5, <3>1 DEF Signalled
  <2>2. CASE value'[x] > 0
    <3>1. CASE queue[r][1] = Signal(x)
      BY <1>7, <3>1 DEF Signalled
    <3>2. CASE queue[r][1] # Signal(x)
      <4>1. value \in [Slot -> Nat]
        BY DEF Typed
      <4>2. CASE value' = value
        BY <2>2, <4>2 DEF Signalled
      <4>3. ASSUME NEW y \in Slot, queue[r][1] = Signal(y), value' = [value EXCEPT ![y] = @ + 1]
            PROVE  value[x] > 0
        BY <2>2, <3>2, <4>1, <4>3
      <4>4. ASSUME NEW y \in Slot, value' = [value EXCEPT ![y] = @ - 1]
            PROVE  value[x] > 0
        BY <2>2, <4>1, <4>4
      <4>5. \/ value' = value
            \/ \E y \in Slot : queue[r][1] = Signal(y) /\ value' = [value EXCEPT ![y] = @ + 1]
            \/ \E y \in Slot : value' = [value EXCEPT ![y] = @ - 1]
        BY ExecutedHead
      <4>. QED
        BY <4>2, <4>3, <4>4, <4>5 DEF Signalled
    <3>. QED
      BY <3>1, <3>2
  <2>. QED
    BY <1>8, <2>1, <2>2 DEF Signalled
<1>9. Possible(b)
  <2>1. SUFFICES ASSUME NEW q \in Ring, NEW i \in 1 .. b[q], NEW x \in Slot, queue[q][i] = Wait(x)
                 PROVE  Signalled(x, b)
    BY DEF Possible
  <2>2. CASE q = r /\ i = 1
    <3>1. queue[r][1].op = "wait" /\ queue[r][1].slot = x
      BY <2>1, <2>2, CommandKinds
    <3>2. value[x] > 0
      BY <3>1, ExecutedHead
    <3>. QED
      BY <3>2 DEF Signalled
  <2>3. CASE ~(q = r /\ i = 1)
    <3>1. PICK j \in 1 .. c[q] : queue'[q][j] = queue[q][i]
      BY <1>6, <2>3
    <3>2. Signalled(x, c)'
      BY <2>1, <3>1 DEF Possible
    <3>. QED
      BY <1>8, <3>2
  <2>. QED
    BY <2>2, <2>3
<1>10. ASSUME NEW q \in Ring PROVE Reach(q, c[q])' = Reach(q, b[q])
  <2>1. c[q] \in 0 .. Len(queue'[q])
    BY <1>1, <1>2
  <2>. QED
    BY <1>3, <2>1, ReachExecuted
<1>. QED
  BY <1>4, <1>8, <1>9, <1>10

\* Executing a command keeps what is known and what is ordered.
LEMMA ExecuteKnows ==
  ASSUME Typed, Counted, NEW r \in Ring, Execute(r), Knowing, Synced, Ordered
  PROVE  Knowing' /\ Synced' /\ Ordered'
<1>1. UNCHANGED <<sync_seq, readers, writers, job>>
  BY DEF Execute, resv
<1>2. /\ Len(queue[r]) \in Nat \ {0} /\ Len(queue'[r]) = Len(queue[r]) - 1
      /\ \A i \in 1 .. Len(queue'[r]) : queue'[r][i] = queue[r][i + 1]
      /\ \A q \in Ring : q # r => queue'[q] = queue[q]
      /\ queue' \in [Ring -> Seq(Command)]
  BY Executed
<1>3. Synced'
  <2>1. \A s \in Ring : done[s] \in Nat /\ done'[s] \in Nat /\ done[s] <= done'[s]
    <3>1. done \in [Ring -> Nat]
      BY DEF Typed
    <3>2. done' = done \/ done' = [done EXCEPT ![r] = @ + 1]
      BY ExecutedHead
    <3>. QED
      BY <3>1, <3>2
  <2>2. Busy' <=> Busy
    BY <1>1 DEF Busy
  <2>3. ASSUME Busy PROVE \A s \in Ring : job.sync_to[s] \in Nat
    BY <2>3, JobTypes
  <2>4. ASSUME Busy, NEW s \in Ring, s < job.next
        PROVE  \/ s = job.ring \/ job.sync_to[s] <= sync_seq[job.ring][s]
               \/ done'[s] >= job.sync_to[s]
    <3>1. s = job.ring \/ job.sync_to[s] <= sync_seq[job.ring][s] \/ done[s] >= job.sync_to[s]
      BY <2>4 DEF Synced
    <3>. QED
      BY <2>1, <2>3, <2>4, <3>1
  <2>5. Busy => /\ \A s \in Ring : job.sync_to[s] <= sync_seq[s][s]
                /\ \A s \in Ring, o \in Bo :
                     /\ job.use[o] # "none" => writers[o][s] <= job.sync_to[s]
                     /\ job.use[o] = "write" => readers[o][s] <= job.sync_to[s]
    BY DEF Synced
  <2>. QED
    BY <1>1, <2>2, <2>4, <2>5 DEF Synced
<1>4. ASSUME NEW c \in [Ring -> Nat], c \in Cut', Possible(c)'
      PROVE  /\ \A d \in Ring : Through(d, c)' => \A s \in Ring : Reach(s,
                  c[s])' >= sync_seq[d][s]
             /\ \A p \in Ring : \A i \in 1 .. c[p] : queue'[p][i].op = "run" =>
                  \A q \in Ring : \A m \in 1 .. Len(queue'[q]) :
                    /\ queue'[q][m].op = "run" /\ queue'[q][m].job.n < queue'[p][i].job.n
                    /\ Order!Conflict(queue'[p][i].job, queue'[q][m].job)
                    => m <= c[q]
  <2>1. PICK b : b = [q \in Ring |-> IF q = r THEN c[q] + 1 ELSE c[q]]
    OBVIOUS
  <2>2. /\ b \in Cut /\ Possible(b)
        /\ \A x \in Slot : Signalled(x, c)' => Signalled(x, b)
        /\ \A q \in Ring : Reach(q, c[q])' = Reach(q, b[q])
    BY <1>4, <2>1, ExecutedCut
  <2>3. b[r] = c[r] + 1 /\ c[r] \in Nat /\ \A q \in Ring : q # r => b[q] = c[q]
    BY <2>1
  <2>4. ASSUME NEW d \in Ring, Through(d, c)' PROVE Through(d, b)
    <3>1. c[d] = Len(queue'[d])
      BY <2>4 DEF Through
    <3>2. b[d] = Len(queue[d])
      BY <1>2, <2>3, <3>1
    <3>3. Busy /\ job.ring = d => \A x \in Slot : Asks(job.waits, x) => Signalled(x, b)
      BY <1>1, <2>2, <2>4 DEF Through, Asks, Busy
    <3>. QED
      BY <3>2, <3>3 DEF Through
  <2>5. \A d \in Ring : Through(d, c)' => \A s \in Ring : Reach(s, c[s])' >= sync_seq[d][s]
    BY <2>2, <2>4 DEF Knowing
  <2>6. ASSUME NEW p \in Ring, NEW i \in 1 .. c[p], queue'[p][i].op = "run",
               NEW q \in Ring, NEW m \in 1 .. Len(queue'[q]), queue'[q][m].op = "run",
               queue'[q][m].job.n < queue'[p][i].job.n,
               Order!Conflict(queue'[p][i].job, queue'[q][m].job)
        PROVE  m <= c[q]
    <3>1. PICK k : k = IF p = r THEN i + 1 ELSE i
      OBVIOUS
    <3>2. PICK l : l = IF q = r THEN m + 1 ELSE m
      OBVIOUS
    <3>3. c[p] <= Len(queue'[p]) /\ c[p] \in Nat /\ Len(queue'[p]) \in Nat
      BY <1>2, <1>4 DEF Cut
    <3>4. k \in 1 .. b[p] /\ queue[p][k] = queue'[p][i]
      <4>1. CASE p = r
        <5>1. i \in 1 .. Len(queue'[r]) /\ k = i + 1 /\ k \in 1 .. b[r]
          BY <2>3, <3>1, <3>3, <4>1
        <5>. QED
          BY <1>2, <4>1, <5>1
      <4>2. CASE p # r
        BY <1>2, <2>3, <3>1, <4>2
      <4>. QED
        BY <4>1, <4>2
    <3>5. l \in 1 .. Len(queue[q]) /\ queue[q][l] = queue'[q][m]
      <4>1. CASE q = r
        <5>1. l = m + 1 /\ m + 1 \in 1 .. Len(queue[r])
          BY <1>2, <3>2, <4>1
        <5>. QED
          BY <1>2, <4>1, <5>1
      <4>2. CASE q # r
        BY <1>2, <3>2, <4>2
      <4>. QED
        BY <4>1, <4>2
    <3>6. l <= b[q]
      <4>1. /\ queue[p][k].op = "run" /\ queue[q][l].op = "run"
            /\ queue[q][l].job.n < queue[p][k].job.n
            /\ Order!Conflict(queue[p][k].job, queue[q][l].job)
        BY <2>6, <3>4, <3>5
      <4>. QED
        BY <2>2, <3>4, <3>5, <4>1 DEF Ordered
    <3>. QED
      <4>1. CASE q = r
        BY <2>3, <3>2, <3>6, <4>1
      <4>2. CASE q # r
        BY <2>3, <3>2, <3>6, <4>2
      <4>. QED
        BY <4>1, <4>2
  <2>. QED
    BY <2>5, <2>6
<1>5. \A c : c \in Cut' => c \in [Ring -> Nat]
  BY DEF Cut
<1>6. Knowing'
  BY <1>1, <1>4, <1>5 DEF Knowing
<1>7. Ordered'
  BY <1>4, <1>5 DEF Ordered
<1>. QED
  BY <1>3, <1>6, <1>7

\* If nothing has failed, nothing queued names a slot that can be given out.
LEMMA FreshSlot ==
  ASSUME Typed, WaitsHold, JobHolds, Balanced, fails = 0, NEW x \in Slot, Available(x)
  PROVE  /\ \A q \in Ring : \A i \in 1 .. Len(queue[q]) :
              queue[q][i] # Wait(x) /\ queue[q][i] # Signal(x)
         /\ Busy => ~Asks(job.waits, x)
<1>1. /\ \A r \in Ring : \A i \in 1 .. Len(queue[r]) : queue[r][i] # Wait(x)
      /\ Busy => x \notin job.slots /\ ~Asks(job.waits, x)
      /\ ~Awaited(x)
  BY AwaitedIsKept
<1>2. /\ IsFiniteSet(Signals(x))
      /\ Cardinality(Signals(x)) + value[x] <= (IF Awaited(x) THEN 1 ELSE 0) + fails
      /\ value[x] \in Nat
  BY DEF Balanced, Typed
<1>3. Cardinality(Signals(x)) \in Nat
  BY <1>2, FS_CardinalityType
<1>4. Cardinality(Signals(x)) = 0
  BY <1>1, <1>2, <1>3
<1>5. Signals(x) = {}
  BY <1>2, <1>4, FS_EmptySet
<1>6. ASSUME NEW q \in Ring, NEW i \in 1 .. Len(queue[q]), queue[q][i] = Signal(x) PROVE FALSE
  <2>1. i \in Nat
    BY QueueTypes
  <2>2. <<q, i>> \in Signals(x)
    BY <1>6, <2>1 DEF Signals
  <2>. QED
    BY <1>5, <2>2
<1>. QED
  BY <1>1, <1>6

\* The cut before the signal was given: if the waiting ring is through its waits, the
\* signal was given, so the signalling ring was through what it had.
LEMMA GivenCut ==
  ASSUME Typed, WaitsHold, JobHolds, Balanced, fails = 0, Busy,
         NEW s, NEW x, SyncedWith(s, x), Given(s, x),
         NEW c \in [Ring -> Nat], c \in Cut', Possible(c)', NEW b \in [Ring -> Nat],
         b = [q \in Ring |-> IF c[q] <= Len(queue[q]) THEN c[q] ELSE Len(queue[q])]
  PROVE  /\ b \in Cut /\ Possible(b) /\ \A q \in Ring : b[q] <= c[q]
         /\ \A q \in Ring : b[q] = c[q] \/ (q = s /\ b[s] = Len(queue[s])
              /\ c[s] = Len(queue[s]) + 1)
         /\ \A y \in Slot : y # x /\ Signalled(y, c)' => Signalled(y, b)
         /\ \A q \in Ring : Reach(q, c[q])' = Reach(q, b[q])
         /\ \A d \in Ring : Through(d, c)' => Through(d, b)
         /\ Through(job.ring, c)' => Through(s, b)
<1>1. /\ s \in Ring /\ x \in Slot /\ Available(x) /\ s # job.ring
      /\ value' = [value EXCEPT ![x] = 0] /\ value \in [Slot -> Nat]
  BY DEF SyncedWith, Typed
<1>2. PICK old \in Nat : old = Len(queue[s])
  BY <1>1, QueueTypes
<1>3. /\ Len(queue'[s]) = old + 1
      /\ \A i \in 1 .. old : queue'[s][i] = queue[s][i]
      /\ queue'[s][old + 1] = Signal(x)
      /\ \A q \in Ring : q # s => queue'[q] = queue[q]
  BY <1>2, GivenQueues
<1>4. /\ Busy' /\ job.ring' = job.ring
      /\ DOMAIN job.waits' = 1 .. Len(job.waits) + 1 /\ DOMAIN job.waits = 1 .. Len(job.waits)
      /\ \A k \in 1 .. Len(job.waits) : job.waits'[k] = job.waits[k]
      /\ job.waits'[Len(job.waits) + 1] = Wait(x) /\ Len(job.waits) \in Nat
  BY GivenQueues, JobTypes
<1>5. /\ \A q \in Ring : \A i \in 1 .. Len(queue[q]) :
           queue[q][i] # Wait(x) /\ queue[q][i] # Signal(x)
      /\ ~Asks(job.waits, x)
  BY <1>1, FreshSlot
<1>6. \A q \in Ring : c[q] <= Len(queue'[q]) /\ Len(queue[q]) \in Nat
  BY QueueTypes DEF Cut
<1>7. \A q \in Ring : b[q] = IF c[q] <= Len(queue[q]) THEN c[q] ELSE Len(queue[q])
  OBVIOUS
<1>8. ASSUME NEW q \in Ring
      PROVE  /\ b[q] <= c[q] /\ b[q] <= Len(queue[q])
             /\ b[q] = c[q] \/ (q = s /\ b[s] = old /\ c[s] = old + 1)
  <2>1. CASE q = s
    BY <1>2, <1>3, <1>6, <1>7, <2>1
  <2>2. CASE q # s
    BY <1>3, <1>6, <1>7, <2>2
  <2>. QED
    BY <2>1, <2>2
<1>9. b \in Cut
  BY <1>8 DEF Cut
<1>10. ASSUME NEW q \in Ring, NEW i \in 1 .. b[q]
       PROVE  i \in 1 .. c[q] /\ i \in 1 .. Len(queue[q]) /\ queue'[q][i] = queue[q][i]
  <2>1. i \in 1 .. c[q] /\ i \in 1 .. Len(queue[q])
    BY <1>6, <1>8
  <2>2. CASE q = s
    BY <1>2, <1>3, <2>1, <2>2
  <2>3. CASE q # s
    BY <1>3, <2>1, <2>3
  <2>. QED
    BY <2>1, <2>2, <2>3
<1>11. ASSUME NEW q \in Ring, NEW i \in 1 .. c[q]
       PROVE  i \in 1 .. b[q] \/ (q = s /\ i = old + 1 /\ c[s] = old + 1)
  BY <1>2, <1>8
<1>12. ASSUME NEW y \in Slot, y # x, Signalled(y, c)' PROVE Signalled(y, b)
  <2>1. CASE value'[y] > 0
    BY <1>1, <1>12, <2>1 DEF Signalled
  <2>2. CASE \E q \in Ring : \E i \in 1 .. c[q] : queue'[q][i] = Signal(y)
    <3>1. PICK q \in Ring : \E i \in 1 .. c[q] : queue'[q][i] = Signal(y)
      BY <2>2
    <3>2. PICK i \in 1 .. c[q] : queue'[q][i] = Signal(y)
      BY <3>1
    <3>3. Signal(x) # Signal(y)
      BY <1>12 DEF Signal
    <3>4. i \in 1 .. b[q]
      BY <1>3, <1>11, <3>2, <3>3
    <3>. QED
      BY <1>10, <3>2, <3>4 DEF Signalled
  <2>. QED
    BY <1>12, <2>1, <2>2 DEF Signalled
<1>13. Possible(b)
  <2>1. SUFFICES ASSUME NEW q \in Ring, NEW i \in 1 .. b[q], NEW y \in Slot, queue[q][i] = Wait(y)
                 PROVE  Signalled(y, b)
    BY DEF Possible
  <2>2. i \in 1 .. c[q] /\ i \in 1 .. Len(queue[q]) /\ queue'[q][i] = Wait(y)
    BY <1>10, <2>1
  <2>3. y # x
    BY <1>5, <2>1, <2>2
  <2>4. Signalled(y, c)'
    BY <2>2 DEF Possible
  <2>. QED
    BY <1>12, <2>3, <2>4
<1>14. ASSUME NEW q \in Ring PROVE Reach(q, c[q])' = Reach(q, b[q])
  <2>1. b[q] \in 0 .. Len(queue[q])
    BY <1>6, <1>8
  <2>2. Reach(q, b[q])' = Reach(q, b[q])
    BY <2>1, ReachGiven
  <2>3. Reach(s, old + 1)' = Reach(s, old)
    BY <1>2, ReachGiven
  <2>4. CASE b[q] = c[q]
    BY <2>2, <2>4
  <2>5. CASE q = s /\ b[s] = old /\ c[s] = old + 1
    BY <2>3, <2>5
  <2>. QED
    BY <1>8, <2>4, <2>5
<1>15. ASSUME NEW d \in Ring, Through(d, c)' PROVE Through(d, b)
  <2>1. c[d] = Len(queue'[d])
    BY <1>15 DEF Through
  <2>2. b[d] = Len(queue[d])
    BY <1>2, <1>3, <1>6, <1>7, <2>1
  <2>3. ASSUME job.ring = d, NEW y \in Slot, Asks(job.waits, y) PROVE Signalled(y, b)
    <3>1. y # x
      BY <1>5, <2>3
    <3>2. Asks(job.waits, y)'
      <4>1. PICK k \in 1 .. Len(job.waits) : job.waits[k] = Wait(y)
        BY <1>4, <2>3 DEF Asks
      <4>2. k \in DOMAIN job.waits' /\ job.waits'[k] = Wait(y)
        BY <1>4, <4>1
      <4>. QED
        BY <4>2 DEF Asks
    <3>3. Signalled(y, c)'
      BY <1>4, <1>15, <2>3, <3>2 DEF Through
    <3>. QED
      BY <1>12, <3>1, <3>3
  <2>. QED
    BY <2>2, <2>3 DEF Through
<1>16. ASSUME Through(job.ring, c)' PROVE Through(s, b)
  <2>1. Asks(job.waits, x)'
    <3>1. Len(job.waits) + 1 \in DOMAIN job.waits'
      BY <1>4
    <3>. QED
      BY <1>4, <3>1 DEF Asks
  <2>2. Signalled(x, c)'
    BY <1>1, <1>4, <1>16, <2>1 DEF Through
  <2>3. value'[x] = 0
    BY <1>1
  <2>4. \E q \in Ring : \E i \in 1 .. c[q] : queue'[q][i] = Signal(x)
    BY <2>2, <2>3 DEF Signalled
  <2>5. PICK q \in Ring : \E i \in 1 .. c[q] : queue'[q][i] = Signal(x)
    BY <2>4
  <2>6. PICK i \in 1 .. c[q] : queue'[q][i] = Signal(x)
    BY <2>5
  <2>7. ~(i \in 1 .. b[q])
    BY <1>5, <1>10, <2>6
  <2>8. c[s] = old + 1
    BY <1>11, <2>7
  <2>9. b[s] = Len(queue[s])
    BY <1>1, <1>2, <1>7, <2>8
  <2>. QED
    BY <1>1, <2>9 DEF Through
<1>. QED
  BY <1>2, <1>8, <1>9, <1>12, <1>13, <1>14, <1>15, <1>16

\* A signal and its wait keep what is known: the waiting ring learns what the signalling
\* ring has emitted and what it knows itself.
LEMMA GivenKnows ==
  ASSUME Typed, Counted, WaitsHold, JobHolds, Balanced, fails = 0, Busy, Knowing, Synced, Ordered,
         NEW s, NEW x, SyncedWith(s, x), Given(s, x)
  PROVE  Knowing' /\ Synced' /\ Ordered'
<1>1. /\ s \in Ring /\ s # job.ring /\ job.next <= s
           /\ \A q \in job.next .. (s - 1) : ~NeedSync(q)
      /\ UNCHANGED <<done, readers, writers>> /\ NoteSync(job.ring, s)
  BY DEF SyncedWith, resv, Given
<1>2. PICK d0 \in Ring : d0 = job.ring
  BY JobTypes
<1>3. /\ \A e \in Ring : e # d0 => sync_seq'[e] = sync_seq[e]
      /\ \A i \in Ring :
           sync_seq'[d0][i] = IF i = d0 THEN sync_seq[d0][i]
                              ELSE Larger(sync_seq[d0][i], sync_seq[s][i])
      /\ \A i \in Ring : sync_seq'[i][i] = sync_seq[i][i]
  BY <1>1, <1>2, Noted
<1>4. \A i, j \in Ring : sync_seq[i][j] \in Nat
  BY DEF Typed
<1>5. /\ queue' \in [Ring -> Seq(Command)]
      /\ Len(queue'[s]) = Len(queue[s]) + 1 /\ Len(queue[s]) \in Nat
      /\ \A i \in 1 .. Len(queue[s]) : queue'[s][i] = queue[s][i]
      /\ queue'[s][Len(queue[s]) + 1] = Signal(x)
      /\ \A q \in Ring : q # s => queue'[q] = queue[q]
  BY <1>1, GivenQueues, QueueTypes
<1>6. /\ Busy' /\ job.ring' = job.ring /\ job.use' = job.use /\ job.sync_to' = job.sync_to
      /\ job.next' = s + 1
  BY GivenQueues
<1>7. ASSUME NEW q \in Ring, NEW m \in 1 .. Len(queue'[q]), queue'[q][m].op = "run"
      PROVE  m \in 1 .. Len(queue[q]) /\ queue'[q][m] = queue[q][m]
  <2>1. CASE q = s
    <3>1. m # Len(queue[s]) + 1
      BY <1>5, <1>7, <2>1, CommandKinds
    <3>. QED
      BY <1>5, <1>7, <2>1, <3>1
  <2>2. CASE q # s
    BY <1>5, <2>2
  <2>. QED
    BY <2>1, <2>2
<1>8. ASSUME NEW c \in [Ring -> Nat], c \in Cut', Possible(c)'
      PROVE  /\ \A d \in Ring : Through(d, c)' =>
                   \A t \in Ring : Reach(t, c[t])' >= sync_seq'[d][t]
             /\ \A p \in Ring : \A i \in 1 .. c[p] : queue'[p][i].op = "run" =>
                  \A q \in Ring : \A m \in 1 .. Len(queue'[q]) :
                    /\ queue'[q][m].op = "run" /\ queue'[q][m].job.n < queue'[p][i].job.n
                    /\ Order!Conflict(queue'[p][i].job, queue'[q][m].job)
                    => m <= c[q]
  <2>1. PICK b \in [Ring -> Nat] :
          b = [q \in Ring |-> IF c[q] <= Len(queue[q]) THEN c[q] ELSE Len(queue[q])]
    <3>1. \A q \in Ring : Len(queue[q]) \in Nat
      BY QueueTypes
    <3>2. [q \in Ring |-> IF c[q] <= Len(queue[q]) THEN c[q] ELSE Len(queue[q])] \in [Ring -> Nat]
      BY <3>1
    <3>. QED
      BY <3>2
  <2>2. /\ b \in Cut /\ Possible(b) /\ \A q \in Ring : b[q] <= c[q]
        /\ \A q \in Ring : b[q] = c[q] \/ (q = s /\ b[s] = Len(queue[s])
             /\ c[s] = Len(queue[s]) + 1)
        /\ \A q \in Ring : Reach(q, c[q])' = Reach(q, b[q])
        /\ \A d \in Ring : Through(d, c)' => Through(d, b)
        /\ Through(d0, c)' => Through(s, b)
    <3>1. job.ring' = d0
      BY <1>2, <1>6
    <3>2. Through(job.ring, c)' <=> Through(d0, c)'
      BY <3>1 DEF Through
    <3>3. Through(job.ring, c)' => Through(s, b)
      BY <1>8, <2>1, GivenCut
    <3>4. b \in Cut /\ Possible(b) /\ \A q \in Ring : b[q] <= c[q]
      BY <1>8, <2>1, GivenCut
    <3>5. \A q \in Ring : Reach(q, c[q])' = Reach(q, b[q])
      BY <1>8, <2>1, GivenCut
    <3>6. \A d \in Ring : Through(d, c)' => Through(d, b)
      BY <1>8, <2>1, GivenCut
    <3>7. \A q \in Ring :
            b[q] = c[q] \/ (q = s /\ b[s] = Len(queue[s]) /\ c[s] = Len(queue[s]) + 1)
      BY <1>8, <2>1, GivenCut
    <3>. QED
      BY <3>2, <3>3, <3>4, <3>5, <3>6, <3>7
  <2>3. \A d \in Ring : Through(d, c)' => \A t \in Ring : Reach(t, c[t])' >= sync_seq[d][t]
    BY <2>2 DEF Knowing
  <2>4. Through(d0, c)' => \A t \in Ring : Reach(t, c[t])' >= sync_seq[s][t]
    BY <1>1, <2>2 DEF Knowing
  <2>5. ASSUME NEW d \in Ring, Through(d, c)', NEW t \in Ring
        PROVE  Reach(t, c[t])' >= sync_seq'[d][t]
    <3>1. CASE d # d0
      BY <1>3, <2>3, <2>5, <3>1
    <3>2. CASE d = d0
      <4>1. sync_seq'[d0][t] \in {sync_seq[d0][t], sync_seq[s][t]}
        BY <1>3 DEF Larger
      <4>. QED
        BY <2>3, <2>4, <2>5, <3>2, <4>1
    <3>. QED
      BY <3>1, <3>2
  <2>6. ASSUME NEW p \in Ring, NEW i \in 1 .. c[p], queue'[p][i].op = "run",
               NEW q \in Ring, NEW m \in 1 .. Len(queue'[q]), queue'[q][m].op = "run",
               queue'[q][m].job.n < queue'[p][i].job.n,
               Order!Conflict(queue'[p][i].job, queue'[q][m].job)
        PROVE  m <= c[q]
    <3>1. i \in 1 .. Len(queue'[p])
      BY <1>5, <1>8, <2>6 DEF Cut
    <3>2. i \in 1 .. Len(queue[p]) /\ queue'[p][i] = queue[p][i]
      BY <1>7, <2>6, <3>1
    <3>3. m \in 1 .. Len(queue[q]) /\ queue'[q][m] = queue[q][m]
      BY <1>7, <2>6
    <3>4. i \in 1 .. b[p]
      <4>1. CASE b[p] = c[p]
        BY <4>1
      <4>2. CASE p = s /\ b[s] = Len(queue[s])
        BY <3>2, <4>2
      <4>. QED
        BY <2>2, <4>1, <4>2
    <3>5. m <= b[q]
      <4>1. /\ queue[p][i].op = "run" /\ queue[q][m].op = "run"
            /\ queue[q][m].job.n < queue[p][i].job.n
            /\ Order!Conflict(queue[p][i].job, queue[q][m].job)
        BY <2>6, <3>2, <3>3
      <4>. QED
        BY <2>2, <3>3, <3>4, <4>1 DEF Ordered
    <3>. QED
      <4>1. b[q] <= c[q] /\ b[q] \in Nat /\ c[q] \in Nat /\ m \in Int
        BY <2>2, <3>3
      <4>. QED
        BY <3>5, <4>1
  <2>. QED
    BY <2>5, <2>6
<1>9. \A c : c \in Cut' => c \in [Ring -> Nat]
  BY DEF Cut
<1>10. Knowing'
  BY <1>8, <1>9 DEF Knowing
<1>11. Ordered'
  BY <1>8, <1>9 DEF Ordered
<1>12. ASSUME NEW t \in Ring, t < s + 1
       PROVE  t = d0 \/ job.sync_to[t] <= sync_seq'[d0][t] \/ done[t] >= job.sync_to[t]
  <2>1. job.next \in Int /\ t \in Int /\ s \in Int /\ job.sync_to[t] \in Nat
    BY <1>1, JobTypes, SyncAssumption DEF Ring
  <2>2. t # d0 => sync_seq'[d0][t] >= sync_seq[d0][t] /\ sync_seq'[d0][t] >= sync_seq[s][t]
                  /\ sync_seq'[d0][t] \in Nat
    BY <1>1, <1>3, <1>4 DEF Larger
  <2>3. CASE t < job.next
    <3>1. t = d0 \/ job.sync_to[t] <= sync_seq[d0][t] \/ done[t] >= job.sync_to[t]
      BY <1>2, <2>3 DEF Synced
    <3>2. sync_seq[d0][t] \in Nat
      BY <1>4
    <3>. QED
      BY <2>1, <2>2, <3>1, <3>2
  <2>4. CASE t = s
    <3>1. job.sync_to[s] <= sync_seq[s][s]
      BY <1>1 DEF Synced
    <3>. QED
      BY <1>1, <1>2, <1>4, <2>1, <2>2, <2>4, <3>1
  <2>5. CASE t \in job.next .. (s - 1)
    <3>1. t = d0 \/ ~(job.sync_to[t] > sync_seq[d0][t])
      BY <1>1, <1>2, <2>5 DEF NeedSync
    <3>. QED
      BY <1>4, <2>1, <2>2, <3>1
  <2>. QED
    BY <1>12, <2>1, <2>3, <2>4, <2>5
<1>13. Synced'
  <2>1. /\ \A t \in Ring : job.sync_to[t] <= sync_seq[t][t]
        /\ \A t \in Ring, o \in Bo :
             /\ job.use[o] # "none" => writers[o][t] <= job.sync_to[t]
             /\ job.use[o] = "write" => readers[o][t] <= job.sync_to[t]
    BY DEF Synced
  <2>2. \A t \in Ring : t < job.next' =>
          t = d0 \/ job.sync_to[t] <= sync_seq'[d0][t] \/ done[t] >= job.sync_to[t]
    BY <1>6, <1>12
  <2>. QED
    BY <1>1, <1>2, <1>3, <1>6, <2>1, <2>2 DEF Synced
<1>. QED
  BY <1>10, <1>11, <1>13

\* A cut as far as the queues went before.
Clipped(b, c) ==
  b = [q \in Ring |-> IF c[q] <= Len(queue[q]) THEN c[q] ELSE Len(queue[q])]

\* The cut before the job was emitted.
LEMMA EmittedCut ==
  ASSUME Typed, Typed', Busy, NEW failed, Emit(failed), NEW r, NEW old, NEW n, Sizes(r, old, n),
         NEW c \in [Ring -> Nat], c \in Cut', Possible(c)', NEW b \in [Ring -> Nat],
         Clipped(b, c)
  PROVE  /\ b \in Cut /\ Possible(b) /\ \A q \in Ring : b[q] <= c[q]
         /\ \A q \in Ring : q # r => b[q] = c[q]
         /\ \A q \in Ring : Reach(q, c[q])' >= Reach(q, b[q])
         /\ \A d \in Ring : Through(d, c)' => Through(d, b)
         /\ c[r] = old + n + 1 => Reach(r, c[r])' = Reach(r, old) + 1
<1>1. /\ r \in Ring /\ old \in Nat /\ n \in Nat
      /\ Len(queue'[r]) = old + n + 1
      /\ \A q \in Ring : \A i \in 1 .. Len(queue[q]) :
           i \in 1 .. Len(queue'[q]) /\ queue'[q][i] = queue[q][i]
  BY EmittedRuns
<1>16. ASSUME NEW q \in Ring, NEW i \in 1 .. Len(queue'[q])
       PROVE  \/ i \in 1 .. Len(queue[q])
              \/ q = r /\ i = old + n + 1
              \/ q = r /\ queue'[r][i].op = "wait"
  BY EmittedRuns
<1>2. /\ old = Len(queue[r]) /\ r = job.ring /\ n = Len(job.waits)
      /\ DOMAIN job.waits = 1 .. n
  BY JobTypes DEF Sizes
<1>3. /\ \A q \in Ring : q # r => queue'[q] = queue[q]
      /\ \A k \in 1 .. n : queue'[r][old + k] = job.waits[k]
      /\ queue'[r][old + n + 1] = Run(submitted, job.use)
  BY <1>2, Emitted
<1>4. value' = value /\ done' = done
  BY DEF Emit
<1>5. \A q \in Ring : c[q] <= Len(queue'[q]) /\ Len(queue[q]) \in Nat
  BY QueueTypes DEF Cut
<1>6. \A q \in Ring : b[q] = IF c[q] <= Len(queue[q]) THEN c[q] ELSE Len(queue[q])
  BY DEF Clipped
<1>7. \A q \in Ring : b[q] <= c[q] /\ b[q] <= Len(queue[q]) /\ (q # r => b[q] = c[q])
  BY <1>3, <1>5, <1>6
<1>8. b \in Cut
  BY <1>7 DEF Cut
<1>9. ASSUME NEW q \in Ring, NEW i \in 1 .. b[q]
      PROVE  i \in 1 .. c[q] /\ i \in 1 .. Len(queue[q]) /\ queue'[q][i] = queue[q][i]
  <2>1. i \in 1 .. c[q] /\ i \in 1 .. Len(queue[q])
    BY <1>5, <1>7
  <2>. QED
    BY <1>1, <2>1
<1>10. ASSUME NEW y \in Slot, Signalled(y, c)' PROVE Signalled(y, b)
  <2>1. CASE value'[y] > 0
    BY <1>4, <2>1 DEF Signalled
  <2>2. CASE \E q \in Ring : \E i \in 1 .. c[q] : queue'[q][i] = Signal(y)
    <3>1. PICK q \in Ring : \E i \in 1 .. c[q] : queue'[q][i] = Signal(y)
      BY <2>2
    <3>2. PICK i \in 1 .. c[q] : queue'[q][i] = Signal(y)
      BY <3>1
    <3>3. i \in 1 .. Len(queue'[q]) /\ queue'[q][i].op = "signal"
      <4>1. Len(queue'[q]) \in Nat
        BY QueueTypes, <1>1, <1>3
      <4>2. i \in 1 .. Len(queue'[q])
        BY <1>5, <4>1
      <4>. QED
        BY <3>2, <4>2, CommandKinds
    <3>4. Run(submitted, job.use).op = "run"
      BY CommandKinds
    <3>5. i \in 1 .. Len(queue[q])
      BY <1>16, <1>3, <3>3, <3>4
    <3>6. i \in 1 .. b[q]
      BY <1>5, <1>6, <3>2, <3>5
    <3>. QED
      BY <1>9, <3>2, <3>6 DEF Signalled
  <2>. QED
    BY <1>10, <2>1, <2>2 DEF Signalled
<1>11. Possible(b)
  <2>1. SUFFICES ASSUME NEW q \in Ring, NEW i \in 1 .. b[q], NEW y \in Slot, queue[q][i] = Wait(y)
                 PROVE  Signalled(y, b)
    BY DEF Possible
  <2>2. i \in 1 .. c[q] /\ queue'[q][i] = Wait(y)
    BY <1>9, <2>1
  <2>3. Signalled(y, c)'
    BY <2>2 DEF Possible
  <2>. QED
    BY <1>10, <2>3
<1>12. /\ \A q \in Ring : \A i \in 0 .. Len(queue[q]) : Reach(q, i)' = Reach(q, i)
       /\ \A k \in 0 .. n : Reach(r, old + k)' = Reach(r, old)
       /\ Reach(r, old + n + 1)' = Reach(r, old) + 1
  BY ReachEmitted
<1>13. ASSUME NEW q \in Ring PROVE Reach(q, c[q])' >= Reach(q, b[q])
  <2>1. b[q] \in 0 .. Len(queue[q])
    BY <1>5, <1>7
  <2>2. Reach(q, b[q])' = Reach(q, b[q]) /\ Reach(q, b[q]) \in Nat
    BY <1>12, <2>1, ReachType
  <2>3. CASE b[q] = c[q]
    BY <2>2, <2>3
  <2>4. CASE b[q] # c[q]
    <3>0. q = r
      BY <1>7, <2>4
    <3>1. b[r] = old /\ c[r] > old /\ c[r] <= old + n + 1
      <4>1. b[r] = (IF c[r] <= old THEN c[r] ELSE old) /\ b[r] # c[r] /\ c[r] \in Nat
        BY <1>1, <1>2, <1>6, <2>4, <3>0
      <4>2. c[r] <= old + n + 1
        BY <1>1, <1>5
      <4>. QED
        BY <1>1, <4>1, <4>2
    <3>2. Reach(r, c[r])' = Reach(r, old) \/ Reach(r, c[r])' = Reach(r, old) + 1
      <4>1. CASE c[r] = old + n + 1
        BY <1>12, <4>1
      <4>2. CASE c[r] # old + n + 1
        <5>1. PICK k : k = c[r] - old
          OBVIOUS
        <5>2. k \in 0 .. n /\ c[r] = old + k
          BY <1>1, <3>1, <4>2, <5>1
        <5>. QED
          BY <1>12, <5>2
      <4>. QED
        BY <4>1, <4>2
    <3>. QED
      BY <2>2, <3>0, <3>1, <3>2
  <2>. QED
    BY <2>3, <2>4
<1>14. ASSUME NEW d \in Ring, Through(d, c)' PROVE Through(d, b)
  <2>1. c[d] = Len(queue'[d])
    BY <1>14 DEF Through
  <2>2. b[d] = Len(queue[d])
    <3>1. CASE d = r
      <4>1. c[r] = old + n + 1 /\ b[r] = IF c[r] <= old THEN c[r] ELSE old
        BY <1>1, <1>2, <1>6, <2>1, <3>1
      <4>2. b[r] = old
        BY <1>1, <4>1
      <4>. QED
        BY <1>2, <3>1, <4>2
    <3>2. CASE d # r
      BY <1>3, <1>7, <2>1, <3>2
    <3>. QED
      BY <3>1, <3>2
  <2>3. ASSUME job.ring = d, NEW y \in Slot, Asks(job.waits, y) PROVE Signalled(y, b)
    <3>1. PICK k \in 1 .. n : job.waits[k] = Wait(y)
      BY <1>2, <2>3 DEF Asks
    <3>2. old + k \in 1 .. c[r]
      <4>1. c[r] = old + n + 1
        BY <1>1, <1>2, <2>1, <2>3
      <4>2. k \in Int /\ 1 <= k /\ k <= n
        BY <1>1
      <4>. QED
        BY <1>1, <4>1, <4>2
    <3>3. queue'[r][old + k] = Wait(y)
      BY <1>3, <3>1
    <3>4. Signalled(y, c)'
      BY <1>1, <3>2, <3>3 DEF Possible
    <3>. QED
      BY <1>10, <3>4
  <2>. QED
    BY <2>2, <2>3 DEF Through
<1>15. c[r] = old + n + 1 => Reach(r, c[r])' = Reach(r, old) + 1
  BY <1>12
<1>. QED
  BY <1>7, <1>8, <1>11, <1>13, <1>14, <1>15

\* What a job that is due nowhere may rely on of every other ring.
LEMMA DueNowhere ==
  ASSUME Typed, Busy, Synced, Due = {}, NEW q \in Ring, q # job.ring
  PROVE  job.sync_to[q] <= sync_seq[job.ring][q] \/ done[q] >= job.sync_to[q]
<1>1. job.ring \in Ring /\ job.next \in 1 .. R + 1 /\ job.sync_to[q] \in Nat
  BY JobTypes
<1>2. sync_seq[job.ring][q] \in Nat
  BY <1>1 DEF Typed
<1>3. CASE q < job.next
  BY <1>3 DEF Synced
<1>4. CASE ~(q < job.next)
  <2>1. q \in job.next .. R
    BY <1>1, <1>4, SyncAssumption DEF Ring
  <2>2. ~NeedSync(q)
    BY <2>1 DEF Due
  <2>. QED
    BY <1>1, <1>2, <2>2 DEF NeedSync
<1>. QED
  BY <1>3, <1>4

\* The heart of it: an earlier job on another ring that the new one conflicts with is
\* behind a fence that the reservations name, so the new one's ring knows it.
LEMMA ConflictIsKnown ==
  ASSUME Typed, Busy, Reserved, Knowing, Synced, Due = {}, NEW b \in Cut, Possible(b),
         Through(job.ring, b), NEW q \in Ring, q # job.ring, NEW m \in 1 .. Len(queue[q]),
         queue[q][m].op = "run",
         Order!Conflict([n |-> submitted, use |-> job.use], queue[q][m].job)
  PROVE  m <= b[q]
<1>1. PICK k \in Command : k = queue[q][m]
  BY QueueTypes
<1>2. k.job.use \in Use /\ job.use \in Use /\ job.sync_to[q] \in Nat
  BY <1>1, CommandKinds, JobTypes
<1>3. PICK o \in Bo : /\ job.use[o] # "none" /\ k.job.use[o] # "none"
                      /\ "write" \in {job.use[o], k.job.use[o]}
  BY <1>1 DEF Order!Conflict
<1>4. k.job.use[o] = "write" \/ (k.job.use[o] = "read" /\ job.use[o] = "write")
  BY <1>2, <1>3 DEF Use
<1>5. m \in Nat /\ Reach(q, m) \in Nat
  <2>1. m \in Nat
    BY QueueTypes
  <2>. QED
    BY <2>1, ReachType
<1>6. /\ k.job.use[o] = "write" => writers[o][q] >= Reach(q, m)
      /\ k.job.use[o] = "read" => readers[o][q] >= Reach(q, m)
  BY <1>1 DEF Reserved
<1>7. /\ job.use[o] # "none" => writers[o][q] <= job.sync_to[q]
      /\ job.use[o] = "write" => readers[o][q] <= job.sync_to[q]
  BY DEF Synced
<1>8. writers[o][q] \in Nat /\ readers[o][q] \in Nat
  BY DEF Typed
<1>9. job.sync_to[q] >= Reach(q, m)
  BY <1>2, <1>3, <1>4, <1>5, <1>6, <1>7, <1>8
<1>10. b[q] \in Nat /\ job.ring \in Ring
  BY JobTypes DEF Cut
<1>11. Reach(q, b[q]) \in Nat /\ done[q] <= Reach(q, b[q]) /\ done[q] \in Nat
  BY <1>10, ReachType, QueueTypes
<1>12. Reach(q, b[q]) >= sync_seq[job.ring][q] /\ sync_seq[job.ring][q] \in Nat
  BY <1>10 DEF Knowing, Typed
<1>13. job.sync_to[q] <= sync_seq[job.ring][q] \/ done[q] >= job.sync_to[q]
  BY DueNowhere
<1>14. Reach(q, b[q]) >= Reach(q, m)
  BY <1>2, <1>5, <1>9, <1>11, <1>12, <1>13
<1>15. ASSUME b[q] < m PROVE FALSE
  <2>1. Reach(q, b[q]) < Reach(q, m)
    BY <1>5, <1>10, <1>15, ReachMonotone
  <2>. QED
    BY <1>5, <1>11, <1>14, <2>1
<1>. QED
  BY <1>5, <1>10, <1>15

\* Emitting a job that is due nowhere keeps what is known and what is ordered.
LEMMA EmitKnows ==
  ASSUME Typed, Typed', Counted, Busy, Reserved, Knowing, Synced, Ordered, Due = {}, NEW failed,
    Emit(failed)
  PROVE  Knowing' /\ Synced' /\ Ordered'
<1>1. PICK r \in Ring : r = job.ring
  BY JobTypes
<1>2. PICK old \in Nat : old = Len(queue[r])
  BY QueueTypes
<1>3. PICK n \in Nat : n = Len(job.waits)
  BY JobTypes
<1>4. Sizes(r, old, n)
  BY <1>1, <1>2, <1>3 DEF Sizes
<1>5. /\ queue'[r][old + n + 1] = Run(submitted, job.use) /\ Len(queue'[r]) = old + n + 1
      /\ \A q \in Ring : \A i \in 1 .. Len(queue[q]) :
           i \in 1 .. Len(queue'[q]) /\ queue'[q][i] = queue[q][i]
  BY <1>4, EmittedRuns
<1>6. ASSUME NEW q \in Ring, NEW i \in 1 .. Len(queue'[q]), queue'[q][i].op = "run"
      PROVE  i \in 1 .. Len(queue[q]) \/ (q = r /\ i = old + n + 1)
  BY <1>4, <1>6, EmittedRun
<1>7. /\ Run(submitted, job.use).op = "run" /\ Run(submitted, job.use).job.n = submitted
      /\ Run(submitted, job.use).job = [n |-> submitted, use |-> job.use]
  BY DEF Run
<1>8. ASSUME NEW q \in Ring, NEW i \in 1 .. Len(queue[q]), queue[q][i].op = "run"
      PROVE  queue[q][i].job.n \in Nat /\ queue[q][i].job.n < submitted
  <2>1. queue[q][i] \in Command
    BY QueueTypes
  <2>. QED
    BY <1>8, <2>1, CommandKinds DEF Reserved
<1>9. submitted \in Nat
  BY SyncAssumption DEF Typed
<1>10. /\ job' = NoJob
       /\ sync_seq' = [sync_seq EXCEPT ![r][r] = sync_seq[r][r] + 1]
  BY <1>1 DEF Emit
<1>11. Reach(r, old) = sync_seq[r][r]
  BY <1>2 DEF Counted
<1>12. \A i, j \in Ring :
         /\ sync_seq[i][j] \in Nat
         /\ sync_seq'[i][j] = IF i = r /\ j = r THEN sync_seq[r][r] + 1 ELSE sync_seq[i][j]
  <2>1. sync_seq \in [Ring -> [Ring -> Nat]]
    BY DEF Typed
  <2>2. sync_seq' = [sync_seq EXCEPT ![r] = [sync_seq[r] EXCEPT ![r] = sync_seq[r][r] + 1]]
    BY <1>10
  <2>3. \A j \in Ring : sync_seq'[r][j] = IF j = r THEN sync_seq[r][r] + 1 ELSE sync_seq[r][j]
    BY <2>1, <2>2
  <2>4. \A i \in Ring : i # r => sync_seq'[i] = sync_seq[i]
    BY <2>1, <2>2
  <2>. QED
    BY <2>1, <2>3, <2>4
<1>13. \A q \in Ring : Len(queue[q]) \in Nat /\ Len(queue'[q]) \in Nat
  <2>1. \A q \in Ring : queue[q] \in Seq(Command) /\ queue'[q] \in Seq(Command)
    BY DEF Typed
  <2>. QED
    BY <2>1
<1>14. ASSUME NEW c \in [Ring -> Nat], c \in Cut', Possible(c)'
       PROVE  /\ \A d \in Ring : Through(d, c)' =>
                    \A t \in Ring : Reach(t, c[t])' >= sync_seq'[d][t]
              /\ \A p \in Ring : \A i \in 1 .. c[p] : queue'[p][i].op = "run" =>
                   \A q \in Ring : \A m \in 1 .. Len(queue'[q]) :
                     /\ queue'[q][m].op = "run" /\ queue'[q][m].job.n < queue'[p][i].job.n
                     /\ Order!Conflict(queue'[p][i].job, queue'[q][m].job)
                     => m <= c[q]
  <2>1. PICK b \in [Ring -> Nat] : Clipped(b, c)
    <3>1. [q \in Ring |-> IF c[q] <= Len(queue[q]) THEN c[q] ELSE Len(queue[q])] \in [Ring -> Nat]
      BY <1>13
    <3>. QED
      BY <3>1 DEF Clipped
  <2>2. \A q \in Ring : c[q] <= Len(queue'[q])
    BY <1>14 DEF Cut
  <2>3. b \in Cut /\ Possible(b) /\ \A q \in Ring : b[q] <= c[q]
    BY <1>4, <1>14, <2>1, EmittedCut
  <2>4. \A q \in Ring : q # r => b[q] = c[q]
    BY <1>4, <1>14, <2>1, EmittedCut
  <2>5. \A q \in Ring : Reach(q, c[q])' >= Reach(q, b[q])
    BY <1>4, <1>14, <2>1, EmittedCut
  <2>6. \A d \in Ring : Through(d, c)' => Through(d, b)
    BY <1>4, <1>14, <2>1, EmittedCut
  <2>7. c[r] = old + n + 1 => Reach(r, c[r])' = Reach(r, old) + 1
    BY <1>4, <1>14, <2>1, EmittedCut
  <2>8. ASSUME NEW t \in Ring PROVE Reach(t, b[t]) \in Nat /\ Reach(t, c[t])' \in Nat
    <3>1. Reach(t, b[t]) \in Nat
      BY ReachType
    <3>2. RunsIn(queue'[t], c[t]) \in Nat /\ done'[t] \in Nat
      BY RunsInType DEF Typed
    <3>3. Reach(t, c[t])' = done'[t] + RunsIn(queue'[t], c[t])
      BY DEF Reach
    <3>. QED
      BY <3>1, <3>2, <3>3
  <2>9. ASSUME NEW d \in Ring, Through(d, c)', NEW t \in Ring
        PROVE  Reach(t, c[t])' >= sync_seq'[d][t]
    <3>1. Reach(t, b[t]) >= sync_seq[d][t]
      BY <2>3, <2>6, <2>9 DEF Knowing
    <3>2. CASE d = r /\ t = r
      <4>1. c[r] = old + n + 1
        BY <1>5, <2>9, <3>2 DEF Through
      <4>. QED
        BY <1>11, <1>12, <2>7, <3>2, <4>1
    <3>3. CASE ~(d = r /\ t = r)
      <4>1. sync_seq'[d][t] = sync_seq[d][t] /\ sync_seq[d][t] \in Nat
        BY <1>12, <3>3
      <4>2. Reach(t, c[t])' >= Reach(t, b[t])
        BY <2>5
      <4>. QED
        BY <2>8, <3>1, <4>1, <4>2
    <3>. QED
      BY <3>2, <3>3
  <2>10. ASSUME NEW p \in Ring, NEW i \in 1 .. c[p], queue'[p][i].op = "run",
                NEW q \in Ring, NEW m \in 1 .. Len(queue'[q]), queue'[q][m].op = "run",
                queue'[q][m].job.n < queue'[p][i].job.n,
                Order!Conflict(queue'[p][i].job, queue'[q][m].job)
         PROVE  m <= c[q]
    <3>1. i \in 1 .. Len(queue'[p]) /\ i \in Nat /\ i <= c[p]
      <4>1. c[p] \in Nat /\ Len(queue'[p]) \in Nat /\ c[p] <= Len(queue'[p])
        BY <1>13, <2>2
      <4>. QED
        BY <4>1
    <3>2. m \in 1 .. Len(queue[q])
      <4>1. SUFFICES ASSUME q = r, m = old + n + 1 PROVE FALSE
        BY <1>6, <2>10
      <4>2. queue'[q][m].job.n = submitted
        BY <1>5, <1>7, <4>1
      <4>3. CASE i \in 1 .. Len(queue[p])
        <5>1. queue'[p][i] = queue[p][i]
          BY <1>5, <4>3
        <5>2. queue'[p][i].job.n \in Nat /\ queue'[p][i].job.n < submitted
          BY <1>8, <2>10, <4>3, <5>1
        <5>. QED
          BY <1>9, <2>10, <4>2, <5>2
      <4>4. CASE p = r /\ i = old + n + 1
        BY <1>5, <1>7, <1>9, <2>10, <4>2, <4>4
      <4>. QED
        BY <1>6, <2>10, <3>1, <4>3, <4>4
    <3>3. queue'[q][m] = queue[q][m] /\ m \in Nat
      BY <1>5, <1>13, <3>2
    <3>4. m <= b[q] => m <= c[q]
      <4>1. b[q] \in Nat /\ c[q] \in Nat /\ b[q] <= c[q]
        BY <2>3
      <4>. QED
        BY <3>3, <4>1
    <3>5. CASE i \in 1 .. Len(queue[p])
      <4>1. queue'[p][i] = queue[p][i]
        BY <1>5, <3>5
      <4>2. i \in 1 .. b[p]
        <5>1. b[p] = IF c[p] <= Len(queue[p]) THEN c[p] ELSE Len(queue[p])
          BY <2>1 DEF Clipped
        <5>. QED
          BY <3>1, <3>5, <5>1
      <4>3. /\ queue[p][i].op = "run" /\ queue[q][m].op = "run"
            /\ queue[q][m].job.n < queue[p][i].job.n
            /\ Order!Conflict(queue[p][i].job, queue[q][m].job)
        BY <2>10, <3>3, <4>1
      <4>4. m <= b[q]
        BY <2>3, <3>2, <4>2, <4>3 DEF Ordered
      <4>. QED
        BY <3>4, <4>4
    <3>6. CASE p = r /\ i = old + n + 1
      <4>1. c[r] = old + n + 1
        BY <1>5, <2>2, <3>1, <3>6
      <4>2. CASE q = r
        <5>1. m <= old
          BY <1>2, <3>2, <4>2
        <5>. QED
          BY <3>3, <4>1, <4>2, <5>1
      <4>3. CASE q # r
        <5>1. Through(r, b)
          <6>1. Through(r, c)'
            BY <1>5, <1>10, <4>1 DEF Through, Busy
          <6>. QED
            BY <2>6, <6>1
        <5>2. Order!Conflict([n |-> submitted, use |-> job.use], queue[q][m].job)
          BY <1>5, <1>7, <2>10, <3>3, <3>6
        <5>3. queue[q][m].op = "run"
          BY <2>10, <3>3
        <5>4. m <= b[q]
          BY <1>1, <2>3, <3>2, <4>3, <5>1, <5>2, <5>3, ConflictIsKnown
        <5>. QED
          BY <3>4, <5>4
      <4>. QED
        BY <4>2, <4>3
    <3>. QED
      BY <1>6, <2>10, <3>1, <3>5, <3>6
  <2>. QED
    BY <2>9, <2>10
<1>15. \A c : c \in Cut' => c \in [Ring -> Nat]
  BY DEF Cut
<1>16. Knowing'
  BY <1>14, <1>15 DEF Knowing
<1>17. Ordered'
  BY <1>14, <1>15 DEF Ordered
<1>18. Synced'
  BY <1>10 DEF Synced, Busy
<1>. QED
  BY <1>16, <1>17, <1>18

-----------------------------------------------------------------------------
(* The invariant *)

\* Undoing a submission keeps the types, the counts and the reservations.
LEMMA UndoTyped ==
  ASSUME Typed, Counted, Reserved, Undo
  PROVE  Typed' /\ Counted' /\ Reserved'
<1>1. /\ Busy /\ fails < MaxFail /\ job' = NoJob /\ fails' = fails + 1
      /\ claim' = [x \in Slot |-> IF x \in job.slots THEN Free ELSE claim[x]]
      /\ UNCHANGED <<mute, queue, done, sync_seq, readers, writers, value, submitted>>
  BY DEF Undo, resv
<1>2. claim' \in [Slot -> [ring : 0 .. R, seq : 0 .. MaxJobs]]
  <2>1. Free \in [ring : 0 .. R, seq : 0 .. MaxJobs]
    BY SyncAssumption DEF Free
  <2>2. claim \in [Slot -> [ring : 0 .. R, seq : 0 .. MaxJobs]]
    BY DEF Typed
  <2>. QED
    BY <1>1, <2>1, <2>2
<1>3. fails' \in 0 .. MaxFail
  BY <1>1, SyncAssumption DEF Typed
<1>4. Typed'
  BY <1>1, <1>2, <1>3 DEF Typed, Busy
<1>5. Counted'
  BY <1>1 DEF Counted, Reach
<1>6. Reserved'
  BY <1>1 DEF Reserved, Reach
<1>. QED
  BY <1>4, <1>5, <1>6

\* Waiting for a fence keeps everything that does not depend on failures.
LEMMA ManualTyped ==
  ASSUME Typed, Counted, WaitsHold, JobHolds, Balanced, Reserved, WaitManually
  PROVE  Typed' /\ Counted' /\ WaitsHold' /\ JobHolds' /\ Balanced' /\ Reserved'
<1>1. /\ job' \in Job /\ Busy /\ Busy' /\ job.waits' = job.waits /\ job.slots' = job.slots
      /\ UNCHANGED <<mute, queue, done, sync_seq, readers, writers, claim, value, submitted,
           fails>>
  BY ManualKeeps
<1>2. Typed'
  BY <1>1 DEF Typed
<1>3. Counted' /\ Reserved' /\ WaitsHold'
  BY <1>1 DEF Counted, Reserved, WaitsHold, Reach
<1>4. JobHolds'
  BY <1>1 DEF JobHolds
<1>5. \A x : Busy /\ Asks(job.waits, x) => Busy' /\ Asks(job.waits, x)'
  BY <1>1 DEF Asks
<1>6. Balanced'
  BY <1>1, <1>5, WaitingBalanced
<1>. QED
  BY <1>2, <1>3, <1>4, <1>6

\* So does the beginning of a submission.
LEMMA BeginRest ==
  ASSUME Typed, Counted, WaitsHold, JobHolds, Balanced, Reserved,
         NEW r \in Ring, NEW use \in Use, Begin(r, use)
  PROVE  Counted' /\ WaitsHold' /\ JobHolds' /\ Balanced' /\ Reserved'
<1>1. /\ ~Busy
      /\ UNCHANGED <<mute, queue, done, sync_seq, readers, writers, claim, value, submitted,
           fails>>
  BY DEF Begin, resv
<1>2. job.waits' = <<>> /\ job.slots' = {}
  BY BeginTyped
<1>3. Counted' /\ Reserved' /\ WaitsHold'
  BY <1>1 DEF Counted, Reserved, WaitsHold, Reach
<1>4. JobHolds'
  BY <1>2 DEF JobHolds
<1>5. Balanced'
  BY <1>1, WaitingBalanced
<1>. QED
  BY <1>3, <1>4, <1>5

\* The invariant holds at first.
LEMMA Initially == Init => SyncInv
<1>1. SUFFICES ASSUME Init PROVE SyncInv
  OBVIOUS
<1>2. /\ mute \in Mutes /\ queue = [r \in Ring |-> <<>>] /\ done = [r \in Ring |-> 0]
      /\ sync_seq = [d \in Ring |-> [s \in Ring |-> 0]]
      /\ readers = [o \in Bo |-> [r \in Ring |-> 0]] /\ writers = readers
      /\ claim = [x \in Slot |-> Free] /\ value = [x \in Slot |-> 0]
      /\ submitted = 0 /\ fails = 0 /\ ~Busy
  BY <1>1 DEF Init, Busy
<1>3. Typed
  <2>1. mute \subseteq Ring
    BY <1>2, SyncAssumption
  <2>2. queue \in [Ring -> Seq(Command)]
    BY <1>2
  <2>3. claim \in [Slot -> [ring : 0 .. R, seq : 0 .. MaxJobs]]
    BY <1>2, SyncAssumption DEF Free
  <2>4. submitted \in 0 .. MaxJobs /\ fails \in 0 .. MaxFail
    BY <1>2, SyncAssumption
  <2>. QED
    BY <1>2, <2>1, <2>2, <2>3, <2>4 DEF Typed
<1>4. \A r \in Ring : queue[r] = <<>> /\ Len(queue[r]) = 0
  BY <1>2
<1>5. ASSUME NEW r \in Ring PROVE Reach(r, 0) = 0
  BY <1>2, <1>3, ReachType
<1>6. Counted
  BY <1>2, <1>4, <1>5 DEF Counted
<1>7. WaitsHold /\ JobHolds /\ Reserved
  BY <1>2, <1>4 DEF WaitsHold, JobHolds, Reserved
<1>8. Balanced
  <2>1. ASSUME NEW x \in Slot PROVE Signals(x) = {}
    BY <1>4 DEF Signals
  <2>2. IsFiniteSet({}) /\ Cardinality({}) = 0
    BY FS_EmptySet
  <2>3. ASSUME NEW x \in Slot
        PROVE  /\ IsFiniteSet(Signals(x))
               /\ Cardinality(Signals(x)) + value[x] <= (IF Awaited(x) THEN 1 ELSE 0) + fails
    <3>1. IsFiniteSet(Signals(x)) /\ Cardinality(Signals(x)) = 0
      BY <2>1, <2>2
    <3>2. value[x] = 0 /\ fails = 0
      BY <1>2
    <3>. QED
      BY <3>1, <3>2
  <2>. QED
    BY <2>3 DEF Balanced
<1>9. ASSUME NEW c \in Cut PROVE \A r \in Ring : c[r] = 0
  BY <1>4 DEF Cut
<1>10. Knowing
  BY <1>2, <1>5, <1>9 DEF Knowing
<1>11. Synced
  BY <1>2 DEF Synced
<1>12. Ordered
  BY <1>9 DEF Ordered
<1>. QED
  BY <1>3, <1>6, <1>7, <1>8, <1>10, <1>11, <1>12 DEF SyncInv

\* Every step keeps the invariant.
LEMMA Stepwise == SyncInv /\ [Next]_vars => SyncInv'
<1>1. SUFFICES ASSUME SyncInv, [Next]_vars PROVE SyncInv'
  OBVIOUS
<1>2. /\ Typed /\ Counted /\ WaitsHold /\ JobHolds /\ Balanced /\ Reserved
      /\ fails = 0 => Knowing /\ Synced /\ Ordered
  BY <1>1 DEF SyncInv
<1>3. fails \in Nat /\ MaxFail \in Nat /\ fails <= MaxFail
  BY <1>2, SyncAssumption DEF Typed
<1>4. ASSUME NEW r \in Ring, Execute(r) PROVE SyncInv'
  <2>1. Typed'
    BY <1>2, <1>4, ExecuteTyped
  <2>2. Counted'
    BY <1>2, <1>4, ExecuteCounted
  <2>3. WaitsHold' /\ JobHolds'
    BY <1>2, <1>4, ExecuteHolds
  <2>4. Balanced'
    BY <1>2, <1>4, <2>1, ExecuteBalanced
  <2>5. Reserved'
    BY <1>2, <1>4, ExecuteReserved
  <2>6. fails' = fails
    BY <1>4 DEF Execute
  <2>7. fails' = 0 => Knowing' /\ Synced' /\ Ordered'
    BY <1>2, <1>4, <2>6, ExecuteKnows
  <2>. QED
    BY <2>1, <2>2, <2>3, <2>4, <2>5, <2>7 DEF SyncInv
<1>5. ASSUME NEW r \in Ring, NEW use \in Use, Begin(r, use) PROVE SyncInv'
  <2>1. Typed' /\ Synced'
    BY <1>2, <1>5, BeginTyped
  <2>2. Counted' /\ WaitsHold' /\ JobHolds' /\ Balanced' /\ Reserved'
    BY <1>2, <1>5, BeginRest
  <2>3. fails' = fails
    BY <1>5 DEF Begin
  <2>4. fails' = 0 => Knowing' /\ Ordered'
    BY <1>2, <1>5, <2>3, BeginKnows
  <2>. QED
    BY <2>1, <2>2, <2>4 DEF SyncInv
<1>6. ASSUME Synchronize PROVE SyncInv'
  <2>1. Busy
    BY <1>6 DEF Synchronize
  <2>2. PICK s, x : SyncedWith(s, x)
    BY <1>2, <1>6, SynchronizeSteps
  <2>3. Typed' /\ Counted'
    BY <1>2, <2>1, <2>2, SynchronizeTyped
  <2>4. WaitsHold' /\ JobHolds'
    BY <1>2, <2>1, <2>2, SynchronizeHolds
  <2>5. Balanced'
    BY <1>2, <2>1, <2>2, <2>3, SynchronizeBalanced
  <2>6. Reserved'
    BY <1>2, <2>1, <2>2, SynchronizeReserved
  <2>7. fails' = fails /\ (Refused(x) \/ Given(s, x))
    BY <2>2 DEF SyncedWith
  <2>8. ASSUME fails' = 0 PROVE Knowing' /\ Synced' /\ Ordered'
    <3>1. fails = 0 /\ Knowing /\ Synced /\ Ordered
      BY <1>2, <2>7, <2>8
    <3>2. CASE Refused(x)
      BY <1>2, <2>1, <2>2, <3>1, <3>2, RefusedKnows
    <3>3. CASE Given(s, x)
      BY <1>2, <2>1, <2>2, <3>1, <3>3, GivenKnows
    <3>. QED
      BY <2>7, <3>2, <3>3
  <2>. QED
    BY <2>3, <2>4, <2>5, <2>6, <2>8 DEF SyncInv
<1>7. ASSUME WaitManually PROVE SyncInv'
  <2>1. Typed' /\ Counted' /\ WaitsHold' /\ JobHolds' /\ Balanced' /\ Reserved'
    BY <1>2, <1>7, ManualTyped
  <2>2. fails' = fails
    BY <1>7 DEF WaitManually
  <2>3. fails' = 0 => Knowing' /\ Synced' /\ Ordered'
    BY <1>2, <1>7, <2>2, ManualKnows
  <2>. QED
    BY <2>1, <2>3 DEF SyncInv
<1>8. ASSUME NEW failed \in Nat, Busy, fails + failed <= MaxFail, Emit(failed),
             failed = 0 => Due = {}
      PROVE  SyncInv'
  <2>1. Typed' /\ Counted'
    BY <1>2, <1>8, EmitTyped
  <2>2. WaitsHold' /\ JobHolds'
    BY <1>2, <1>8, EmitHolds
  <2>3. Balanced'
    BY <1>2, <1>8, <2>1, EmitBalanced
  <2>4. Reserved'
    BY <1>2, <1>8, EmitReserved
  <2>5. fails' = fails + failed
    BY <1>8 DEF Emit
  <2>6. fails' = 0 => fails = 0 /\ failed = 0
    BY <1>3, <1>8, <2>5
  <2>7. fails' = 0 => Knowing' /\ Synced' /\ Ordered'
    BY <1>2, <1>8, <2>1, <2>6, EmitKnows
  <2>. QED
    BY <2>1, <2>2, <2>3, <2>4, <2>7 DEF SyncInv
<1>9. ASSUME Schedule PROVE SyncInv'
  <2>1. Busy /\ Due = {} /\ Emit(0) /\ fails + 0 <= MaxFail
    BY <1>3, <1>9 DEF Schedule
  <2>. QED
    BY <1>8, <2>1
<1>10. ASSUME CopyUnsynchronized PROVE SyncInv'
  <2>1. Busy /\ Emit(1) /\ fails + 1 <= MaxFail
    BY <1>3, <1>10 DEF CopyUnsynchronized
  <2>. QED
    BY <1>8, <2>1
<1>11. ASSUME Undo PROVE SyncInv'
  <2>1. Typed' /\ Counted' /\ Reserved'
    BY <1>2, <1>11, UndoTyped
  <2>2. WaitsHold' /\ JobHolds'
    BY <1>2, <1>11, UndoHolds
  <2>3. Balanced'
    BY <1>2, <1>11, UndoBalanced
  <2>4. fails' = fails + 1
    BY <1>11 DEF Undo
  <2>5. fails' # 0
    BY <1>3, <2>4
  <2>. QED
    BY <2>1, <2>2, <2>3, <2>5 DEF SyncInv
<1>12. ASSUME UNCHANGED vars PROVE SyncInv'
  <2>1. /\ UNCHANGED <<mute, queue, done, sync_seq, readers, writers, claim, value, job>>
        /\ UNCHANGED <<submitted, fails>>
    BY <1>12 DEF vars, resv
  <2>2. Typed' /\ Counted' /\ WaitsHold' /\ JobHolds' /\ Reserved'
    BY <1>2, <2>1 DEF Typed, Counted, WaitsHold, JobHolds, Reserved, Busy, Reach
  <2>3. Balanced'
    BY <1>2, <2>1, WaitingBalanced DEF Busy, Asks
  <2>4. Cut' = Cut /\ \A c : (Possible(c)' <=> Possible(c))
    BY <2>1 DEF Cut, Possible, Signalled
  <2>5. Knowing => Knowing'
    BY <2>1, <2>4 DEF Knowing, Through, Signalled, Reach, Busy, Asks
  <2>6. Ordered => Ordered'
    BY <2>1, <2>4 DEF Ordered
  <2>7. Synced => Synced'
    BY <2>1 DEF Synced, Busy
  <2>. QED
    BY <1>2, <2>1, <2>2, <2>3, <2>5, <2>6, <2>7 DEF SyncInv
<1>. QED
  BY <1>1, <1>4, <1>5, <1>6, <1>7, <1>9, <1>10, <1>11, <1>12 DEF Next, Submit

-----------------------------------------------------------------------------
(* The theorems *)

\* The invariant holds always. For any rings, buffers, slots, numbers of submissions and
\* of failures, and whichever rings refuse semaphores.
THEOREM SyncInvariance == Spec => []SyncInv
<1>1. Init => SyncInv
  BY Initially
<1>2. SyncInv /\ [Next]_vars => SyncInv'
  BY Stepwise
<1>. QED
  BY <1>1, <1>2, PTL DEF Spec

\* What a ring is noted to have waited for (radeon_fence_note_sync) is true once it has
\* executed its commands, as long as no submission has failed.
THEOREM KnowledgeHolds == Spec => []KnowledgeIsTrue
<1>1. SyncInv => KnowledgeIsTrue
  <2>1. SUFFICES ASSUME SyncInv, fails = 0, NEW d \in Ring, NEW s \in Ring,
                        queue[d] = <<>>, Busy => job.ring # d
                 PROVE  done[s] >= sync_seq[d][s]
    BY DEF KnowledgeIsTrue, Known
  <2>2. Typed /\ Knowing
    BY <2>1 DEF SyncInv
  <2>3. PICK c \in [Ring -> Nat] : c = [q \in Ring |-> 0]
    OBVIOUS
  <2>4. c \in Cut
    BY <2>2, <2>3, QueueTypes DEF Cut
  <2>5. Possible(c)
    BY <2>3 DEF Possible
  <2>6. Through(d, c)
    BY <2>1, <2>3 DEF Through
  <2>7. Reach(s, c[s]) >= sync_seq[d][s]
    BY <2>2, <2>4, <2>5, <2>6 DEF Knowing
  <2>8. Reach(s, 0) = done[s] /\ c[s] = 0
    BY <2>2, <2>3, ReachType
  <2>. QED
    BY <2>7, <2>8
<1>. QED
  BY <1>1, SyncInvariance, PTL

\* The memory of a semaphore (radeon_semaphore_free, ring_tmp_bo) is not given out again
\* while a command names it, as long as no submission has failed; and the types hold
\* always.
THEOREM SlotsHold == Spec => []SlotsAreKept
<1>1. SyncInv => TypeOK
  <2>1. SUFFICES ASSUME SyncInv PROVE TypeOK
    OBVIOUS
  <2>2. /\ Typed /\ Counted /\ Balanced /\ Reserved
    BY <2>1 DEF SyncInv
  <2>3. ASSUME NEW r \in Ring, NEW i \in 1 .. Len(queue[r])
        PROVE  LET c == queue[r][i] IN
               \/ c.op = "run" /\ c.job.n \in 0 .. submitted - 1 /\ c.job.use \in Use
               \/ c.op \in {"signal", "wait"} /\ c.slot \in Slot
    <3>1. queue[r][i] \in Command /\ submitted \in Nat
      BY <2>2, QueueTypes, SyncAssumption DEF Typed
    <3>2. CASE queue[r][i].op = "run"
      <4>1. queue[r][i].job.n \in Nat /\ queue[r][i].job.use \in Use
        BY <3>1, <3>2, CommandKinds
      <4>2. queue[r][i].job.n < submitted
        BY <2>2, <3>2 DEF Reserved
      <4>. QED
        BY <3>1, <3>2, <4>1, <4>2
    <3>3. CASE queue[r][i].op # "run"
      BY <3>1, <3>3, CommandKinds
    <3>. QED
      BY <3>2, <3>3
  <2>4. \A d, s \in Ring : sync_seq[d][s] \in Nat
    BY <2>2 DEF Typed
  <2>5. \A d, s \in Ring : sync_seq[d][s] \in 0 .. sync_seq[s][s]
    BY <2>2, <2>4 DEF Counted
  <2>6. ASSUME NEW r \in Ring PROVE done[r] \in 0 .. sync_seq[r][r]
    <3>1. /\ Len(queue[r]) \in Nat /\ done[r] \in Nat
          /\ Reach(r, Len(queue[r])) = sync_seq[r][r]
      BY <2>2, QueueTypes DEF Counted
    <3>2. done[r] <= Reach(r, Len(queue[r]))
      BY <2>2, <3>1, ReachType
    <3>. QED
      BY <2>4, <3>1, <3>2
  <2>7. ASSUME NEW o \in Bo, NEW r \in Ring
        PROVE  {readers[o][r], writers[o][r]} \subseteq 0 .. sync_seq[r][r]
    BY <2>2, <2>4 DEF Typed, Counted
  <2>8. value \in [Slot -> 0 .. 1 + fails]
    <3>1. fails \in Nat /\ value \in [Slot -> Nat]
      BY <2>2, SyncAssumption DEF Typed
    <3>2. ASSUME NEW x \in Slot PROVE value[x] <= 1 + fails
      <4>1. /\ IsFiniteSet(Signals(x))
            /\ Cardinality(Signals(x)) + value[x] <= (IF Awaited(x) THEN 1 ELSE 0) + fails
        BY <2>2 DEF Balanced
      <4>2. Cardinality(Signals(x)) \in Nat
        BY <4>1, FS_CardinalityType
      <4>. QED
        BY <3>1, <4>1, <4>2
    <3>3. \A x \in Slot : value[x] \in 0 .. 1 + fails
      BY <3>1, <3>2
    <3>. QED
      BY <3>1, <3>3
  <2>. QED
    BY <2>2, <2>3, <2>5, <2>6, <2>7, <2>8 DEF TypeOK, Typed
<1>2. SyncInv => SlotsAreKept
  <2>1. SUFFICES ASSUME SyncInv, fails = 0, NEW r \in Ring, NEW i \in 1 .. Len(queue[r]),
                        queue[r][i].op # "run"
                 PROVE  ~Available(queue[r][i].slot)
    BY <1>1 DEF SlotsAreKept
  <2>2. Typed /\ WaitsHold /\ JobHolds /\ Balanced
    BY <2>1 DEF SyncInv
  <2>3. PICK x \in Slot : x = queue[r][i].slot
        /\ (queue[r][i] = Signal(x) \/ queue[r][i] = Wait(x))
    BY <2>1, <2>2, QueueTypes, CommandKinds
  <2>. QED
    BY <2>1, <2>2, <2>3, FreshSlot
<1>. QED
  BY <1>2, SyncInvariance, PTL

-----------------------------------------------------------------------------
(* The order of the jobs *)

\* The jobs that have not run.
LEMMA PendingIs ==
  \A j : j \in Pending <=>
           \E r \in Ring : \E i \in 1 .. Len(queue[r]) : queue[r][i].op = "run"
             /\ queue[r][i].job = j
BY DEF Pending

\* A ring that runs a job runs one that no earlier job it conflicts with is still behind.
LEMMA ExecuteOrdered ==
  ASSUME Typed, Reserved, Ordered, NEW r \in Ring, Execute(r)
  PROVE  Order!Run \/ Pending' = Pending
<1>1. /\ Len(queue[r]) \in Nat \ {0} /\ Len(queue'[r]) = Len(queue[r]) - 1
      /\ \A i \in 1 .. Len(queue'[r]) : queue'[r][i] = queue[r][i + 1]
      /\ \A q \in Ring : q # r => queue'[q] = queue[q]
  BY Executed
<1>2. \A j : j \in Pending' <=>
               \E q \in Ring : \E i \in 1 .. Len(queue'[q]) :
                 queue'[q][i].op = "run" /\ queue'[q][i].job = j
  BY DEF Pending
<1>3. ASSUME NEW j
      PROVE  j \in Pending' <=>
               \E q \in Ring : \E i \in 1 .. Len(queue[q]) :
                 queue[q][i].op = "run" /\ queue[q][i].job = j /\ ~(q = r /\ i = 1)
  <2>1. ASSUME NEW q \in Ring, NEW i \in 1 .. Len(queue'[q]),
               queue'[q][i].op = "run", queue'[q][i].job = j
        PROVE  \E k \in 1 .. Len(queue[q]) :
                 queue[q][k].op = "run" /\ queue[q][k].job = j /\ ~(q = r /\ k = 1)
    <3>1. CASE q = r
      <4>1. i + 1 \in 1 .. Len(queue[r]) /\ i + 1 # 1
        BY <1>1, <2>1, <3>1
      <4>. QED
        BY <1>1, <2>1, <3>1, <4>1
    <3>2. CASE q # r
      BY <1>1, <2>1, <3>2
    <3>. QED
      BY <3>1, <3>2
  <2>2. ASSUME NEW q \in Ring, NEW i \in 1 .. Len(queue[q]),
               queue[q][i].op = "run", queue[q][i].job = j, ~(q = r /\ i = 1)
        PROVE  \E k \in 1 .. Len(queue'[q]) : queue'[q][k].op = "run" /\ queue'[q][k].job = j
    <3>1. CASE q = r
      <4>1. PICK k : k = i - 1
        OBVIOUS
      <4>2. k \in 1 .. Len(queue'[r]) /\ k + 1 = i
        BY <1>1, <2>2, <3>1, <4>1
      <4>3. queue'[r][k] = queue[r][i]
        BY <1>1, <4>2
      <4>. QED
        BY <2>2, <3>1, <4>2, <4>3
    <3>2. CASE q # r
      BY <1>1, <2>2, <3>2
    <3>. QED
      BY <3>1, <3>2
  <2>. QED
    BY <1>2, <2>1, <2>2
<1>4. CASE queue[r][1].op # "run"
  <2>1. \A j : j \in Pending' <=> j \in Pending
    BY <1>3, <1>4, PendingIs
  <2>. QED
    BY <2>1
<1>5. CASE queue[r][1].op = "run"
  <2>1. PICK j : j = queue[r][1].job
    OBVIOUS
  <2>2. 1 \in 1 .. Len(queue[r])
    BY <1>1
  <2>3. j \in Pending
    BY <1>5, <2>1, <2>2, PendingIs
  <2>4. ASSUME NEW q \in Ring, NEW i \in 1 .. Len(queue[q]), queue[q][i].op = "run",
               queue[q][i].job.n = j.n
        PROVE  q = r /\ i = 1
    BY <1>5, <2>1, <2>2, <2>4 DEF Reserved
  <2>5. \A k : k \in Pending' <=> k \in Pending /\ k # j
    <3>1. ASSUME NEW k, k \in Pending' PROVE k \in Pending /\ k # j
      BY <1>3, <2>4, <3>1, PendingIs
    <3>2. ASSUME NEW k, k \in Pending, k # j PROVE k \in Pending'
      BY <1>3, <2>1, <3>2, PendingIs
    <3>. QED
      BY <3>1, <3>2
  <2>6. Pending' = Pending \ {j}
    BY <2>5
  <2>7. PICK c \in [Ring -> Nat] : c = [q \in Ring |-> IF q = r THEN 1 ELSE 0]
    <3>1. [q \in Ring |-> IF q = r THEN 1 ELSE 0] \in [Ring -> Nat]
      OBVIOUS
    <3>. QED
      BY <3>1
  <2>8. c[r] = 1 /\ \A q \in Ring : q # r => c[q] = 0
    BY <2>7
  <2>9. c \in Cut
    <3>1. \A q \in Ring : Len(queue[q]) \in Nat
      BY QueueTypes
    <3>2. \A q \in Ring : c[q] <= Len(queue[q])
      BY <1>1, <2>8, <3>1
    <3>. QED
      BY <3>2 DEF Cut
  <2>10. Possible(c)
    <3>1. \A q \in Ring : \A i \in 1 .. c[q] : q = r /\ i = 1
      BY <2>8
    <3>2. \A x : queue[r][1] # Wait(x)
      BY <1>5, CommandKinds
    <3>. QED
      BY <3>1, <3>2 DEF Possible
  <2>11. ASSUME NEW k \in Pending, k.n < j.n, Order!Conflict(j, k) PROVE FALSE
    <3>1. PICK q \in Ring : \E m \in 1 .. Len(queue[q]) :
                              queue[q][m].op = "run" /\ queue[q][m].job = k
      BY <2>11, PendingIs
    <3>2. PICK m \in 1 .. Len(queue[q]) : queue[q][m].op = "run" /\ queue[q][m].job = k
      BY <3>1
    <3>3. 1 \in 1 .. c[r]
      BY <2>8
    <3>4. m <= c[q]
      BY <1>5, <2>1, <2>9, <2>10, <2>11, <3>2, <3>3 DEF Ordered
    <3>5. m \in Nat /\ m >= 1
      BY QueueTypes
    <3>6. q = r /\ m = 1
      BY <2>8, <3>4, <3>5
    <3>7. k = j /\ queue[r][1] \in Command
      BY <2>1, <3>2, <3>6, Executed
    <3>8. j.n \in Nat
      BY <1>5, <2>1, <3>7, CommandKinds
    <3>. QED
      BY <2>11, <3>7, <3>8
  <2>12. submitted' = submitted
    BY DEF Execute
  <2>. QED
    BY <2>3, <2>6, <2>11, <2>12 DEF Order!Run
<1>. QED
  BY <1>4, <1>5

\* Synchronising neither adds a job nor runs one.
LEMMA SignalsPend ==
  ASSUME Typed, Busy, NEW s, NEW x, SyncedWith(s, x)
  PROVE  Pending' = Pending
<1>1. CASE Refused(x)
  BY <1>1 DEF Pending, Refused
<1>2. CASE Given(s, x)
  <2>1. /\ s \in Ring /\ Len(queue[s]) \in Nat
        /\ Len(queue'[s]) = Len(queue[s]) + 1
        /\ \A i \in 1 .. Len(queue[s]) : queue'[s][i] = queue[s][i]
        /\ queue'[s][Len(queue[s]) + 1] = Signal(x)
        /\ \A q \in Ring : q # s => queue'[q] = queue[q]
    BY <1>2, GivenQueues, QueueTypes DEF SyncedWith
  <2>2. ASSUME NEW q \in Ring, NEW i \in 1 .. Len(queue'[q]), queue'[q][i].op = "run"
        PROVE  i \in 1 .. Len(queue[q]) /\ queue'[q][i] = queue[q][i]
    <3>1. CASE q = s
      <4>1. i # Len(queue[s]) + 1
        BY <2>1, <2>2, <3>1, CommandKinds
      <4>. QED
        BY <2>1, <2>2, <3>1, <4>1
    <3>2. CASE q # s
      BY <2>1, <3>2
    <3>. QED
      BY <3>1, <3>2
  <2>3. ASSUME NEW q \in Ring, NEW i \in 1 .. Len(queue[q])
        PROVE  i \in 1 .. Len(queue'[q]) /\ queue'[q][i] = queue[q][i]
    <3>1. CASE q = s
      BY <2>1, <3>1
    <3>2. CASE q # s
      BY <2>1, <3>2
    <3>. QED
      BY <3>1, <3>2
  <2>4. \A j : j \in Pending' <=>
                 \E q \in Ring : \E i \in 1 .. Len(queue'[q]) :
                   queue'[q][i].op = "run" /\ queue'[q][i].job = j
    BY DEF Pending
  <2>5. \A j : j \in Pending' <=> j \in Pending
    <3>1. ASSUME NEW j, j \in Pending' PROVE j \in Pending
      BY <2>2, <2>4, <3>1, PendingIs
    <3>2. ASSUME NEW j, j \in Pending PROVE j \in Pending'
      BY <2>3, <2>4, <3>2, PendingIs
    <3>. QED
      BY <3>1, <3>2
  <2>. QED
    BY <2>5
<1>. QED
  BY <1>1, <1>2 DEF SyncedWith

\* Emitting a job submits it.
LEMMA EmitPends ==
  ASSUME Typed, Busy, NEW failed, Emit(failed)
  PROVE  Order!Submit
<1>1. PICK r \in Ring : r = job.ring
  BY JobTypes
<1>2. PICK old \in Nat : old = Len(queue[r])
  BY QueueTypes
<1>3. PICK n \in Nat : n = Len(job.waits)
  BY JobTypes
<1>4. Sizes(r, old, n)
  BY <1>1, <1>2, <1>3 DEF Sizes
<1>5. /\ queue'[r][old + n + 1] = Run(submitted, job.use) /\ Len(queue'[r]) = old + n + 1
      /\ \A q \in Ring : \A i \in 1 .. Len(queue[q]) :
           i \in 1 .. Len(queue'[q]) /\ queue'[q][i] = queue[q][i]
  BY <1>4, EmittedRuns
<1>6. ASSUME NEW q \in Ring, NEW i \in 1 .. Len(queue'[q]), queue'[q][i].op = "run"
      PROVE  i \in 1 .. Len(queue[q]) \/ (q = r /\ i = old + n + 1)
  BY <1>4, <1>6, EmittedRun
<1>7. /\ Run(submitted, job.use).op = "run"
      /\ Run(submitted, job.use).job = [n |-> submitted, use |-> job.use]
  BY DEF Run
<1>8. PICK new : new = [n |-> submitted, use |-> job.use]
  OBVIOUS
<1>9. \A j : j \in Pending' <=>
               \E q \in Ring : \E i \in 1 .. Len(queue'[q]) :
                 queue'[q][i].op = "run" /\ queue'[q][i].job = j
  BY DEF Pending
<1>10. ASSUME NEW j, j \in Pending' PROVE j \in Pending \/ j = new
  <2>1. PICK q \in Ring : \E i \in 1 .. Len(queue'[q]) :
                            queue'[q][i].op = "run" /\ queue'[q][i].job = j
    BY <1>9, <1>10
  <2>2. PICK i \in 1 .. Len(queue'[q]) : queue'[q][i].op = "run" /\ queue'[q][i].job = j
    BY <2>1
  <2>3. CASE i \in 1 .. Len(queue[q])
    BY <1>5, <2>2, <2>3, PendingIs
  <2>4. CASE q = r /\ i = old + n + 1
    BY <1>5, <1>7, <1>8, <2>2, <2>4
  <2>. QED
    BY <1>6, <2>2, <2>3, <2>4
<1>11. ASSUME NEW j \in Pending PROVE j \in Pending'
  <2>1. PICK q \in Ring : \E i \in 1 .. Len(queue[q]) : queue[q][i].op = "run"
        /\ queue[q][i].job = j
    BY <1>11, PendingIs
  <2>. QED
    BY <1>5, <1>9, <2>1
<1>12. new \in Pending'
  <2>1. old + n + 1 \in 1 .. Len(queue'[r])
    BY <1>5
  <2>. QED
    BY <1>5, <1>7, <1>8, <1>9, <2>1
<1>13. Pending' = Pending \cup {new}
  BY <1>10, <1>11, <1>12
<1>14. job.use \in Order!Use
  BY JobTypes DEF Use, Order!Use
<1>15. submitted < MaxJobs /\ submitted' = submitted + 1
  BY DEF Typed, Emit
<1>. QED
  BY <1>8, <1>13, <1>14, <1>15 DEF Order!Submit

\* As long as no submission has failed (radeon_sync_rings), each step of the rings and of
\* the submissions is a step of BufferOrder, or none: jobs that share a buffer run in the
\* order of their submission, unless all of them only read it.
THEOREM OrderHolds == Spec => OrderUntilFailure
<1>1. Init => Order!Init
  <2>1. SUFFICES ASSUME Init PROVE Order!Init
    OBVIOUS
  <2>2. submitted = 0 /\ \A r \in Ring : Len(queue[r]) = 0
    BY <2>1 DEF Init
  <2>3. \A j : j \notin Pending
    BY <2>2, PendingIs
  <2>. QED
    BY <2>2, <2>3 DEF Order!Init
<1>2. SyncInv /\ [Next]_vars => [fails' = 0 => [Order!Next]_Order!vars]_vars
  <2>1. SUFFICES ASSUME SyncInv, Next, fails' = 0
                 PROVE  Order!Next \/ UNCHANGED <<submitted, Pending>>
    BY DEF Order!vars
  <2>2. /\ Typed /\ Counted /\ Reserved /\ fails \in Nat
        /\ fails = 0 => Ordered
    BY <2>1, SyncAssumption DEF SyncInv, Typed
  <2>3. ASSUME NEW r \in Ring, Execute(r) PROVE Order!Next \/ UNCHANGED <<submitted, Pending>>
    <3>1. fails = 0 /\ submitted' = submitted
      BY <2>1, <2>3 DEF Execute
    <3>2. Order!Run \/ Pending' = Pending
      BY <2>2, <2>3, <3>1, ExecuteOrdered
    <3>. QED
      BY <3>1, <3>2 DEF Order!Next
  <2>4. ASSUME queue' = queue, submitted' = submitted
        PROVE  Order!Next \/ UNCHANGED <<submitted, Pending>>
    BY <2>4 DEF Pending
  <2>5. ASSUME Synchronize PROVE Order!Next \/ UNCHANGED <<submitted, Pending>>
    <3>1. PICK s, x : SyncedWith(s, x)
      BY <2>2, <2>5, SynchronizeSteps
    <3>2. Busy /\ submitted' = submitted
      BY <2>5 DEF Synchronize
    <3>3. Pending' = Pending
      BY <2>2, <3>1, <3>2, SignalsPend
    <3>. QED
      BY <3>2, <3>3
  <2>6. ASSUME NEW failed, Busy, Emit(failed) PROVE Order!Next \/ UNCHANGED <<submitted, Pending>>
    BY <2>2, <2>6, EmitPends DEF Order!Next
  <2>7. ASSUME NEW r \in Ring, NEW use \in Use, Begin(r, use)
        PROVE  Order!Next \/ UNCHANGED <<submitted, Pending>>
    BY <2>4, <2>7 DEF Begin
  <2>8. ASSUME WaitManually \/ Undo PROVE Order!Next \/ UNCHANGED <<submitted, Pending>>
    BY <2>4, <2>8 DEF WaitManually, Undo
  <2>. QED
    BY <2>1, <2>3, <2>5, <2>6, <2>7, <2>8 DEF Next, Submit, Schedule, CopyUnsynchronized
<1>. QED
  BY <1>1, <1>2, SyncInvariance, PTL DEF Spec, OrderUntilFailure
===============================================================================
