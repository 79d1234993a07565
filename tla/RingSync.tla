------------------------------ MODULE RingSync ------------------------------
(***************************************************************************)
(* How jobs on several rings are kept in order: the fences of the buffers  *)
(* a job uses, what each ring is known to have waited for already, the     *)
(* semaphores one ring signals and another waits on, and the memory these  *)
(* live in, which is given back when a fence says so.                      *)
(*                                                                         *)
(* A submission holds the reservations of its buffers and ring_lock, so    *)
(* there is one at a time.  The rings run meanwhile.                       *)
(***************************************************************************)
EXTENDS Integers, Sequences, FiniteSets, FiniteSetsExt

CONSTANTS
  R,        \* the number of rings
  Bo,       \* the buffers
  Slot,     \* the memory of the semaphores, in ring_tmp_bo
  Syncs,    \* RADEON_NUM_SYNCS, the semaphores of a submission
  Mutes,    \* which rings may refuse semaphores: of one device, a set of rings
  MaxJobs,  \* bound: submissions
  MaxFail   \* bound: submissions that fail after they have begun

Ring == 1 .. R

ASSUME SyncAssumption ==
  /\ R \in Nat /\ Syncs \in Nat /\ Syncs <= Cardinality(Slot)
  /\ Mutes \subseteq SUBSET Ring /\ MaxJobs \in Nat /\ MaxFail \in Nat

VARIABLES
  mute,       \* the rings that refuse semaphores, always
  queue,      \* of each ring: the commands the GPU has still to execute
  done,       \* of each ring: the last fence it has executed
  sync_seq,   \* fence_drv[dst].sync_seq[src]: the last fence of src known to dst
  readers, writers,  \* the reservations: the last fence of each ring on each buffer
  claim,      \* of each slot: free, held by the submission, or waiting for a fence
  value,      \* of each slot: the semaphore
  job,        \* the submission going on
  submitted, fails

resv == <<readers, writers>>
vars == <<mute, queue, done, sync_seq, readers, writers, claim, value, job, submitted, fails>>

NoJob == [ring |-> 0]
Free == [ring |-> 0, seq |-> 0]
Held == [ring |-> 0, seq |-> 1]
Use == [Bo -> {"none", "read", "write"}]

Init ==
  /\ mute \in Mutes
  /\ queue = [r \in Ring |-> <<>>] /\ done = [r \in Ring |-> 0]
  /\ sync_seq = [d \in Ring |-> [s \in Ring |-> 0]]
  /\ readers = [o \in Bo |-> [r \in Ring |-> 0]] /\ writers = readers
  /\ claim = [x \in Slot |-> Free] /\ value = [x \in Slot |-> 0]
  /\ job = NoJob /\ submitted = 0 /\ fails = 0

Busy == job # NoJob

Larger(a, b) == IF a > b THEN a ELSE b

-----------------------------------------------------------------------------
(* The GPU *)

Signal(x) == [op |-> "signal", slot |-> x]
Wait(x) == [op |-> "wait", slot |-> x]
Run(n, use) == [op |-> "run", job |-> [n |-> n, use |-> use]]

\* a ring executes its next command; a wait takes one signal of the semaphore
Execute(r) ==
  /\ queue[r] # <<>> /\ queue' = [queue EXCEPT ![r] = Tail(@)]
  /\ LET c == Head(queue[r]) IN
       \/ c.op = "run" /\ done' = [done EXCEPT ![r] = @ + 1] /\ UNCHANGED value
       \/ c.op = "signal" /\ value' = [value EXCEPT ![c.slot] = @ + 1] /\ UNCHANGED done
       \/ /\ c.op = "wait" /\ value[c.slot] > 0
          /\ value' = [value EXCEPT ![c.slot] = @ - 1] /\ UNCHANGED done
  /\ UNCHANGED <<mute, sync_seq, resv, claim, job, submitted, fails>>

-----------------------------------------------------------------------------
(* A submission *)

\* Mutant: a writer does not wait for the readers.
FencesOfWriters(use, o, s) == IF use[o] = "none" THEN 0 ELSE writers[o][s]

\* radeon_sync_resv: a reader is synchronised with the writers only
Fences(use, o, s) ==
  CASE use[o] = "none" -> 0
    [] use[o] = "read" -> writers[o][s]
    [] use[o] = "write" -> Larger(readers[o][s], writers[o][s])

\* radeon_sync_fence keeps the later fence of each ring
SyncTo(use) == [s \in Ring |-> Max({0} \cup {Fences(use, o, s) : o \in Bo})]

Begin(r, use) ==
  /\ ~Busy /\ submitted < MaxJobs
  /\ job' = [ring |-> r, use |-> use, sync_to |-> SyncTo(use), next |-> 1,
             waits |-> <<>>, slots |-> {}, manual |-> FALSE]
  /\ UNCHANGED <<mute, queue, done, sync_seq, resv, claim, value, submitted, fails>>

\* radeon_fence_need_sync
NeedSync(s) == s # job.ring /\ job.sync_to[s] > sync_seq[job.ring][s]

\* the rings that are still to be looked at and need a synchronisation
Due == {s \in job.next .. R : NeedSync(s)}

\* drm_suballoc_new: slots come back when the fence they were freed with has signalled
Available(x) == claim[x] = Free \/ (claim[x].ring # 0 /\ done[claim[x].ring] >= claim[x].seq)

\* Mutant: the other ring is taken to know everything that has been emitted.
NoteSyncAll(d, s) ==
  sync_seq' = [sync_seq EXCEPT ![d] = [i \in Ring |-> IF i = d THEN @[i] ELSE sync_seq[i][i]]]

\* radeon_fence_note_sync: whatever the signalling ring has emitted or waited for
NoteSync(d, s) ==
  sync_seq' = [sync_seq EXCEPT ![d] =
                 [i \in Ring |-> IF i = d THEN @[i] ELSE Larger(@[i], sync_seq[s][i])]]

\* a semaphore is created and cleared; the other ring signals it, this one will wait on it
Synchronize ==
  /\ Busy /\ ~job.manual /\ Due # {} /\ Cardinality(job.slots) < Syncs
  /\ LET s == Min(Due) IN
     \E x \in Slot :
       /\ Available(x)
       /\ claim' = [claim EXCEPT ![x] = Held] /\ value' = [value EXCEPT ![x] = 0]
       /\ IF s \in mute \/ job.ring \in mute
          THEN /\ job' = [job EXCEPT !.slots = @ \cup {x}, !.manual = TRUE]
               /\ UNCHANGED <<queue, sync_seq>>
          ELSE /\ queue' = [queue EXCEPT ![s] = Append(@, Signal(x))]
               /\ job' = [job EXCEPT !.slots = @ \cup {x}, !.next = s + 1,
                                     !.waits = Append(@, Wait(x))]
               /\ NoteSync(job.ring, s)
  /\ UNCHANGED <<mute, done, resv, submitted, fails>>

\* no room for another semaphore, or a ring refused it: radeon_fence_wait
WaitManually ==
  /\ Busy /\ Due # {} /\ (job.manual \/ Cardinality(job.slots) >= Syncs)
  /\ LET s == Min(Due) IN
     /\ done[s] >= job.sync_to[s]
     /\ job' = [job EXCEPT !.next = s + 1, !.manual = FALSE]
  /\ UNCHANGED <<mute, queue, done, sync_seq, resv, claim, value, submitted, fails>>

\* Mutant: the semaphores of a submission are freed at once.
EmitFreeing(failed) ==
  LET r == job.ring
      seq == sync_seq[r][r] + 1
  IN /\ queue' = [queue EXCEPT ![r] = (@ \o job.waits) \o <<Run(submitted, job.use)>>]
     /\ sync_seq' = [sync_seq EXCEPT ![r][r] = seq]
     /\ claim' = [x \in Slot |-> IF x \in job.slots THEN Free ELSE claim[x]]
     /\ readers' = [o \in Bo |-> IF job.use[o] = "read"
                                 THEN [readers[o] EXCEPT ![r] = seq] ELSE readers[o]]
     /\ writers' = [o \in Bo |-> IF job.use[o] = "write"
                                 THEN [writers[o] EXCEPT ![r] = seq] ELSE writers[o]]
     /\ submitted' = submitted + 1 /\ fails' = fails + failed /\ job' = NoJob
     /\ UNCHANGED <<mute, done, value>>

\* the waits, the job and its fence; the fence frees the semaphores and goes to the buffers
Emit(failed) ==
  LET r == job.ring
      seq == sync_seq[r][r] + 1
  IN /\ queue' = [queue EXCEPT ![r] = (@ \o job.waits) \o <<Run(submitted, job.use)>>]
     /\ sync_seq' = [sync_seq EXCEPT ![r][r] = seq]
     /\ claim' = [x \in Slot |-> IF x \in job.slots THEN [ring |-> r, seq |-> seq] ELSE claim[x]]
     /\ readers' = [o \in Bo |-> IF job.use[o] = "read"
                                 THEN [readers[o] EXCEPT ![r] = seq] ELSE readers[o]]
     /\ writers' = [o \in Bo |-> IF job.use[o] = "write"
                                 THEN [writers[o] EXCEPT ![r] = seq] ELSE writers[o]]
     /\ submitted' = submitted + 1 /\ fails' = fails + failed /\ job' = NoJob
     /\ UNCHANGED <<mute, done, value>>

Schedule == Busy /\ Due = {} /\ Emit(0)

\* an IB whose synchronisation or fence fails is undone: its waits are taken back and its
\* semaphores freed with no fence
Undo ==
  /\ Busy /\ fails < MaxFail
  /\ claim' = [x \in Slot |-> IF x \in job.slots THEN Free ELSE claim[x]]
  /\ job' = NoJob /\ fails' = fails + 1
  /\ UNCHANGED <<mute, queue, done, sync_seq, resv, value, submitted>>

\* a copy does not look at the result of radeon_sync_rings
CopyUnsynchronized == Busy /\ Due # {} /\ fails < MaxFail /\ Emit(1)

Submit == Synchronize \/ WaitManually \/ Schedule

Next ==
  \/ \E r \in Ring : Execute(r)
  \/ \E r \in Ring, use \in Use : Begin(r, use)
  \/ Submit \/ Undo \/ CopyUnsynchronized

\* every ring goes on unless it waits for a semaphore; a submission waits for fences only
Fairness == WF_vars(Submit) /\ \A r \in Ring : WF_vars(Execute(r))

Spec == Init /\ [][Next]_vars
FairSpec == Spec /\ Fairness

-----------------------------------------------------------------------------
(* Properties *)

TypeOK ==
  /\ mute \subseteq Ring
  /\ \A r \in Ring : \A i \in 1 .. Len(queue[r]) :
       LET c == queue[r][i] IN
       \/ c.op = "run" /\ c.job.n \in 0 .. submitted - 1 /\ c.job.use \in Use
       \/ c.op \in {"signal", "wait"} /\ c.slot \in Slot
  /\ \A d, s \in Ring : sync_seq[d][s] \in 0 .. sync_seq[s][s]
  /\ \A r \in Ring : done[r] \in 0 .. sync_seq[r][r]
  /\ \A o \in Bo, r \in Ring : {readers[o][r], writers[o][r]} \subseteq 0 .. sync_seq[r][r]
  /\ claim \in [Slot -> [ring : 0 .. R, seq : 0 .. MaxJobs]]
  /\ value \in [Slot -> 0 .. 1 + fails]
  /\ submitted \in 0 .. MaxJobs /\ fails \in 0 .. MaxFail

Pending == UNION {{queue[r][i].job : i \in {k \in 1 .. Len(queue[r]) : queue[r][k].op = "run"}}
                    : r \in Ring}

Order == INSTANCE BufferOrder WITH pending <- Pending

\* Jobs that share a buffer run in the order of their submission, on whatever rings, unless
\* all of them only read it.  (Violated: a copy runs unsynchronised when its
\* synchronisation fails.)
ImplementsOrder == Order!Spec

\* The same as long as no submission has failed: radeon_sync_rings puts enough waits
\* before each job.
OrderUntilFailure == Order!Init /\ [][fails' = 0 => [Order!Next]_Order!vars]_vars

Known ==
  \A d, s \in Ring : queue[d] = <<>> /\ (Busy => job.ring # d) => done[s] >= sync_seq[d][s]

\* What a ring is noted to have waited for is true once it has executed its commands, and
\* the next job may rely on it instead of waiting itself, as long as nothing has failed.
KnowledgeIsTrue == fails = 0 => Known

\* The same whatever has failed.  (Violated: an undone submission has noted its waits.)
NotedMeansWaited == Known

\* The memory of a semaphore is not given out again while a command still names it, as long
\* as nothing has failed.
SlotsAreKept ==
  /\ TypeOK
  /\ fails = 0 =>
    \A r \in Ring : \A i \in 1 .. Len(queue[r]) :
      queue[r][i].op # "run" => ~Available(queue[r][i].slot)

\* Semaphores do not lock the rings up, whatever submissions fail, nor does a submission that
\* waits with ring_lock held: every ring catches up with the fences emitted on it.
RingsCatchUp == \A r \in Ring : []<>(done[r] = sync_seq[r][r])
=============================================================================
