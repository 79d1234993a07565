----------------------------- MODULE RadeonRing -----------------------------
(***************************************************************************)
(* One command ring: radeon_ring_alloc with its wait for space, the        *)
(* padding of radeon_ring_commit, the command processor that reads the     *)
(* ring, the read pointer every IB saves before it runs, and the backup    *)
(* and replay of the unprocessed commands around a GPU reset, with the IB  *)
(* test that ends a reset and a resume, and the drain of a suspend.        *)
(*                                                                         *)
(* A word of the ring is a triple <<kind, job, value>>; a job is known by  *)
(* the number of the fence that ends it.  Sequence numbers do not wrap     *)
(* here: FenceSeq has their width.                                         *)
(***************************************************************************)
EXTENDS Integers, SequencesExt

CONSTANTS
  Size,      \* words of the ring, ptr_mask + 1
  Align,     \* align_mask + 1
  Block,     \* words between two updates of the read pointer's copy in memory
  Start,     \* words of the start block and of the ring test
  Request,   \* words a job asks for (it writes fewer)
  Layout,    \* the kinds of the words a job writes, in order
  Resume,    \* what ring_ib_execute adds to the place of the save
  Families,  \* which boards: {TRUE} an RS400/RS480, {FALSE} another, or both
  MaxSeq,    \* bound: clients stop at this fence
  MaxUpset   \* bound: hangs, forced resets, failed restarts, slow IB tests, suspends

\* a packet of several words has its kind on the last one, "part" before it
Kind == {"nop", "start", "sync", "save", "ib", "fence", "part", "stray"}

ASSUME RingAssumption ==
  /\ Size \in Nat \ {0} /\ Align \in Nat \ {0} /\ Block \in Nat \ {0}
  /\ Size % Align = 0 /\ Size % Block = 0 /\ Start % Align = 0
  /\ Start \in 0 .. (Block - 1)
  /\ Layout \in Seq(Kind) /\ Len(Layout) <= Request /\ Request <= Size
  /\ Request \in Nat /\ Resume \in Nat
  /\ Families \subseteq BOOLEAN /\ MaxSeq \in Nat /\ MaxUpset \in Nat

VARIABLES
  rs4xx,       \* the board is an RS400/RS480, fixed by the probe
  ring,        \* the ring buffer
  wptr,        \* ring->wptr, published to the GPU
  rptr,        \* the command processor's read pointer
  rptr_save,   \* the scratch register each job saves its resume point in
  hung,        \* the command processor reads nothing
  cell,        \* the fence value the GPU wrote last
  sync_seq,    \* the last fence emitted
  last_seq,    \* the last fence the driver has seen signalled
  needs_reset,
  ready,       \* ring->ready
  phase,       \* what the device is doing
  pc,          \* where the holder of ring_lock stands, "idle" if it is free
  who,         \* for whom ring_lock was taken
  target,      \* the fence the holder waits for
  data,        \* the copy radeon_ring_backup made
  saved,       \* the running reset has copied something
  upsets

gpu == <<rptr, rptr_save, hung>>
fences == <<cell, sync_seq, last_seq>>
holder == <<pc, who, target>>
vars == <<rs4xx, ring, wptr, gpu, fences, needs_reset, ready, phase, holder, data,
          saved, upsets>>

Phase == {"run", "reset", "asic", "restore", "test", "suspend", "off",
          "resume", "dead"}
Word == Kind \X Nat \X Nat

TypeOK ==
  /\ ring \in [0 .. (Size - 1) -> Word]
  /\ wptr \in 0 .. (Size - 1) /\ rptr \in 0 .. (Size - 1) /\ rptr_save \in Nat
  /\ cell \in 0 .. sync_seq /\ sync_seq \in Nat /\ last_seq \in 0 .. sync_seq
  /\ rs4xx \in BOOLEAN /\ hung \in BOOLEAN /\ needs_reset \in BOOLEAN
  /\ ready \in BOOLEAN /\ saved \in BOOLEAN
  /\ phase \in Phase
  /\ pc \in {"idle", "full", "wait", "write", "test", "drain"}
  /\ who \in {"client", "restore", "test"} /\ target \in Nat
  /\ data \in Seq(Word) /\ Len(data) < Size /\ upsets \in 0 .. MaxUpset

-----------------------------------------------------------------------------
Nop == <<"nop", 0, 0>>
Stray == <<"stray", 0, 0>>

At(p) == p % Size
AlignUp(n) == Align * ((n + Align - 1) \div Align)

\* the copy in memory lags: the CP writes it every Block words
Rptr_copy == rptr - (rptr % Block)

\* Mutant: the space of a wrapped ring is not masked.
FreeUnmasked == Rptr_copy + Size - wptr

\* Mutant: an empty ring is taken for a full one.
FreeNoEmpty == At(Rptr_copy + Size - wptr)

\* radeon_ring_free_size
Free == LET free == At(Rptr_copy + Size - wptr)
        IN IF free = 0 THEN Size ELSE free

Fits(ndw) == AlignUp(ndw) < Free

\* the words the command processor has still to read
Unread == [i \in 1 .. At(wptr - rptr) |-> ring[At(rptr + i - 1)]]

\* the words a job writes from wptr on; a save holds the position after its
\* IB, which the code does not mask
JobWords(seq) ==
  [i \in DOMAIN Layout |->
     <<Layout[i], seq, IF Layout[i] = "save" THEN wptr + i - 1 + Resume ELSE 0>>]

Written(words) ==
  [p \in DOMAIN ring |-> LET i == At(p - wptr) + 1
                         IN IF i \in DOMAIN words THEN words[i] ELSE ring[p]]

\* a job whose fence could not be emitted, all its other words written
Unfenced(words) == [i \in {j \in DOMAIN words : words[j][1] # "fence"} |-> words[i]]

\* Mutant: the write pointer is not masked.
CommitUnmasked(words) ==
  LET padded == words \o [i \in 1 .. (-(wptr + Len(words))) % Align |-> Nop]
  IN ring' = Written(padded) /\ wptr' = wptr + Len(padded)

\* radeon_ring_commit: pad to the fetch size, then publish wptr
Commit(words) ==
  LET padding == (-(wptr + Len(words))) % Align
      padded == words \o [i \in 1 .. padding |-> Nop]
  IN /\ ring' = Written(padded)
     /\ wptr' = At(wptr + Len(padded))

\* radeon_fence_activity as seen by one caller
Polled == IF cell > last_seq THEN cell ELSE last_seq
Poll == last_seq' = Polled

\* the IRQ handler and the lockup worker are admitted
Admitted == phase = "run" \/ (~rs4xx /\ phase \in {"suspend", "test", "resume"})

\* radeon_fence_driver_force_completion
ForceCompletion == cell' = sync_seq

\* radeon_rs4xx_publish_parked_state: every fence is signalled with an error
Dead == phase' = "dead" /\ pc' = "idle" /\ data' = <<>> /\ ready' = FALSE

Init ==
  /\ rs4xx \in Families
  /\ ring = [p \in 0 .. (Size - 1) |-> IF p < Start THEN <<"start", 0, 0>> ELSE Nop]
  /\ wptr = Start /\ rptr = Start /\ rptr_save = 0 /\ hung = FALSE
  /\ cell = 0 /\ sync_seq = 0 /\ last_seq = 0
  /\ needs_reset = FALSE /\ ready = TRUE /\ phase = "run"
  /\ pc = "idle" /\ who = "client" /\ target = 0
  /\ data = <<>> /\ saved = FALSE /\ upsets = 0

-----------------------------------------------------------------------------
(* The command processor *)

Running == ~hung /\ phase \in {"run", "restore", "test", "suspend", "resume"}

\* one word read and executed
Fetch ==
  /\ Running /\ rptr # wptr
  /\ rptr' = At(rptr + 1)
  /\ rptr_save' = IF ring[rptr][1] = "save" THEN ring[rptr][3] ELSE rptr_save
  /\ cell' = IF ring[rptr][1] = "fence" THEN ring[rptr][2] ELSE cell
  /\ UNCHANGED <<rs4xx, ring, wptr, hung, sync_seq, last_seq, needs_reset, ready, phase,
                 holder, data, saved, upsets>>

Hang ==
  /\ Running /\ rptr # wptr /\ upsets < MaxUpset
  /\ hung' = TRUE /\ upsets' = upsets + 1
  /\ UNCHANGED <<rs4xx, ring, wptr, rptr, rptr_save, fences, needs_reset, ready, phase,
                 holder, data, saved>>

-----------------------------------------------------------------------------
(* The IRQ handler and the lockup worker *)

Process ==
  /\ Admitted /\ cell > last_seq /\ Poll
  /\ UNCHANGED <<rs4xx, ring, wptr, gpu, cell, sync_seq, needs_reset, ready, phase,
                 holder, data, saved, upsets>>

\* Mutant: one outstanding fence is not watched.
CheckLockupOffByOne ==
  /\ Admitted /\ cell <= last_seq /\ last_seq + 1 < sync_seq /\ hung /\ ~needs_reset
  /\ needs_reset' = TRUE
  /\ UNCHANGED <<rs4xx, ring, wptr, gpu, fences, ready, phase, holder, data, saved, upsets>>

\* Mutant: the worker needs ring_lock, which a waiting task holds.
CheckLockupLocked ==
  /\ Admitted /\ cell <= last_seq /\ last_seq < sync_seq /\ hung /\ ~needs_reset
  /\ pc = "idle"
  /\ needs_reset' = TRUE
  /\ UNCHANGED <<rs4xx, ring, wptr, gpu, fences, ready, phase, holder, data, saved, upsets>>

\* radeon_fence_check_lockup: no activity, a fence outstanding, the CP stalled
CheckLockup ==
  /\ Admitted /\ cell <= last_seq /\ last_seq < sync_seq /\ hung /\ ~needs_reset
  /\ needs_reset' = TRUE
  /\ UNCHANGED <<rs4xx, ring, wptr, gpu, fences, ready, phase, holder, data, saved, upsets>>

\* the debugfs file radeon_gpu_reset asks for a reset of a GPU that may run
AskReset ==
  /\ Admitted /\ phase \in {"run", "test"} /\ ~needs_reset /\ upsets < MaxUpset
  /\ needs_reset' = TRUE /\ upsets' = upsets + 1
  /\ UNCHANGED <<rs4xx, ring, wptr, gpu, fences, ready, phase, holder, data, saved>>

-----------------------------------------------------------------------------
(* radeon_ring_lock, radeon_ring_alloc and radeon_fence_wait_next *)

Lock(w) ==
  /\ pc = "idle" /\ pc' = "full" /\ who' = w
  /\ UNCHANGED <<rs4xx, ring, wptr, gpu, fences, needs_reset, ready, phase, target, data,
                 saved, upsets>>

ClientLock == phase = "run" /\ ready /\ sync_seq < MaxSeq /\ Lock("client")
RestoreLock == phase = "restore" /\ data # <<>> /\ Lock("restore")
TestLock == phase \in {"test", "resume"} /\ ready /\ Lock("test")

Need == IF who = "restore" THEN Len(data) ELSE Request

\* the end of an IB test: radeon_ib_ring_tests and its two callers
TestPassed ==
  /\ phase' = "run" /\ pc' = "idle"
  /\ needs_reset' = (needs_reset /\ phase = "resume")
  /\ UNCHANGED <<ready, data>>

TestFailed ==
  IF rs4xx THEN Dead /\ needs_reset' = FALSE /\ UNCHANGED cell
  ELSE /\ ForceCompletion /\ ready' = FALSE
       /\ needs_reset' = (saved /\ phase = "test")
       /\ phase' = "run" /\ pc' = "idle" /\ UNCHANGED data

\* the commands are dropped, or the device is parked
RestoreFailed ==
  /\ IF rs4xx THEN Dead
     ELSE phase' = "test" /\ pc' = "idle" /\ data' = <<>> /\ UNCHANGED ready
  /\ needs_reset' = FALSE /\ UNCHANGED cell

\* radeon_ring_alloc returns an error to its caller
Refused ==
  CASE who = "client" -> pc' = "idle" /\ UNCHANGED <<cell, needs_reset, ready, phase, data>>
    [] who = "restore" -> RestoreFailed
    [] who = "test" -> TestFailed

Allocated ==
  /\ pc = "full" /\ Fits(Need) /\ pc' = "write"
  /\ UNCHANGED <<rs4xx, ring, wptr, gpu, fences, needs_reset, ready, phase, who, target,
                 data, saved, upsets>>

\* radeon_fence_wait_next finds a fence to wait for, seen signalled or not yet
WaitNext ==
  /\ pc = "full" /\ ~Fits(Need) /\ last_seq + 1 < sync_seq
  /\ target' = last_seq + 1
  /\ pc' = IF cell > last_seq THEN "full" ELSE "wait"
  /\ Poll
  /\ UNCHANGED <<rs4xx, ring, wptr, gpu, cell, sync_seq, needs_reset, ready, phase, who,
                 data, saved, upsets>>

\* -ENOENT
NothingToWaitFor ==
  /\ pc = "full" /\ ~Fits(Need) /\ last_seq + 1 >= sync_seq
  /\ Refused
  /\ UNCHANGED <<rs4xx, ring, wptr, gpu, sync_seq, last_seq, who, target, saved, upsets>>

\* needs_reset fails a wait that has begun, even for a signalled fence
WaitDone ==
  /\ pc = "wait" /\ Polled >= target /\ ~needs_reset
  /\ pc' = "full" /\ Poll
  /\ UNCHANGED <<rs4xx, ring, wptr, gpu, cell, sync_seq, needs_reset, ready, phase, who,
                 target, data, saved, upsets>>

WaitDeadlock ==
  /\ pc = "wait" /\ needs_reset
  /\ Refused
  /\ UNCHANGED <<rs4xx, ring, wptr, gpu, sync_seq, last_seq, who, target, saved, upsets>>

\* radeon_ib_schedule: the job is written, its fence emitted, the ring unlocked
Schedule ==
  /\ pc = "write" /\ who \in {"client", "test"}
  /\ sync_seq' = sync_seq + 1
  /\ Commit(JobWords(sync_seq + 1))
  /\ IF who = "test" THEN pc' = "test" /\ target' = sync_seq + 1
     ELSE pc' = "idle" /\ UNCHANGED target
  /\ UNCHANGED <<rs4xx, gpu, cell, last_seq, needs_reset, ready, phase, who, data,
                 saved, upsets>>

\* radeon_ring_unlock_undo: what was written stays in the buffer, unpublished
Undo ==
  /\ pc = "write" /\ who = "client"
  /\ ring' = Written(Unfenced(JobWords(sync_seq + 1))) /\ pc' = "idle"
  /\ UNCHANGED <<rs4xx, wptr, gpu, fences, needs_reset, ready, phase, who, target, data,
                 saved, upsets>>

-----------------------------------------------------------------------------
(* radeon_gpu_reset_internal *)

\* the writer lock is held; radeon_suspend stops the command processor
BeginReset ==
  /\ phase = "run" /\ pc = "idle" /\ needs_reset
  /\ phase' = "reset" /\ ready' = FALSE
  /\ UNCHANGED <<rs4xx, ring, wptr, gpu, fences, needs_reset, holder, data, saved, upsets>>

\* Mutant: the copy starts at the read pointer's copy, not at the saved one.
BackupFromCopy(copied) ==
  /\ phase = "reset" /\ phase' = "asic"
  /\ Poll
  /\ data' = IF last_seq' = sync_seq \/ ~copied THEN <<>>
             ELSE [i \in 1 .. At(wptr - Rptr_copy) |-> ring[At(Rptr_copy + i - 1)]]
  /\ saved' = (data' # <<>>)
  /\ UNCHANGED <<rs4xx, ring, wptr, gpu, cell, sync_seq, needs_reset, ready, holder,
                 upsets>>

\* radeon_ring_backup; copied is FALSE if kvmalloc_array fails
Backup(copied) ==
  LET size == At(wptr + Size - rptr_save)
      word(i) == IF i = 1 /\ rptr_save >= Size THEN Stray
                 ELSE ring[At(rptr_save + i - 1)]
  IN /\ phase = "reset" /\ phase' = "asic"
     /\ Poll
     /\ data' = IF last_seq' = sync_seq \/ ~copied THEN <<>>
                ELSE [i \in 1 .. size |-> word(i)]
     /\ saved' = (data' # <<>>)
     /\ UNCHANGED <<rs4xx, ring, wptr, gpu, cell, sync_seq, needs_reset, ready, holder,
                    upsets>>

\* radeon_asic_reset fails
ResetFails ==
  /\ phase = "asic" /\ upsets < MaxUpset /\ upsets' = upsets + 1
  /\ IF rs4xx THEN Dead /\ UNCHANGED cell
     ELSE ForceCompletion /\ phase' = "run" /\ data' = <<>> /\ UNCHANGED <<ready, pc>>
  /\ hung' = TRUE /\ needs_reset' = FALSE
  /\ UNCHANGED <<rs4xx, ring, wptr, rptr, rptr_save, sync_seq, last_seq, who, target, saved>>

\* radeon_resume of the ASIC: radeon_fence_driver_start_ring, the start block
\* and the ring test; the scratch register may lose its value
Restart ==
  /\ phase' = IF phase = "asic" THEN "restore" ELSE "resume"
  /\ phase \in {"asic", "off"}
  /\ ring' = [p \in DOMAIN ring |-> IF p < Start THEN <<"start", 0, 0>> ELSE ring[p]]
  /\ wptr' = Start /\ rptr' = Start /\ rptr_save' \in {rptr_save, 0}
  /\ hung' = FALSE /\ ready' = TRUE /\ cell' = last_seq
  /\ UNCHANGED <<rs4xx, sync_seq, last_seq, needs_reset, holder, data, saved, upsets>>

\* the ASIC's resume fails before it programs the command processor
RestartFails ==
  /\ phase \in {"asic", "off"} /\ upsets < MaxUpset /\ upsets' = upsets + 1
  /\ hung' = TRUE
  /\ IF rs4xx THEN Dead /\ needs_reset' = FALSE
     ELSE /\ phase' = IF phase = "asic" THEN "restore" ELSE "resume"
          /\ UNCHANGED <<pc, data, ready, needs_reset>>
  /\ UNCHANGED <<rs4xx, ring, wptr, rptr, rptr_save, fences, who, target, saved>>

\* nothing was copied
RestoreNothing ==
  /\ phase = "restore" /\ pc = "idle" /\ data = <<>>
  /\ ForceCompletion /\ phase' = "test" /\ needs_reset' = FALSE
  /\ UNCHANGED <<rs4xx, ring, wptr, gpu, sync_seq, last_seq, ready, holder, data,
                 saved, upsets>>

\* radeon_ring_restore has its space
Restore ==
  /\ pc = "write" /\ who = "restore"
  /\ Commit(data) /\ data' = <<>>
  /\ phase' = "test" /\ pc' = "idle" /\ needs_reset' = FALSE
  /\ UNCHANGED <<rs4xx, gpu, fences, ready, who, target, saved, upsets>>

\* radeon_ib_ring_tests passes over a ring that is not ready
SkipTest ==
  /\ phase \in {"test", "resume"} /\ pc = "idle" /\ ~ready
  /\ TestPassed
  /\ UNCHANGED <<rs4xx, ring, wptr, gpu, fences, who, target, saved, upsets>>

TestDone ==
  /\ pc = "test" /\ Polled >= target
  /\ TestPassed /\ Poll
  /\ UNCHANGED <<rs4xx, ring, wptr, gpu, cell, sync_seq, who, target, saved, upsets>>

\* the wait sees needs_reset or times out, on a GPU that hangs or is only slow
TestFails ==
  /\ pc = "test"
  /\ IF hung \/ needs_reset THEN UNCHANGED upsets
     ELSE upsets < MaxUpset /\ upsets' = upsets + 1
  /\ TestFailed
  /\ UNCHANGED <<rs4xx, ring, wptr, gpu, sync_seq, last_seq, who, target, saved>>

-----------------------------------------------------------------------------
(* radeon_suspend_kms and radeon_resume_kms *)

\* ring_lock is held while radeon_fence_wait_empty drains the ring
Suspend ==
  /\ phase = "run" /\ pc = "idle" /\ upsets < MaxUpset /\ upsets' = upsets + 1
  /\ phase' = "suspend" /\ pc' = "drain" /\ target' = sync_seq
  /\ UNCHANGED <<rs4xx, ring, wptr, gpu, fences, needs_reset, ready, who, data, saved>>

DrainDone ==
  /\ pc = "drain" /\ Polled >= target
  /\ phase' = "off" /\ pc' = "idle" /\ ready' = FALSE /\ Poll
  /\ UNCHANGED <<rs4xx, ring, wptr, gpu, cell, sync_seq, needs_reset, who, target, data,
                 saved, upsets>>

DrainDeadlock ==
  /\ pc = "drain" /\ needs_reset
  /\ IF rs4xx THEN Dead /\ needs_reset' = FALSE /\ UNCHANGED cell
     ELSE /\ ForceCompletion /\ phase' = "off" /\ pc' = "idle" /\ ready' = FALSE
          /\ UNCHANGED <<needs_reset, data>>
  /\ UNCHANGED <<rs4xx, ring, wptr, gpu, sync_seq, last_seq, who, target, saved, upsets>>

-----------------------------------------------------------------------------
Wait == WaitNext \/ NothingToWaitFor \/ WaitDone \/ WaitDeadlock
Test == SkipTest \/ TestDone \/ TestFails
Drain == DrainDone \/ DrainDeadlock

Next ==
  \/ Fetch \/ Hang \/ Process \/ CheckLockup \/ AskReset
  \/ ClientLock \/ RestoreLock \/ TestLock \/ Allocated \/ Wait \/ Schedule \/ Undo
  \/ BeginReset \/ (\E copied \in BOOLEAN : Backup(copied))
  \/ ResetFails \/ Restart \/ RestartFails \/ RestoreNothing \/ Restore \/ Test
  \/ Suspend \/ Drain

\* The GPU executes while it is not hung, IRQ and worker run, a task that holds
\* the ring goes on, somebody resets a GPU that needs it and resumes one that is
\* off: down_write keeps later readers out, so the reset needs strong fairness
\* against the clients that come and go.  Hangs, forced resets, suspends and
\* submissions need not happen.
Fairness ==
  /\ WF_vars(Fetch) /\ WF_vars(Process) /\ WF_vars(CheckLockup)
  /\ WF_vars(Allocated) /\ WF_vars(Wait) /\ WF_vars(Schedule \/ Undo)
  /\ SF_vars(BeginReset) /\ WF_vars(\E copied \in BOOLEAN : Backup(copied))
  /\ WF_vars(Restart) /\ WF_vars(RestoreNothing \/ RestoreLock) /\ WF_vars(Restore)
  /\ WF_vars(TestLock) /\ WF_vars(Test) /\ WF_vars(Drain)

Spec == Init /\ [][Next]_vars /\ Fairness

-----------------------------------------------------------------------------
(* Properties *)

\* Every path that lets the GPU read: the reset and the suspend end elsewhere.
Queue == INSTANCE RingQueue WITH
  pending <- Unread, on <- phase \notin {"reset", "asic", "off", "dead"},
  Capacity <- Size

\* The ring is a queue: radeon_ring_alloc, the padding of radeon_ring_commit and
\* radeon_ring_undo never overwrite or skip a command that the GPU has not read,
\* whatever the lag of the read pointer's copy they compute the space from.
RingIsAQueue == Queue!Spec

Words(s, kind) == {s[i] : i \in {j \in DOMAIN s : s[j][1] = kind}}

\* The copy radeon_ring_backup makes ends with the commands the GPU has not read,
\* less at most the IB whose save was the last word read, and starts with no IB
\* that the GPU has run: a replay skips no fence and repeats no IB.
CopiesTheUnprocessed ==
  LET more == Len(data') - Len(Unread)
  IN IF more >= 0
     THEN /\ IsSuffix(Unread, data')
          /\ \A i \in 1 .. more : data'[i][1] \notin {"ib", "save", "stray"}
     ELSE /\ IsSuffix(data', Unread)
          /\ \A i \in 1 .. -more : Unread[i][1] \notin {"fence", "save"}

\* (Not on the other families if the last reset replayed commands, see below.)
BackupIsUnprocessed ==
  [][phase = "reset" /\ phase' = "asic" /\ data' # <<>> /\ (rs4xx \/ ~saved)
       => CopiesTheUnprocessed]_vars

\* The same after a replay: the replayed commands can be copied again.
ReplayCanBeCopied ==
  [][phase = "reset" /\ phase' = "asic" /\ data' # <<>> /\ saved
       => CopiesTheUnprocessed]_vars

\* What the backup copied fits the restarted ring at once: radeon_ring_restore
\* never has to wait for a fence, which would fail, needs_reset being set, and
\* lose the commands or park the device.
SavedCommandsFit == pc = "full" /\ who = "restore" /\ ready => Fits(Len(data))

\* radeon_fence_wait_next answers -ENOENT with one fence outstanding: a ring that
\* is too full for a job must always have two, or the job is refused for good.
FullRingHasFences ==
  pc = "full" /\ who = "client" /\ ~Fits(Need) => last_seq + 1 < sync_seq

\* On RS4xx a hang is not detected while a transition owns the hardware.
Undetected == rs4xx /\ hung /\ phase \in {"suspend", "test", "resume"}

\* Whatever hangs, resets, failed resets, suspends and lost copies happen, every
\* fence emitted is seen signalled, or the device is parked and signals all.
NoFenceForgotten ==
  last_seq < sync_seq ~> last_seq = sync_seq \/ phase = "dead" \/ Undetected

\* A task that waits for space under ring_lock gets it or an error, and a suspend drains
\* the ring or gives up.
WaitsEnd ==
  /\ pc \in {"full", "wait"} ~> pc \notin {"full", "wait"} \/ Undetected
  /\ phase = "suspend" ~> phase # "suspend" \/ Undetected

\* A replay starts where a packet starts.
CopyStartsAPacket ==
  phase = "asic" /\ data # <<>> => ring[At(rptr_save + Size - 1)][1] # "part"

\* No word of the copy comes from outside the ring.
CopyIsOfTheRing == Stray \notin {data[i] : i \in DOMAIN data}

\* A suspend drains the ring of an RS4xx that hangs meanwhile, or gives up.
SuspendDrains == phase = "suspend" ~> phase # "suspend"

\* A reset that a suspend found necessary is still pending after the resume.
DelayedResetIsKept == [][phase = "resume" /\ needs_reset => needs_reset']_vars
=============================================================================
