------------------------------- MODULE FenceSeq -------------------------------
(***************************************************************************)
(* The fence sequence of one ring (radeon_fence.c): the emitter counts     *)
(* fences in 64 bits, the hardware reports the finished one through a      *)
(* 32-bit cell, and any number of pollers rebuild the 64-bit number from   *)
(* three reads made at three different moments and publish it with a       *)
(* compare-exchange.  A GPU reset clears the cell, rewinds it, replays     *)
(* fences the ring has finished before, or forces the cell past everything *)
(* emitted when the ring has nothing to replay.                            *)
(***************************************************************************)
EXTENDS Seq64, FiniteSets

CONSTANTS
    Poller,      \* threads that may run radeon_fence_activity
    Counter,     \* those that do for radeon_fence_count_emitted
    Worker,      \* the one that runs the lockup work
    Resetter,    \* the one that owns the reset and may poll inside it
    Rs4xx,       \* an RS400 or RS480: resets drain and refuse the pollers
    LoopLimit,   \* 10: "if ((count_loop++) > 10)"
    CountLimit,  \* 0x10000000: the largest count of emitted fences reported
    MaxSeq,      \* bound on emitted sequences
    MaxReset     \* bound on GPU resets

ASSUME FenceSeqAssumption ==
    /\ Worker \in Poller
    /\ Resetter \in Poller \ {Worker}
    /\ Counter \subseteq Poller \ {Worker, Resetter}
    /\ Rs4xx \in BOOLEAN
    /\ LoopLimit \in Nat
    /\ CountLimit \in Nat
    /\ MaxSeq \in Word
    /\ MaxReset \in Nat

VARIABLES
    sync_seq,      \* fence_drv.sync_seq[ring]: last emitted, under ring_lock
    last_seq,      \* fence_drv.last_seq: last published, atomic64
    cell,          \* the word whose lower half the fence memory or scratch register holds
    check_queued,  \* the delayed lockup work is pending
    closed,        \* a reset holds exclusive_lock, on an RS4xx also the transition
    cleared,       \* the reset has cleared the fence memory and not yet started the ring
    forced,        \* radeon_fence_driver_force_completion ran since the last emission
    resets,
    frame,         \* the locals of each poller inside its call
    count,         \* last value radeon_fence_count_emitted returned
    reported       \* ghost: the highest sequence the hardware has reported

reset == <<closed, cleared, forced, resets>>
vars == <<sync_seq, last_seq, cell, check_queued, reset, frame, count, reported>>

Step == {"idle", "emitted", "read", "publish", "swap", "end", "count", "count_last"}

\* Where a poller is, with last_seq, last_emitted, seq and count_loop of
\* radeon_fence_activity and published_seq of radeon_fence_publish_last_seq.
Frame == [at : Step, snap : Word, emitted : Word, seq : Word, observed : Word,
          loops : 0 .. LoopLimit + 2]

Idle == [at |-> "idle", snap |-> Zero, emitted |-> Zero, seq |-> Zero,
         observed |-> Zero, loops |-> 0]

At(p, step) == frame[p].at = step

\* inside radeon_rs4xx_hardware_access_begin .. access_end
Polling(p) == frame[p].at \in {"emitted", "read", "publish", "swap", "end"}

Init ==
    /\ sync_seq = Zero
    /\ last_seq = Zero
    /\ cell = Zero
    /\ check_queued = FALSE
    /\ closed = FALSE
    /\ cleared = FALSE
    /\ forced = FALSE
    /\ resets = 0
    /\ frame = [p \in Poller |-> Idle]
    /\ count = 0
    /\ reported = Zero

(***************************************************************************)
(* The emitter and the hardware.  Fewer than 2^32 fences are outstanding:  *)
(* the ring holds far fewer and the lockup work polls twice a second.      *)
(***************************************************************************)
\* radeon_fence_emit
Emit ==
    /\ Before(sync_seq, MaxSeq)
    /\ ~cleared
    /\ Within(last_seq, Next64(sync_seq))
    /\ Within(cell, Next64(sync_seq))
    /\ sync_seq' = Next64(sync_seq)
    /\ check_queued' = TRUE
    /\ forced' = FALSE
    /\ UNCHANGED <<last_seq, cell, closed, cleared, resets, frame, count, reported>>

Report(w) == reported' = IF Before(reported, w) THEN w ELSE reported

\* The ring executes the release of a later fence.
Execute ==
    /\ ~cleared
    /\ \E w \in Between(cell, sync_seq) : cell' = w /\ Report(w)
    /\ UNCHANGED <<sync_seq, last_seq, check_queued, reset, frame, count>>

(***************************************************************************)
(* radeon_fence_activity, one shared access per step.                      *)
(***************************************************************************)
Enter(p) == frame' = [frame EXCEPT ![p] = [Idle EXCEPT !.at = "emitted", !.snap = last_seq]]

\* radeon_fence_process or radeon_fence_count_emitted, admitted
BeginPoll(p) ==
    /\ At(p, "idle")
    /\ p # Worker
    /\ closed /\ Rs4xx => p = Resetter
    /\ p = Resetter => ~cleared
    /\ Enter(p)
    /\ UNCHANGED <<sync_seq, last_seq, cell, check_queued, reset, count, reported>>

\* radeon_fence_check_lockup, admitted
BeginCheck ==
    /\ At(Worker, "idle")
    /\ check_queued
    /\ ~closed
    /\ check_queued' = FALSE
    /\ Enter(Worker)
    /\ UNCHANGED <<sync_seq, last_seq, cell, reset, count, reported>>

\* The lockup work finds the hardware closed and no delayed interrupt to serve.
CheckRefused ==
    /\ At(Worker, "idle")
    /\ check_queued
    /\ closed
    /\ check_queued' = FALSE
    /\ UNCHANGED <<sync_seq, last_seq, cell, reset, frame, count, reported>>

ReadEmitted(p) ==
    /\ At(p, "emitted")
    /\ frame' = [frame EXCEPT ![p].at = "read", ![p].emitted = sync_seq]
    /\ UNCHANGED <<sync_seq, last_seq, cell, check_queued, reset, count, reported>>

\* Mutant: the upper half is always taken from the last emitted fence.
ExtendFromEmitted(last, upto, low) == Join(upto, low)

\* The 64-bit number a poller rebuilds from the lower half it read.
Extend(last, upto, low) ==
    IF Before(Join(last, low), last) THEN Join(upto, low) ELSE Join(last, low)

\* Mutant: a sequence beyond the emitted one is published.
StaleUnbounded(p, s) == AtMost(s, frame[p].snap)

\* "if (seq <= last_seq || seq > last_emitted)"
StaleSample(p, s) == AtMost(s, frame[p].snap) \/ Before(frame[p].emitted, s)

ReadCell(p) ==
    /\ At(p, "read")
    /\ LET s == Extend(frame[p].snap, frame[p].emitted, cell.lo) IN
         IF StaleSample(p, s)
         THEN frame' = [frame EXCEPT ![p].at = "end"]
         ELSE frame' = [frame EXCEPT ![p].at = "publish", ![p].seq = s]
    /\ UNCHANGED <<sync_seq, last_seq, cell, check_queued, reset, count, reported>>

\* Whether a poller that saw last_seq has anything newer to publish.
Observe(p) ==
    frame' = [frame EXCEPT ![p].at = IF Before(last_seq, frame[p].seq) THEN "swap" ELSE "end",
                           ![p].observed = last_seq]

\* radeon_fence_publish_last_seq: the plain read
ReadPublished(p) ==
    /\ At(p, "publish")
    /\ Observe(p)
    /\ UNCHANGED <<sync_seq, last_seq, cell, check_queued, reset, count, reported>>

\* Mutant: a plain store instead of the compare-exchange.
UnracedAlways(p) == TRUE

\* nobody has published since the poller looked
Unraced(p) == last_seq = frame[p].observed

\* radeon_fence_publish_last_seq: the compare-exchange won, sample again
SwapWon(p) ==
    /\ At(p, "swap")
    /\ Unraced(p)
    /\ last_seq' = frame[p].seq
    /\ frame' = [frame EXCEPT
           ![p].at = IF frame[p].loops > LoopLimit THEN "end" ELSE "emitted",
           ![p].snap = frame[p].seq,
           ![p].loops = @ + 1]
    /\ UNCHANGED <<sync_seq, cell, check_queued, reset, count, reported>>

\* the compare-exchange lost to another publisher
SwapLost(p) ==
    /\ At(p, "swap")
    /\ ~Unraced(p)
    /\ Observe(p)
    /\ UNCHANGED <<sync_seq, last_seq, cell, check_queued, reset, count, reported>>

\* Mutant: the lockup work is re-armed only by a poll that published something.
RearmOnActivity(p) == frame[p].loops > 0 /\ Before(last_seq, frame[p].emitted)

\* the emitted sequence read earlier is not reached
Rearm(p) == Before(last_seq, frame[p].emitted)

EndPoll(p) ==
    /\ At(p, "end")
    /\ check_queued' = (check_queued \/ Rearm(p))
    /\ frame' = [frame EXCEPT
           ![p] = IF p \in Counter THEN [Idle EXCEPT !.at = "count"] ELSE Idle]
    /\ UNCHANGED <<sync_seq, last_seq, cell, reset, count, reported>>

(***************************************************************************)
(* radeon_fence_count_emitted polls, if it is admitted, and then subtracts *)
(* two numbers it reads without the ring lock, as u64.                     *)
(***************************************************************************)
CountUnpolled(p) ==
    /\ p \in Counter
    /\ At(p, "idle")
    /\ closed /\ Rs4xx
    /\ frame' = [frame EXCEPT ![p].at = "count"]
    /\ UNCHANGED <<sync_seq, last_seq, cell, check_queued, reset, count, reported>>

CountFirst(p) ==
    /\ At(p, "count")
    /\ frame' = [frame EXCEPT ![p].at = "count_last", ![p].emitted = sync_seq]
    /\ UNCHANGED <<sync_seq, last_seq, cell, check_queued, reset, count, reported>>

\* Mutant: the count is not clamped.
OutstandingUnclamped(a, b) == (Value(a) + Half * Half - Value(b)) % (Half * Half)

\* a - b in u64, clamped
Outstanding(a, b) ==
    LET distance == (Value(a) + Half * Half - Value(b)) % (Half * Half)
    IN  IF distance > CountLimit THEN CountLimit ELSE distance

CountLast(p) ==
    /\ At(p, "count_last")
    /\ count' = Outstanding(frame[p].emitted, last_seq)
    /\ frame' = [frame EXCEPT ![p] = Idle]
    /\ UNCHANGED <<sync_seq, last_seq, cell, check_queued, reset, reported>>

(***************************************************************************)
(* GPU reset.                                                              *)
(***************************************************************************)
\* Mutant: the reset waits for the holder of exclusive_lock only.
WorkerDrained == ~Polling(Worker)

\* The writer lock waits for the lockup work, radeon_rs4xx_hardware_transition_begin
\* for every admitted poller.
Drained ==
    /\ ~Polling(Worker)
    /\ Rs4xx => \A p \in Poller : ~Polling(p)

BeginReset ==
    /\ ~closed
    /\ resets < MaxReset
    /\ Drained
    /\ closed' = TRUE
    /\ resets' = resets + 1
    /\ UNCHANGED <<sync_seq, last_seq, cell, check_queued, cleared, forced, frame, count, reported>>

\* What only the owner of a reset does, outside its own polls.
InReset == closed /\ ~Polling(Resetter)

\* radeon_wb_init, by the resume inside the reset; a scratch register loses its value
ClearFences ==
    /\ InReset
    /\ cell' = Zero
    /\ cleared' = TRUE
    /\ UNCHANGED <<sync_seq, last_seq, check_queued, closed, forced, resets, frame, count, reported>>

\* radeon_fence_driver_start_ring, later in the same resume
StartRing ==
    /\ InReset
    /\ cleared
    /\ cell' = last_seq
    /\ cleared' = FALSE
    /\ UNCHANGED <<sync_seq, last_seq, check_queued, closed, forced, resets, frame, count, reported>>

\* radeon_ring_restore: the saved commands begin after the last IB that started, and
\* may release fences once more that are published already.
Replay ==
    /\ closed
    /\ ~cleared
    /\ ~forced
    /\ cell' \in {w \in [hi : 0 .. last_seq.hi, lo : 0 .. Half - 1] :
                     Before(w, last_seq) /\ Within(w, sync_seq)}
    /\ UNCHANGED <<sync_seq, last_seq, check_queued, reset, frame, count, reported>>

\* radeon_fence_driver_force_completion, for a ring with nothing to replay or, where
\* a failed reset does not park, after a failed reset: the cell is written and the
\* lockup work cancelled
ForceCompletion ==
    /\ InReset
    /\ Rs4xx => ~cleared
    /\ cell' = sync_seq
    /\ Report(sync_seq)
    /\ check_queued' = FALSE
    /\ cleared' = FALSE
    /\ forced' = TRUE
    /\ UNCHANGED <<sync_seq, last_seq, closed, resets, frame, count>>

EndCall ==
    /\ InReset
    /\ ~cleared
    /\ closed' = FALSE
    /\ UNCHANGED <<sync_seq, last_seq, cell, check_queued, cleared, forced, resets, frame, count,
                   reported>>

\* The IB ring tests have waited for the fences they emitted.
EndReset == last_seq = sync_seq /\ EndCall

\* The reset failed.  An RS4xx parks instead and reports no sequence again.
EndFailedReset == forced /\ ~Rs4xx /\ EndCall

\* a poller's steps between entering and leaving its call
Inside(p) ==
    \/ ReadEmitted(p) \/ ReadCell(p)
    \/ ReadPublished(p) \/ SwapWon(p) \/ SwapLost(p)
    \/ EndPoll(p)
    \/ CountFirst(p) \/ CountLast(p)

Next ==
    \/ Emit \/ Execute
    \/ BeginCheck \/ CheckRefused
    \/ \E p \in Poller : BeginPoll(p) \/ CountUnpolled(p) \/ Inside(p)
    \/ BeginReset \/ ClearFences \/ StartRing \/ Replay \/ ForceCompletion \/ EndReset \/ EndFailedReset

Spec == Init /\ [][Next]_vars

(***************************************************************************)
(* The timer of the delayed work fires, a thread inside a call goes on and *)
(* a reset ends once it may.  Nobody has to start a poll of their own, and *)
(* neither the emitter nor the hardware has to advance.                    *)
(***************************************************************************)
FairSpec ==
    /\ Spec
    /\ WF_vars(BeginCheck)
    /\ \A p \in Poller : WF_vars(Inside(p))
    /\ WF_vars(EndReset \/ EndFailedReset)

------------------------------------------------------------------------------
(* Properties *)

TypeOK ==
    /\ sync_seq \in Word
    /\ last_seq \in Word
    /\ cell \in Word
    /\ check_queued \in BOOLEAN
    /\ closed \in BOOLEAN
    /\ cleared \in BOOLEAN
    /\ forced \in BOOLEAN
    /\ resets \in 0 .. MaxReset
    /\ frame \in [Poller -> Frame]
    /\ count \in 0 .. CountLimit
    /\ reported \in Word

\* No fence is reported complete before the hardware reported it, whatever the
\* age of the three values a poller combines in radeon_fence_activity, and although a
\* replay reports old fences again.  An RS4xx drains the pollers before a reset clears
\* the cell; where nobody does, a cleared cell can pass for one that has wrapped.
NeverAhead == Rs4xx => AtMost(last_seq, reported)

\* The published sequence never moves back: radeon_fence_publish_last_seq lets a
\* slow publisher lose to a faster one.
Monotone == [][AtMost(last_seq, last_seq')]_vars

\* A sequence beyond the last emitted fence is never published, on any family, even
\* by a poller that read the cell while a reset rewrote it.
PublishedWasEmitted == AtMost(last_seq, sync_seq)

\* With the hardware open, outstanding fences are never left without a poll to
\* come: radeon_fence_activity re-arms the lockup work from a sync_seq it read
\* earlier, so an emission between the two must have armed it itself.
OutstandingIsWatched ==
    ~closed /\ ~check_queued /\ At(Worker, "idle") => last_seq = sync_seq

\* A fence the hardware has passed is published, by the lockup work alone if the
\* interrupt is lost and nobody polls.  (Forced completions are
\* ForcedIsPublished's.)
FinishedIsPublished ==
    \A w \in [hi : 0 .. MaxSeq.hi, lo : 0 .. Half - 1] :
        (AtMost(w, cell) /\ ~closed) ~> (AtMost(w, last_seq) \/ closed \/ forced)

\* radeon_fence.c:955: the count of emitted fences is at most slightly wrong.  It
\* cannot exceed the number of fences ever emitted.
CountIsSlightlyWrong == count <= Value(sync_seq)

\* radeon_fence.c:1216: after a failed reset no process is left waiting for a
\* fence, so what was forced complete is published.
ForcedIsPublished == forced ~> (last_seq = sync_seq \/ ~forced)

Timeline == INSTANCE FenceTimeline
    WITH emitted <- sync_seq, finished <- reported, published <- last_seq

ImplementsTimeline == Timeline!Spec
==============================================================================
