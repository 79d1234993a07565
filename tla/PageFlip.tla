------------------------------ MODULE PageFlip ------------------------------
(***************************************************************************)
(* Page flips on an RS4xx: the ioctl, the flip work, the completion in the *)
(* vblank interrupt, the release of the old buffer, the cleanup work that  *)
(* retries it, and the reset, suspend, resume or parking that quiesces all *)
(* of them.                                                                *)
(*                                                                         *)
(* Hardware admission is HardwareAdmission's: here the ioctl spends two    *)
(* steps in its transaction, the other transactions are a single step (a   *)
(* latch in the middle of one leads where a latch after it does), and the  *)
(* latch stores its flag and the PARKED state at once.  The event, the     *)
(* vblank and the page flip interrupt reference of a flip are taken and    *)
(* given back together: they are its completion.                           *)
(***************************************************************************)
EXTENDS Integers, FiniteSets

CONSTANTS
  NumCrtc,    \* rdev->num_crtc
  Buf,        \* the frame buffers
  First,      \* the one on every screen at the start
  MaxFlip,    \* bound: flips
  MaxMove,    \* bound: resets and suspends asked for
  MaxHang     \* bound: hangs, and resets that end in one

ASSUME FlipAssumption == /\ NumCrtc \in Nat \ {0} /\ First \in Buf
                         /\ MaxFlip \in Nat /\ MaxMove \in Nat /\ MaxHang \in Nat

Crtc == 1 .. NumCrtc
Flip == 1 .. MaxFlip
NoFlip == 0
Task == -1       \* a task of the system that asks for a transition
Publisher == -2  \* rs4xx_parked_publish_work
Nobody == -3

VARIABLES
  hw,          \* rs4xx_hardware_state
  owner,       \* who holds rs4xx_hardware_transition_lock, and how far it is
  needsReset,  \* rdev->needs_reset
  publish,     \* the publisher work is queued
  crtc,        \* flip_status, flip_work, primary->fb and the registers of each CRTC
  shown,       \* the frame buffers of the CRTCs hold their scanout pins
  work,        \* the radeon_flip_work of each flip
  retained,    \* rs4xx_retained_flips
  freed,       \* the flips whose work has been freed
  pins,        \* pin_count of each buffer
  cleanup,     \* rs4xx_flip_cleanup_work
  behind,      \* history: the CRTCs whose flip was given up before it was programmed
  moves, hangs

bounds == <<moves, hangs>>
buffers == <<retained, freed, pins, behind>>
vars == <<hw, owner, needsReset, publish, crtc, shown, work, buffers, cleanup, bounds>>

Blank == [pc |-> "none", crtc |-> 1, old |-> First, new |-> First,
          canceled |-> FALSE, submitted |-> FALSE, due |-> FALSE]
Unowned == [who |-> Nobody, kind |-> "none", stage |-> "none", crtc |-> 1, work |-> NoFlip]
Waiting(queued) ==
  [queued |-> queued, pc |-> "idle", crtc |-> 1, wait |-> {}, release |-> FALSE]

Init ==
  /\ hw = "running" /\ needsReset = FALSE /\ publish = FALSE /\ shown = TRUE
  /\ owner = Unowned
  /\ crtc = [c \in Crtc |-> [status |-> "none", work |-> NoFlip, fb |-> First,
                             scan |-> First, next |-> First, lit |-> TRUE]]
  /\ work = [w \in Flip |-> Blank]
  /\ retained = {} /\ freed = {} /\ behind = {}
  /\ pins = [b \in Buf |-> IF b = First THEN NumCrtc ELSE 0]
  /\ cleanup = Waiting(FALSE)
  /\ moves = 0 /\ hangs = 0

(***************************************************************************)
(* Admission and the work queues.                                          *)
(***************************************************************************)
Admitted == hw = "running" /\ owner.stage # "drain"
Moving == hw \in {"resetting", "suspending", "resuming"}
InTransaction == {w \in Flip : work[w].pc = "pinned"}
Started == {w \in Flip : work[w].pc \in {"wait", "reset", "vblank", "cancel", "decide",
                                         "release", "drop"}}
OnQueue(c) == {w \in Flip : /\ work[w].crtc = c
                            /\ w \in Started \/ work[w].pc \in {"queued", "unpin"}}

Goto(w, pc) == work' = [work EXCEPT ![w].pc = pc]
(* The cleanup work cannot be queued while it is being cancelled. *)
QueueCleanup == cleanup' = [cleanup EXCEPT !.queued = owner.stage # "await"]

(***************************************************************************)
(* radeon_crtc_page_flip_target.  The DRM core lets one ioctl at a time    *)
(* into a CRTC.                                                            *)
(***************************************************************************)
FlipBegin(w, c, b) ==
  /\ work[w].pc = "none" /\ \A v \in 1 .. w - 1 : work[v].pc # "none"
  /\ Admitted /\ crtc[c].status = "none"
  /\ \A v \in InTransaction : work[v].crtc # c
  /\ work' = [work EXCEPT ![w].pc = "pinned", ![w].crtc = c,
                          ![w].old = crtc[c].fb, ![w].new = b]
  /\ pins' = [pins EXCEPT ![b] = @ + 1]
  /\ UNCHANGED <<hw, owner, needsReset, publish, crtc, shown, retained, freed, behind,
                 cleanup, bounds>>

FlipAttach(w) ==
  /\ work[w].pc = "pinned" /\ hw = "running"
  /\ work' = [work EXCEPT ![w].pc = "queued", ![w].due = TRUE]
  /\ crtc' = [crtc EXCEPT ![work[w].crtc].status = "pending", ![work[w].crtc].work = w,
                          ![work[w].crtc].fb = work[w].new]
  /\ UNCHANGED <<hw, owner, needsReset, publish, shown, buffers, cleanup, bounds>>

(* mutant: the new buffer stays pinned. *)
FlipRefusedPinned(w) ==
  /\ work[w].pc = "pinned" /\ hw # "running"
  /\ work' = [work EXCEPT ![w] = [Blank EXCEPT !.pc = "refused"]]
  /\ UNCHANGED <<hw, owner, needsReset, publish, crtc, shown, buffers, cleanup, bounds>>

(* Parked: the interrupt reference is refused, and the ioctl fails. *)
FlipRefused(w) ==
  /\ work[w].pc = "pinned" /\ hw # "running"
  /\ work' = [work EXCEPT ![w] = [Blank EXCEPT !.pc = "refused"]]
  /\ pins' = [pins EXCEPT ![work[w].new] = @ - 1]
  /\ UNCHANGED <<hw, owner, needsReset, publish, crtc, shown, retained, freed, behind,
                 cleanup, bounds>>

(***************************************************************************)
(* radeon_page_flip_finalize_retained: every retained flip gives up its    *)
(* completion, and if its buffer may be released, may is TRUE, and no      *)
(* reservation is busy, its work is freed with the old buffer's pin.  What *)
(* still runs of a freed work stays on the queue of its CRTC.              *)
(***************************************************************************)
Spent(w) == [Blank EXCEPT !.pc = work[w].pc,
                          !.crtc = IF w \in Started THEN work[w].crtc ELSE @]
Finalized(S) == [w \in Flip |->
  IF w \in S THEN Spent(w)
  ELSE IF w \in retained THEN [work[w] EXCEPT !.due = FALSE] ELSE work[w]]
Releasable(may) == IF may THEN SUBSET retained ELSE {{}}
Release(S) ==
  /\ retained' = retained \ S /\ freed' = freed \cup S
  /\ pins' = [b \in Buf |-> pins[b] - Cardinality({w \in S : work[w].old = b})]
  /\ behind' = behind \cup {work[w].crtc : w \in {v \in S : /\ ~work[v].submitted
                                          /\ crtc[work[v].crtc].scan = work[v].old}}

Detached(w) == [crtc EXCEPT ![work[w].crtc].status = "none", ![work[w].crtc].work = NoFlip]
Attached(w) == crtc[work[w].crtc].work = w

(***************************************************************************)
(* radeon_flip_work_func.                                                  *)
(***************************************************************************)
FlipStart(w) ==
  /\ work[w].pc = "queued" /\ Goto(w, "wait")
  /\ UNCHANGED <<hw, owner, needsReset, publish, crtc, shown, buffers, cleanup, bounds>>

Resumed(w) == IF work[w].canceled THEN "cancel" ELSE "vblank"

FlipWaited(w) ==
  /\ work[w].pc = "wait" /\ Goto(w, Resumed(w))
  /\ UNCHANGED <<hw, owner, needsReset, publish, crtc, shown, buffers, cleanup, bounds>>

FlipHung(w) ==
  /\ work[w].pc = "wait" /\ ~work[w].canceled /\ needsReset /\ hw = "running"
  /\ Goto(w, "reset")
  /\ UNCHANGED <<hw, owner, needsReset, publish, crtc, shown, buffers, cleanup, bounds>>

(* radeon_gpu_reset of the flip work finds the device moved or parked. *)
FlipNoReset(w) ==
  /\ work[w].pc = "reset" /\ owner.who = Nobody /\ hw # "running"
  /\ Goto(w, Resumed(w))
  /\ UNCHANGED <<hw, owner, needsReset, publish, crtc, shown, buffers, cleanup, bounds>>

FlipProgram(w) ==
  /\ work[w].pc = "vblank" /\ Admitted /\ ~work[w].canceled
  /\ work' = [work EXCEPT ![w].pc = "done", ![w].submitted = TRUE]
  /\ crtc' = [crtc EXCEPT ![work[w].crtc].status = "submitted",
                          ![work[w].crtc].next = work[w].new]
  /\ behind' = IF crtc[work[w].crtc].scan = work[w].new THEN behind \ {work[w].crtc} ELSE behind
  /\ UNCHANGED <<hw, owner, needsReset, publish, shown, retained, freed, pins, cleanup, bounds>>

FlipShut(w) ==
  /\ work[w].pc = "vblank" /\ (~Admitted \/ work[w].canceled)
  /\ Goto(w, "cancel")
  /\ UNCHANGED <<hw, owner, needsReset, publish, crtc, shown, buffers, cleanup, bounds>>

(* radeon_flip_work_cancel, with radeon_flip_work_quiesce_one. *)
FlipCancel(w) ==
  /\ work[w].pc = "cancel"
  /\ work' = [work EXCEPT ![w].pc = IF Attached(w) THEN "decide" ELSE "done",
                          ![w].canceled = TRUE]
  /\ IF Attached(w)
       THEN crtc' = Detached(w) /\ retained' = retained \cup {w}
       ELSE UNCHANGED <<crtc, retained>>
  /\ UNCHANGED <<hw, owner, needsReset, publish, shown, freed, pins, behind, cleanup, bounds>>

FlipDecide(w) ==
  /\ work[w].pc = "decide"
  /\ Goto(w, CASE hw = "running" -> "release" [] hw = "parked" -> "drop" [] OTHER -> "left")
  /\ UNCHANGED <<hw, owner, needsReset, publish, crtc, shown, buffers, cleanup, bounds>>

FlipRelease(w) ==
  /\ work[w].pc \in {"release", "drop"}
  /\ \E S \in Releasable(work[w].pc = "release" /\ Admitted) :
       /\ Release(S)
       /\ work' = [Finalized(S) EXCEPT ![w].pc = "done"]
       /\ IF work[w].pc = "release" /\ S # retained THEN QueueCleanup ELSE UNCHANGED cleanup
  /\ UNCHANGED <<hw, owner, needsReset, publish, crtc, shown, bounds>>

(***************************************************************************)
(* The CRTC takes the programmed buffer over in a vblank; the interrupt    *)
(* completes the flip and leaves the rest to the unpin work.               *)
(***************************************************************************)
Latch(c) ==
  /\ crtc[c].lit /\ crtc[c].scan # crtc[c].next
  /\ crtc' = [crtc EXCEPT ![c].scan = crtc[c].next]
  /\ behind' = behind \ {c}
  /\ UNCHANGED <<hw, owner, needsReset, publish, shown, work, retained, freed, pins,
                 cleanup, bounds>>

HandleFlip(c) ==
  LET w == crtc[c].work IN
    /\ hw = "running" /\ crtc[c].status = "submitted" /\ crtc[c].scan = crtc[c].next
    /\ crtc' = Detached(w)
    /\ work' = [work EXCEPT ![w].pc = "unpin", ![w].due = FALSE]
    /\ UNCHANGED <<hw, owner, needsReset, publish, shown, buffers, cleanup, bounds>>

(* mutant: a refused release is not retained. *)
UnpinOnce(w) ==
  /\ work[w].pc = "unpin"
  /\ \/ /\ Admitted /\ Release({w}) /\ UNCHANGED cleanup
        /\ work' = [work EXCEPT ![w] = [Blank EXCEPT !.pc = "done"]]
     \/ QueueCleanup /\ Goto(w, "done") /\ UNCHANGED buffers
  /\ UNCHANGED <<hw, owner, needsReset, publish, crtc, shown, bounds>>

Unpin(w) ==
  /\ work[w].pc = "unpin"
  /\ \/ /\ Admitted /\ Release({w}) /\ UNCHANGED cleanup
        /\ work' = [work EXCEPT ![w] = [Blank EXCEPT !.pc = "done"]]
     \/ /\ retained' = retained \cup {w} /\ QueueCleanup /\ Goto(w, "done")
        /\ UNCHANGED <<freed, pins, behind>>
  /\ UNCHANGED <<hw, owner, needsReset, publish, crtc, shown, bounds>>

(***************************************************************************)
(* radeon_page_flip_cleanup_work.                                          *)
(***************************************************************************)
Items(c) == {<<w, work[w].pc = "unpin">> : w \in OnQueue(c)}

CleanupStart ==
  /\ cleanup.queued /\ cleanup.pc = "idle"
  /\ cleanup' = [cleanup EXCEPT !.queued = FALSE, !.pc = "flush", !.crtc = 1, !.wait = Items(1)]
  /\ UNCHANGED <<hw, owner, needsReset, publish, crtc, shown, work, buffers, bounds>>

CleanupFlush ==
  LET c == cleanup.crtc IN
    /\ cleanup.pc = "flush" /\ cleanup.wait \cap Items(c) = {}
    /\ cleanup' = IF c < NumCrtc
         THEN [cleanup EXCEPT !.crtc = c + 1, !.wait = Items(c + 1)]
         ELSE IF Moving THEN Waiting(owner.stage # "await")
              ELSE [cleanup EXCEPT !.pc = "finalize", !.crtc = 1, !.wait = {},
                                   !.release = hw = "running"]
    /\ UNCHANGED <<hw, owner, needsReset, publish, crtc, shown, work, buffers, bounds>>

CleanupFinalize ==
  /\ cleanup.pc = "finalize"
  /\ \E S \in Releasable(cleanup.release /\ Admitted) :
       /\ Release(S) /\ work' = Finalized(S)
       /\ cleanup' = Waiting(\/ cleanup.queued
                             \/ cleanup.release /\ S # retained /\ owner.stage # "await")
  /\ UNCHANGED <<hw, owner, needsReset, publish, crtc, shown, bounds>>

(***************************************************************************)
(* The transitions.  Their owner drains the transactions, shuts the        *)
(* hardware, cancels the cleanup work and quiesces the flips of one CRTC   *)
(* after the other.                                                        *)
(***************************************************************************)
Shut == [reset |-> "resetting", suspend |-> "suspending", resume |-> "resuming"]
Stage(s) == owner' = [owner EXCEPT !.stage = s]

(* The owner gives the lock back; a flip work goes on behind its reset. *)
Leave(ws, again) ==
  /\ owner' = Unowned
  /\ work' = IF owner.who \in Flip
               THEN [ws EXCEPT ![owner.who].pc = IF again THEN "reset" ELSE Resumed(owner.who)]
               ELSE ws

OwnerBegin(who, kind) ==
  /\ owner.who = Nobody /\ hw = (IF kind = "resume" THEN "suspended" ELSE "running")
  /\ IF who = Task /\ kind # "resume" THEN moves < MaxMove /\ moves' = moves + 1
                                        ELSE UNCHANGED moves
  /\ who \in Flip => kind = "reset" /\ work[who].pc = "reset"
  /\ kind = "reset" => hangs > 0
  /\ owner' = [Unowned EXCEPT !.who = who, !.kind = kind, !.stage = "drain"]
  /\ UNCHANGED <<hw, needsReset, publish, crtc, shown, work, buffers, cleanup, hangs>>

(* mutant: the transactions are not drained. *)
OwnerDrainedEarly ==
  /\ owner.stage = "drain"
  /\ IF hw = "parked" THEN Leave(work, FALSE) /\ UNCHANGED hw
     ELSE /\ hw' = Shut[owner.kind] /\ UNCHANGED work
          /\ Stage(CASE owner.kind = "reset" -> "check" [] owner.kind = "suspend" -> "cancel"
                     [] owner.kind = "resume" -> "restore")
  /\ UNCHANGED <<needsReset, publish, crtc, shown, buffers, cleanup, bounds>>

OwnerDrained ==
  /\ owner.stage = "drain" /\ InTransaction = {}
  /\ IF hw = "parked" THEN Leave(work, FALSE) /\ UNCHANGED hw
     ELSE /\ hw' = Shut[owner.kind] /\ UNCHANGED work
          /\ Stage(CASE owner.kind = "reset" -> "check" [] owner.kind = "suspend" -> "cancel"
                     [] owner.kind = "resume" -> "restore")
  /\ UNCHANGED <<needsReset, publish, crtc, shown, buffers, cleanup, bounds>>

(* radeon_gpu_reset_internal under the writer lock: somebody may have reset already. *)
OwnerCheck ==
  /\ owner.stage = "check"
  /\ IF hw = "parked" THEN Leave(work, FALSE) /\ UNCHANGED hw
     ELSE IF needsReset THEN Stage("cancel") /\ UNCHANGED <<hw, work>>
     ELSE hw' = "running" /\ Leave(work, FALSE)
  /\ UNCHANGED <<needsReset, publish, crtc, shown, buffers, cleanup, bounds>>

(* cancel_delayed_work_sync: the cleanup work is taken off its queue, then awaited. *)
CancelCleanup ==
  /\ owner.stage = "cancel" /\ Stage("await")
  /\ cleanup' = [cleanup EXCEPT !.queued = FALSE]
  /\ UNCHANGED <<hw, needsReset, publish, crtc, shown, work, buffers, bounds>>

AwaitCleanup ==
  /\ owner.stage = "await" /\ cleanup.pc = "idle" /\ Stage("quiesce")
  /\ UNCHANGED <<hw, needsReset, publish, crtc, shown, work, buffers, cleanup, bounds>>

(* radeon_page_flip_quiesce. *)
AfterQuiesce == [reset |-> "restore", suspend |-> "dark", publish |-> "drop"]
Advance == owner' = IF owner.crtc < NumCrtc
                      THEN [owner EXCEPT !.stage = "quiesce", !.crtc = @ + 1]
                      ELSE [owner EXCEPT !.stage = AfterQuiesce[owner.kind], !.crtc = 1]

QuiesceMark ==
  LET w == crtc[owner.crtc].work IN
    /\ owner.stage = "quiesce"
    /\ IF w = NoFlip THEN Stage("flush") /\ UNCHANGED work
       ELSE /\ work' = [work EXCEPT ![w].canceled = TRUE]
            /\ IF w = owner.who THEN Advance
               ELSE owner' = [owner EXCEPT !.stage = "sync", !.work = w]
    /\ UNCHANGED <<hw, needsReset, publish, crtc, shown, buffers, cleanup, bounds>>

QuiesceSync ==
  LET w == owner.work IN
    /\ owner.stage = "sync" /\ w \notin Started
    /\ work' = IF work[w].pc = "queued" THEN [work EXCEPT ![w].pc = "done"] ELSE work
    /\ IF Attached(w) THEN crtc' = Detached(w) /\ retained' = retained \cup {w}
                      ELSE UNCHANGED <<crtc, retained>>
    /\ owner' = [owner EXCEPT !.stage = "flush", !.work = NoFlip]
    /\ UNCHANGED <<hw, needsReset, publish, shown, freed, pins, behind, cleanup, bounds>>

QuiesceFlush ==
  /\ owner.stage = "flush" /\ OnQueue(owner.crtc) = {}
  /\ Advance
  /\ UNCHANGED <<hw, needsReset, publish, crtc, shown, work, buffers, cleanup, bounds>>

(* The end of a reset: the mode is set again, from the pin each frame buffer has. *)
OwnerRestore ==
  /\ owner.stage = "restore" /\ hw # "parked"
  /\ owner.kind = "reset" => \A c \in Crtc : pins[crtc[c].fb] > 0
  /\ crtc' = [c \in Crtc |-> [crtc[c] EXCEPT !.scan = crtc[c].fb, !.next = crtc[c].fb,
                                             !.lit = TRUE]]
  /\ behind' = {} /\ shown' = TRUE
  /\ IF owner.kind = "reset"
       THEN needsReset' = FALSE /\ UNCHANGED pins
       ELSE /\ UNCHANGED needsReset
            /\ pins' = [b \in Buf |-> pins[b] + Cardinality({c \in Crtc : crtc[c].fb = b})]
  /\ Stage(IF owner.kind = "reset" THEN "final" ELSE "end")
  /\ UNCHANGED <<hw, publish, work, retained, freed, cleanup, bounds>>

OwnerFinal ==
  /\ owner.stage = "final"
  /\ \E S \in Releasable(hw # "parked") :
       /\ Release(S) /\ work' = Finalized(S)
       /\ IF S # retained \/ owner.who \in Flip THEN QueueCleanup ELSE UNCHANGED cleanup
  /\ Stage("end")
  /\ UNCHANGED <<hw, needsReset, publish, crtc, shown, bounds>>

(* The IB tests may find the device hung again. *)
OwnerEnd ==
  /\ owner.stage = "end" /\ hw # "parked"
  /\ hw' = "running"
  /\ \/ Leave(work, FALSE) /\ UNCHANGED <<needsReset, hangs>>
     \/ /\ owner.kind = "reset" /\ hangs < MaxHang /\ hangs' = hangs + 1
        /\ needsReset' = TRUE /\ Leave(work, TRUE)
  /\ IF owner.kind = "resume" THEN QueueCleanup ELSE UNCHANGED cleanup
  /\ UNCHANGED <<publish, crtc, shown, buffers, moves>>

(* radeon_suspend_kms: the displays go dark, or some of them do not. *)
OwnerDark ==
  /\ owner.stage = "dark"
  /\ \E D \in SUBSET Crtc :
       crtc' = [c \in Crtc |-> [crtc[c] EXCEPT !.lit = c \in D]]
  /\ Stage("release")
  /\ UNCHANGED <<hw, needsReset, publish, shown, work, buffers, cleanup, bounds>>

AllDark == \A c \in Crtc : ~crtc[c].lit

(* mutant: the displays are taken to be dark. *)
OwnerReleaseLit ==
  /\ owner.stage = "release"
  /\ \E S \in Releasable(hw # "parked") :
       /\ Release(S) /\ work' = Finalized(S)
       /\ Stage(IF S = retained THEN "unpin" ELSE "relight")
  /\ UNCHANGED <<hw, needsReset, publish, crtc, shown, cleanup, bounds>>

OwnerRelease ==
  /\ owner.stage = "release"
  /\ \E S \in Releasable(AllDark /\ hw # "parked") :
       /\ Release(S) /\ work' = Finalized(S)
       /\ Stage(IF AllDark /\ S = retained THEN "unpin" ELSE "relight")
  /\ UNCHANGED <<hw, needsReset, publish, crtc, shown, cleanup, bounds>>

(* radeon_suspend_release_scanout_pins: all of them, or none. *)
OwnerUnpin ==
  /\ owner.stage = "unpin"
  /\ \/ /\ \A b \in Buf : pins[b] >= Cardinality({c \in Crtc : crtc[c].fb = b})
        /\ pins' = [b \in Buf |-> pins[b] - Cardinality({c \in Crtc : crtc[c].fb = b})]
        /\ shown' = FALSE /\ Stage("off")
     \/ Stage("relight") /\ UNCHANGED <<pins, shown>>
  /\ UNCHANGED <<hw, needsReset, publish, crtc, work, retained, freed, behind, cleanup, bounds>>

OwnerRelight ==
  /\ owner.stage = "relight" /\ hw # "parked"
  /\ crtc' = [c \in Crtc |-> [crtc[c] EXCEPT !.lit = TRUE, !.scan = crtc[c].next]]
  /\ behind' = behind \ {c \in Crtc : crtc[c].scan # crtc[c].next}
  /\ hw' = "running" /\ Leave(work, FALSE) /\ QueueCleanup
  /\ UNCHANGED <<needsReset, publish, shown, retained, freed, pins, bounds>>

OwnerOff ==
  /\ owner.stage = "off" /\ hw # "parked"
  /\ hw' = "suspended" /\ Leave(work, FALSE)
  /\ UNCHANGED <<needsReset, publish, crtc, shown, buffers, cleanup, bounds>>

(* A step of the transition fails, or finds the device parked. *)
OwnerParks ==
  /\ owner.stage \in {"restore", "end", "relight", "off"}
  /\ hw' = "parked" /\ needsReset' = FALSE
  /\ owner' = [owner EXCEPT !.kind = "publish", !.stage = "quiesce", !.crtc = 1]
  /\ UNCHANGED <<publish, crtc, shown, work, buffers, cleanup, bounds>>

(* radeon_resume_kms: the PCI device cannot be enabled. *)
OwnerStays ==
  /\ owner.kind = "resume" /\ owner.stage = "restore" /\ hw # "parked"
  /\ hw' = "suspended" /\ Leave(work, FALSE)
  /\ UNCHANGED <<needsReset, publish, crtc, shown, buffers, cleanup, bounds>>

(* radeon_rs4xx_publish_parked_state, by an owner or the publisher work. *)
PublishBegin ==
  /\ publish /\ owner.who = Nobody /\ InTransaction = {}
  /\ publish' = FALSE
  /\ owner' = [Unowned EXCEPT !.who = Publisher, !.kind = "publish", !.stage = "quiesce"]
  /\ UNCHANGED <<hw, needsReset, crtc, shown, work, buffers, cleanup, bounds>>

(* mutant: a parked device keeps the completions. *)
PublishKeeps ==
  /\ owner.stage = "drop"
  /\ Leave(work, FALSE)
  /\ UNCHANGED <<hw, needsReset, publish, crtc, shown, buffers, cleanup, bounds>>

PublishDrop ==
  /\ owner.stage = "drop"
  /\ Leave(Finalized({}), FALSE)
  /\ UNCHANGED <<hw, needsReset, publish, crtc, shown, buffers, cleanup, bounds>>

(* A terminal latch from anywhere; the lockup worker finds a hang. *)
Park ==
  /\ hw # "parked"
  /\ hw' = "parked" /\ publish' = TRUE /\ needsReset' = FALSE
  /\ UNCHANGED <<owner, crtc, shown, work, buffers, cleanup, bounds>>

Hang ==
  /\ hw = "running" /\ ~needsReset /\ hangs < MaxHang
  /\ needsReset' = TRUE /\ hangs' = hangs + 1
  /\ UNCHANGED <<hw, owner, publish, crtc, shown, work, buffers, cleanup, moves>>

(***************************************************************************)
(* The system.                                                             *)
(***************************************************************************)
Kind == {"reset", "suspend", "resume"}

FlipWork(w) == \/ FlipAttach(w) \/ FlipRefused(w) \/ FlipStart(w) \/ FlipWaited(w)
               \/ FlipNoReset(w) \/ FlipProgram(w) \/ FlipShut(w)
               \/ FlipCancel(w) \/ FlipDecide(w) \/ FlipRelease(w) \/ Unpin(w)
               \/ OwnerBegin(w, "reset")
Cleanup == CleanupStart \/ CleanupFlush \/ CleanupFinalize
OwnerStep == \/ OwnerDrained \/ OwnerCheck \/ CancelCleanup
             \/ AwaitCleanup \/ QuiesceMark \/ QuiesceSync \/ QuiesceFlush
             \/ OwnerRestore \/ OwnerFinal \/ OwnerEnd
             \/ OwnerDark \/ OwnerRelease \/ OwnerUnpin \/ OwnerRelight \/ OwnerOff
             \/ OwnerParks \/ OwnerStays \/ PublishDrop

Next == \/ \E w \in Flip, c \in Crtc, b \in Buf : FlipBegin(w, c, b)
        \/ \E w \in Flip : FlipWork(w) \/ FlipHung(w)
        \/ \E c \in Crtc : Latch(c) \/ HandleFlip(c)
        \/ Cleanup
        \/ \E kind \in Kind : OwnerBegin(Task, kind)
        \/ OwnerStep \/ PublishBegin \/ Park \/ Hang

Spec == Init /\ [][Next]_vars

(* The queues and the owner of a transition go on, the screen is refreshed *)
(* and its interrupt arrives, fences signal.  Nothing has to begin, hang   *)
(* or park.                                                                *)
Fairness ==
  /\ \A w \in Flip : WF_vars(FlipWork(w))
  /\ \A c \in Crtc : WF_vars(Latch(c) \/ HandleFlip(c))
  /\ WF_vars(Cleanup) /\ WF_vars(OwnerStep \/ PublishBegin)
FairSpec == Spec /\ Fairness

(***************************************************************************)
(* Properties.                                                             *)
(***************************************************************************)
Pc == {"none", "pinned", "refused", "queued", "wait", "reset", "vblank", "done",
       "cancel", "decide", "release", "drop", "left", "unpin"}

(* The types of the device, the CRTCs, the flips and the cleanup work. *)
TypeOK ==
  /\ hw \in {"running", "resetting", "suspending", "suspended", "resuming", "parked"}
  /\ owner.who \in Flip \cup {Task, Publisher, Nobody}
  /\ owner.crtc \in Crtc /\ owner.work \in Flip \cup {NoFlip}
  /\ {needsReset, publish, shown} \subseteq BOOLEAN
  /\ crtc \in [Crtc -> [status : {"none", "pending", "submitted"}, work : Flip \cup {NoFlip},
                        fb : Buf, scan : Buf, next : Buf, lit : BOOLEAN]]
  /\ work \in [Flip -> [pc : Pc, crtc : Crtc, old : Buf, new : Buf, canceled : BOOLEAN,
                        submitted : BOOLEAN, due : BOOLEAN]]
  /\ retained \subseteq Flip /\ freed \subseteq Flip /\ behind \subseteq Crtc
  /\ pins \in [Buf -> Nat]

Accepted == {w \in Flip : work[w].pc \notin {"none", "pinned", "refused"}}

(* Every flip the ioctl accepted is in one place: attached to its CRTC,    *)
(* waiting for the unpin work, retained, or freed.  Completion, cancel,    *)
(* quiesce and cleanup hand it on without losing it or owning it twice.    *)
OnePlace ==
  \A w \in Accepted :
    Cardinality({p \in {"attached", "unpin", "retained", "freed"} :
                   CASE p = "attached" -> Attached(w) [] p = "unpin" -> work[w].pc = "unpin"
                     [] p = "retained" -> w \in retained [] p = "freed" -> w \in freed}) = 1

(* A buffer has the pins of the CRTCs that show it as their frame buffer,  *)
(* of the flips away from it that are not freed, and of the ioctls that    *)
(* are bringing it on: none is leaked or dropped twice, whatever retains,  *)
(* releases, suspends or parks.                                            *)
PinsBalance ==
  /\ TypeOK
  /\ \A b \in Buf :
       pins[b] = Cardinality({c \in Crtc : shown /\ crtc[c].fb = b})
                 + Cardinality({w \in Accepted \ freed : work[w].old = b})
                 + Cardinality({w \in InTransaction : work[w].new = b})

(* The buffer a lit CRTC scans, and the one it is about to scan, stay      *)
(* pinned, but for a CRTC whose flip was given up before it was programmed.*)
ScanoutStaysPinned ==
  \A c \in Crtc \ behind : crtc[c].lit => pins[crtc[c].scan] > 0 /\ pins[crtc[c].next] > 0

Quiesced == owner.stage \in {"restore", "final", "end", "dark", "release", "unpin", "off",
                             "relight", "drop"}

(* After radeon_page_flip_quiesce no flip is attached, queued or running   *)
(* but the owner's own, and none can come: what the owner does to the      *)
(* display meets no flip.  Only on the CRTC of the owner's own flip, whose *)
(* queue it cannot flush, works may be left that are past the display: an  *)
(* unpin work, or a cancelled flip about to release its buffer.            *)
QuiesceIsComplete ==
  Quiesced => /\ \A c \in Crtc : crtc[c].work \in {NoFlip, owner.who}
              /\ \A c \in Crtc : \A w \in OnQueue(c) \ {owner.who} :
                   /\ work[w].pc \in {"unpin", "decide", "release", "drop"}
                   /\ owner.who \in OnQueue(c)
              /\ InTransaction = {}

(* A work that has been freed is not used again. *)
FreedIsUnused == \A w \in freed : work[w].pc \notin {"decide", "unpin"} /\ ~Attached(w)

(* The owner of the transition waits for a flip work, or for the cleanup   *)
(* work that waits for one, which waits for the owner's lock in its own    *)
(* radeon_gpu_reset.                                                       *)
Entangled ==
  LET Blocked == {w \in Flip : work[w].pc = "reset"} IN
    \/ owner.stage = "sync" /\ owner.work \in Blocked
    \/ owner.stage = "flush" /\ OnQueue(owner.crtc) \cap Blocked # {}
    \/ owner.stage = "await" /\ cleanup.pc = "flush"
       /\ \E item \in cleanup.wait : item[1] \in Blocked

(* A flip that left its release to a reset which then had nothing to do. *)
Stranded(w) == work[w].pc = "left" /\ w \in retained /\ hw = "running"

(* Every flip that is accepted sends its event and gives its interrupt     *)
(* back, completed, cancelled or parked, so that again and again none is   *)
(* due, unless one is stranded or the owner is entangled.                  *)
FlipsEnd == []<>(\A w \in Flip : ~work[w].due \/ Stranded(w) \/ Entangled)

(* radeon_display.c:942: "Lifecycle cancellation retains the old scanout   *)
(* pin until display disable proves that neither buffer feeds the CRTC."   *)
OldPinIsRetained == \A c \in Crtc : crtc[c].lit => pins[crtc[c].scan] > 0

(* Quiescing the flips ends (docs/rs4xx-failed-reset-hardware-containment, *)
(* "Page-flip quiescence ... detaches queued work").                       *)
QuiesceEnds == (owner.stage = "await") ~> Quiesced

(* As FlipsEnd, for the flips a transition finds nothing to do for. *)
NothingStrands == \A w \in Flip : ~(Stranded(w) /\ work[w].due /\ owner.who = Nobody
                                    /\ ~cleanup.queued /\ cleanup.pc = "idle")
=============================================================================
