---------------------------- MODULE PageFlipProofs ----------------------------
(***************************************************************************)
(* The invariant behind the safety of page flips, for any number of CRTCs, *)
(* frame buffers, flips, transitions and hangs, and the proofs that every  *)
(* flip and every pin has one owner, that quiescing the flips is complete  *)
(* and that what a CRTC scans stays pinned.                                *)
(***************************************************************************)
EXTENDS PageFlip, FiniteSetTheorems, TLAPS

-----------------------------------------------------------------------------
(* The inductive invariant *)

\* The radeon_flip_work of a flip.
WorkRec == [pc : Pc, crtc : Crtc, old : Buf, new : Buf, canceled : BOOLEAN,
            submitted : BOOLEAN, due : BOOLEAN]
\* What a CRTC keeps of its flip and its display.
CrtcRec == [status : {"none", "pending", "submitted"}, work : Flip \cup {NoFlip},
            fb : Buf, scan : Buf, next : Buf, lit : BOOLEAN]
\* Where the owner of a transition may stand.
Stages == {"none", "drain", "check", "cancel", "await", "quiesce", "sync", "flush", "restore",
           "final", "end", "dark", "release", "unpin", "off", "relight", "drop"}
\* The owner of the transition lock.
OwnerRec == [who : Flip \cup {Task, Publisher, Nobody}, kind : Kind \cup {"none", "publish"},
             stage : Stages, crtc : Crtc, work : Flip \cup {NoFlip}]

\* Every variable has its type; pins are counted in PinsBalance.
Typed ==
  /\ hw \in {"running", "resetting", "suspending", "suspended", "resuming", "parked"}
  /\ owner \in OwnerRec /\ crtc \in [Crtc -> CrtcRec] /\ work \in [Flip -> WorkRec]
  /\ needsReset \in BOOLEAN /\ publish \in BOOLEAN /\ shown \in BOOLEAN
  /\ retained \subseteq Flip /\ freed \subseteq Flip /\ behind \subseteq Crtc

\* The owner of a transition has drained the transactions.
Moved == owner.stage \notin {"none", "drain"}
\* The stages each kind of transition passes, and the state of the hardware in each.
StageInv ==
  /\ owner.who = Nobody <=> owner.stage = "none"
  /\ owner.kind = "none" <=> owner.stage = "none"
  /\ owner.kind = "reset" =>
       owner.stage \in {"drain", "check", "cancel", "await", "quiesce", "sync", "flush",
                        "restore", "final", "end"}
  /\ owner.kind = "suspend" =>
       owner.stage \in {"drain", "cancel", "await", "quiesce", "sync", "flush", "dark",
                        "release", "unpin", "off", "relight"}
  /\ owner.kind = "resume" => owner.stage \in {"drain", "restore", "end"}
  /\ owner.kind = "publish" => owner.stage \in {"quiesce", "sync", "flush", "drop"}
  /\ owner.stage = "none" => hw \in {"running", "suspended", "parked"}
  /\ owner.stage = "drain" =>
       hw \in {IF owner.kind = "resume" THEN "suspended" ELSE "running", "parked"}
  /\ Moved /\ owner.kind = "reset" => hw \in {"resetting", "parked"}
  /\ Moved /\ owner.kind = "suspend" => hw \in {"suspending", "parked"}
  /\ Moved /\ owner.kind = "resume" => hw \in {"resuming", "parked"}
  /\ owner.kind = "publish" \/ publish => hw = "parked"
\* A work that owns a transition waits in its radeon_gpu_reset; once the transactions are
\* drained no ioctl is in one.
OwnerInv ==
  /\ StageInv
  /\ owner.who \in Flip => owner.kind \in {"reset", "publish"} /\ work[owner.who].pc = "reset"
  /\ Moved \/ hw = "suspended" => InTransaction = {}

\* Where a work is that has its flip still to program or to cancel.
Pending == {"queued", "wait", "reset", "vblank", "cancel"}
\* Where a work is that has cancelled its flip.
Past == {"decide", "release", "drop", "left"}
\* A CRTC is attached to a flip to the frame buffer it shows, pending until the work has
\* programmed it.
AttachedInv ==
  \A c \in Crtc : LET w == crtc[c].work IN
    \/ w = NoFlip /\ crtc[c].status = "none"
    \/ /\ w # NoFlip /\ work[w].crtc = c /\ w \notin retained \cup freed
       /\ crtc[c].fb = work[w].new
       /\ \/ crtc[c].status = "pending" /\ ~work[w].submitted /\ work[w].pc \in Pending
          \/ crtc[c].status = "submitted" /\ work[w].pc = "done"
\* Where a work stands tells which of its places the flip is in.
PlaceInv ==
  /\ \A w \in Flip :
       /\ work[w].pc \in Pending => Attached(w)
       /\ work[w].pc = "done" => Attached(w) \/ w \in retained \cup freed
       /\ work[w].pc \in Past => w \in retained \cup freed
       /\ work[w].pc \in {"none", "pinned", "refused", "unpin"} => w \notin retained \cup freed
       /\ work[w].pc \in {"none", "pinned"} => ~work[w].submitted
  /\ retained \cap freed = {}
\* Between its two steps an ioctl has its CRTC to itself and remembers the frame buffer it
\* is to replace.
PinnedInv ==
  /\ \A w \in Flip : work[w].pc = "pinned" =>
       crtc[work[w].crtc].status = "none" /\ work[w].old = crtc[work[w].crtc].fb
  /\ \A v, w \in Flip :
       work[v].pc = "pinned" /\ work[w].pc = "pinned" /\ work[v].crtc = work[w].crtc => v = w

\* Nothing is left to quiesce on a CRTC: only the flip of the owner is attached, and only
\* works past the display are queued behind it.
Quiet(c) ==
  /\ crtc[c].work \in {NoFlip, owner.who}
  /\ \A w \in OnQueue(c) \ {owner.who} :
       /\ work[w].pc \in {"unpin", "decide", "release", "drop"}
       /\ owner.who \in OnQueue(c)
\* The CRTCs before the one being quiesced are quiet, all of them afterwards.
QuietInv ==
  /\ owner.stage \in {"drain", "check", "cancel", "await"} => owner.crtc = 1
  /\ owner.stage \in {"quiesce", "sync", "flush"} => \A c \in 1 .. owner.crtc - 1 : Quiet(c)
  /\ owner.stage = "sync" => owner.work # NoFlip /\ crtc[owner.crtc].work \in {NoFlip, owner.work}
  /\ owner.stage = "flush" => crtc[owner.crtc].work = NoFlip
  /\ hw = "suspended" \/ Quiesced => \A c \in Crtc : Quiet(c)

\* All displays are on and their frame buffers have their scanout pins.
Bright == shown /\ \A c \in Crtc : crtc[c].lit
\* When the displays are on, and when the scanout pins are held: a display is only dark once
\* its owner has switched it off, and pins are only given back for dark ones.
LightInv ==
  /\ shown \/ AllDark
  /\ hw = "running" => Bright
  /\ owner.kind = "reset" /\ owner.stage # "drain" => Bright
  /\ owner.kind = "suspend"
       /\ owner.stage \in {"cancel", "await", "quiesce", "sync", "flush", "dark"} => Bright
  /\ owner.kind = "resume" /\ owner.stage = "end" => Bright
  /\ owner.stage \in {"release", "unpin", "relight"} => shown
  /\ owner.stage = "unpin" => AllDark
  /\ hw = "suspended" \/ owner.stage = "off" => ~shown
  /\ owner.kind = "resume" /\ owner.stage = "restore" => ~shown

\* No flip completes any more, and the displays have not been set again: a CRTC may scan the
\* old buffer of a flip that was programmed.
Unsettled ==
  hw = "parked" \/ owner.stage \in {"quiesce", "sync", "flush", "restore", "dark", "release",
                                    "relight"}
\* The flip w, away from b on CRTC c, still has its pin on b.
Keeps(w, c, b) == w \in Accepted \ freed /\ work[w].crtc = c /\ work[w].old = b
\* What a CRTC is programmed to scan is its frame buffer, unless a flip there was not
\* programmed; then that flip has its pin, or was given up.
Follows(c) ==
  \/ crtc[c].next = crtc[c].fb
  \/ /\ crtc[c].scan = crtc[c].next
     /\ \/ c \in behind
        \/ \E w \in Flip : Keeps(w, c, crtc[c].next) /\ ~work[w].submitted
\* What a lit CRTC scans is what it is programmed to scan, unless a flip away from it has
\* its pin.
Feeds(c) ==
  crtc[c].lit =>
    \/ crtc[c].scan = crtc[c].next \/ c \in behind
    \/ \E w \in Flip : /\ Keeps(w, c, crtc[c].scan)
                       /\ work[w].submitted => Unsettled \/ Attached(w)
\* While flips complete, a CRTC falls behind its registers only by a flip that has been
\* programmed.
Caught(c) ==
  crtc[c].lit /\ ~Unsettled => crtc[c].scan = crtc[c].next \/ crtc[c].status = "submitted"
\* A flip that has been programmed is in the registers of its CRTC.
Programmed(c) == crtc[c].status = "submitted" => crtc[c].next = crtc[c].fb
\* Behind the mode set of a reset every CRTC scans its frame buffer.
Restored(c) ==
  owner.kind = "reset" /\ owner.stage \in {"final", "end"} =>
    crtc[c].scan = crtc[c].fb /\ crtc[c].next = crtc[c].fb
\* What each CRTC scans, and whose pin keeps it.
ScanInv ==
  \A c \in Crtc : Follows(c) /\ Feeds(c) /\ Caught(c) /\ Programmed(c) /\ Restored(c)

\* The inductive invariant.
Inv == Typed /\ OwnerInv /\ AttachedInv /\ PlaceInv /\ PinnedInv /\ QuietInv /\ LightInv
         /\ ScanInv /\ PinsBalance

\* What the assumptions say of the constants: a first CRTC and a first buffer, and no flip
\* is nobody, the task or the publisher.
LEMMA ConstantFacts ==
  /\ 1 \in Crtc /\ First \in Buf /\ NoFlip \notin Flip
  /\ Task \notin Flip /\ Publisher \notin Flip /\ Nobody \notin Flip
  /\ NumCrtc \in Crtc /\ Flip \subseteq Nat
  BY FlipAssumption DEF Crtc, Flip, NoFlip, Task, Publisher, Nobody

-----------------------------------------------------------------------------
(* What the actions do to flips and CRTCs *)

\* The works of all flips.
Works == [Flip -> WorkRec]
\* All CRTCs.
Crtcs == [Crtc -> CrtcRec]

\* A step leaves what the flip is: its CRTC, its buffers, and whether it was programmed.
Kept(w) == /\ work'[w].crtc = work[w].crtc /\ work'[w].old = work[w].old
           /\ work'[w].new = work[w].new /\ work'[w].submitted = work[w].submitted
\* A step leaves all other works alone.
Only(w) == \A v \in Flip \ {w} : work'[v] = work[v]
\* A step leaves all other CRTCs alone.
OnlyCrtc(c) == \A d \in Crtc \ {c} : crtc'[d] = crtc[d]

\* Setting a field of a work keeps the works well-typed.
LEMMA SetWork ==
  ASSUME NEW f \in Works, NEW w \in Flip, NEW d \in BOOLEAN
  PROVE  /\ \A p \in Pc : [f EXCEPT ![w].pc = p] \in Works
         /\ \A c \in Crtc : [f EXCEPT ![w].crtc = c] \in Works
         /\ \A b \in Buf : [f EXCEPT ![w].old = b] \in Works /\ [f EXCEPT ![w].new = b] \in Works
         /\ [f EXCEPT ![w].due = d] \in Works
         /\ [f EXCEPT ![w].canceled = d] \in Works
         /\ [f EXCEPT ![w].submitted = d] \in Works
<1>1. \A p \in Pc : [f EXCEPT ![w].pc = p] \in Works
  BY DEF Works, WorkRec
<1>2. \A c \in Crtc : [f EXCEPT ![w].crtc = c] \in Works
  BY DEF Works, WorkRec
<1>3. \A b \in Buf : [f EXCEPT ![w].old = b] \in Works /\ [f EXCEPT ![w].new = b] \in Works
  BY DEF Works, WorkRec
<1>4. [f EXCEPT ![w].due = d] \in Works
  BY DEF Works, WorkRec
<1>5. [f EXCEPT ![w].canceled = d] \in Works
  BY DEF Works, WorkRec
<1>6. [f EXCEPT ![w].submitted = d] \in Works
  BY DEF Works, WorkRec
<1> QED  BY <1>1, <1>2, <1>3, <1>4, <1>5, <1>6

\* A flip that has not begun is a work.
LEMMA BlankIsTyped == Blank \in WorkRec
  BY ConstantFacts DEF Blank, WorkRec, Pc

\* A work that goes on keeps its flip.
LEMMA GotoEffect ==
  ASSUME work \in Works, NEW w \in Flip, NEW p \in Pc, Goto(w, p)
  PROVE  work' \in Works /\ work'[w].pc = p /\ Kept(w) /\ Only(w)
<1>1. work' \in Works
  BY SetWork DEF Goto
<1> QED  BY <1>1 DEF Goto, Works, WorkRec, Kept, Only

\* Detaching a flip keeps what its CRTC shows.
LEMMA DetachEffect ==
  ASSUME crtc \in Crtcs, work \in Works, NEW w \in Flip, crtc' = Detached(w)
  PROVE  LET c == work[w].crtc IN
         /\ crtc' \in Crtcs /\ crtc'[c].status = "none" /\ crtc'[c].work = NoFlip
         /\ crtc'[c].fb = crtc[c].fb /\ crtc'[c].scan = crtc[c].scan
         /\ crtc'[c].next = crtc[c].next /\ crtc'[c].lit = crtc[c].lit
         /\ OnlyCrtc(c)
<1> DEFINE c == work[w].crtc
           half == [crtc EXCEPT ![c].status = "none"]
<1>1. c \in Crtc
  BY DEF Works, WorkRec
<1> HIDE DEF c
<1>2. half \in Crtcs
  BY <1>1 DEF Crtcs, CrtcRec
<1> HIDE DEF half
<1>3. crtc' = [half EXCEPT ![c].work = NoFlip]
  BY DEF Detached, half, c
<1>4. crtc' \in Crtcs
  BY <1>1, <1>2, <1>3 DEF Crtcs, CrtcRec
<1>5. /\ crtc'[c].status = "none" /\ crtc'[c].work = NoFlip
      /\ crtc'[c].fb = crtc[c].fb /\ crtc'[c].scan = crtc[c].scan
      /\ crtc'[c].next = crtc[c].next /\ crtc'[c].lit = crtc[c].lit
  BY <1>1, <1>2, <1>3 DEF Crtcs, CrtcRec, half
<1>6. OnlyCrtc(c)
  BY <1>1, <1>2, <1>3 DEF Crtcs, CrtcRec, half, OnlyCrtc
<1> QED  BY <1>4, <1>5, <1>6 DEF c

\* The ioctl notes its CRTC, the frame buffer there and the new one.
LEMMA BeginEffect ==
  ASSUME work \in Works, crtc \in Crtcs, NEW w \in Flip, NEW c \in Crtc, NEW b \in Buf,
         FlipBegin(w, c, b)
  PROVE  /\ work' \in Works /\ Only(w)
         /\ work'[w].pc = "pinned" /\ work'[w].crtc = c /\ work'[w].old = crtc[c].fb
         /\ work'[w].new = b /\ work'[w].submitted = work[w].submitted
<1> DEFINE f1 == [work EXCEPT ![w].pc = "pinned"]
           f2 == [f1 EXCEPT ![w].crtc = c]
           f3 == [f2 EXCEPT ![w].old = crtc[c].fb]
           f4 == [f3 EXCEPT ![w].new = b]
<1>1. f1 \in Works
  BY SetWork DEF Pc
<1>2. f2 \in Works
  <2> HIDE DEF f1
  <2> QED  BY <1>1, SetWork
<1>3. f3 \in Works
  <2> HIDE DEF f2
  <2> QED  BY <1>2, SetWork DEF Crtcs, CrtcRec
<1>4. f4 \in Works
  <2> HIDE DEF f3
  <2> QED  BY <1>3, SetWork
<1>5. work' = f4
  BY DEF FlipBegin
<1>6. work' \in Works
  BY <1>4, <1>5
<1>7. Only(w)
  BY DEF FlipBegin, Works, WorkRec, Only
<1>8. /\ work'[w].pc = "pinned" /\ work'[w].crtc = c /\ work'[w].old = crtc[c].fb
      /\ work'[w].new = b /\ work'[w].submitted = work[w].submitted
  BY DEF FlipBegin, Works, WorkRec
<1> QED  BY <1>6, <1>7, <1>8

\* The ioctl makes its buffer the frame buffer of its CRTC, and its flip pending.
LEMMA AttachEffect ==
  ASSUME work \in Works, crtc \in Crtcs, NEW w \in Flip, FlipAttach(w)
  PROVE  LET c == work[w].crtc IN
         /\ work' \in Works /\ Only(w) /\ work'[w].pc = "queued" /\ Kept(w)
         /\ crtc' \in Crtcs /\ OnlyCrtc(c)
         /\ crtc'[c].status = "pending" /\ crtc'[c].work = w /\ crtc'[c].fb = work[w].new
         /\ crtc'[c].scan = crtc[c].scan /\ crtc'[c].next = crtc[c].next
         /\ crtc'[c].lit = crtc[c].lit
<1> DEFINE c == work[w].crtc
           b == work[w].new
<1>0. c \in Crtc /\ b \in Buf
  BY DEF Works, WorkRec
<1>1. work' \in Works
  BY SetWork DEF FlipAttach, Pc
<1>2. Only(w) /\ work'[w].pc = "queued" /\ Kept(w)
  BY DEF FlipAttach, Works, WorkRec, Only, Kept
<1> DEFINE k1 == [crtc EXCEPT ![c].status = "pending"]
           k2 == [k1 EXCEPT ![c].work = w]
           k3 == [k2 EXCEPT ![c].fb = b]
<1>3. crtc' = k3
  BY DEF FlipAttach
<1> HIDE DEF c, b
<1>4. k1 \in Crtcs
  BY <1>0 DEF Crtcs, CrtcRec
<1>5. k2 \in Crtcs
  <2> HIDE DEF k1
  <2> QED  BY <1>0, <1>4 DEF Crtcs, CrtcRec
<1>6. k3 \in Crtcs
  <2> HIDE DEF k2
  <2> QED  BY <1>0, <1>5 DEF Crtcs, CrtcRec
<1>7. OnlyCrtc(c)
  BY <1>0, <1>3 DEF Crtcs, CrtcRec, OnlyCrtc
<1>8. /\ k3[c].status = "pending" /\ k3[c].work = w /\ k3[c].fb = b
      /\ k3[c].scan = crtc[c].scan /\ k3[c].next = crtc[c].next /\ k3[c].lit = crtc[c].lit
  BY <1>0 DEF Crtcs, CrtcRec
<1> HIDE DEF k3
<1> QED  BY <1>1, <1>2, <1>3, <1>6, <1>7, <1>8 DEF c, b

\* The flip work programs its new buffer and marks its flip submitted.
LEMMA ProgramEffect ==
  ASSUME work \in Works, crtc \in Crtcs, NEW w \in Flip, FlipProgram(w)
  PROVE  LET c == work[w].crtc IN
         /\ work' \in Works /\ Only(w) /\ work'[w].pc = "done" /\ work'[w].submitted
         /\ work'[w].crtc = c /\ work'[w].old = work[w].old /\ work'[w].new = work[w].new
         /\ crtc' \in Crtcs /\ OnlyCrtc(c)
         /\ crtc'[c].status = "submitted" /\ crtc'[c].next = work[w].new
         /\ crtc'[c].work = crtc[c].work /\ crtc'[c].fb = crtc[c].fb
         /\ crtc'[c].scan = crtc[c].scan /\ crtc'[c].lit = crtc[c].lit
<1> DEFINE c == work[w].crtc
           b == work[w].new
<1>0. c \in Crtc /\ b \in Buf
  BY DEF Works, WorkRec
<1>1. work' \in Works
  BY SetWork DEF FlipProgram, Pc
<1>2. /\ Only(w) /\ work'[w].pc = "done" /\ work'[w].submitted
      /\ work'[w].crtc = c /\ work'[w].old = work[w].old /\ work'[w].new = work[w].new
  BY DEF FlipProgram, Works, WorkRec, Only
<1> DEFINE k1 == [crtc EXCEPT ![c].status = "submitted"]
           k2 == [k1 EXCEPT ![c].next = b]
<1>3. crtc' = k2
  BY DEF FlipProgram
<1> HIDE DEF c, b
<1>4. k1 \in Crtcs
  BY <1>0 DEF Crtcs, CrtcRec
<1>5. k2 \in Crtcs
  <2> HIDE DEF k1
  <2> QED  BY <1>0, <1>4 DEF Crtcs, CrtcRec
<1>6. OnlyCrtc(c)
  BY <1>0, <1>3 DEF Crtcs, CrtcRec, OnlyCrtc
<1>7. /\ k2[c].status = "submitted" /\ k2[c].next = b
      /\ k2[c].work = crtc[c].work /\ k2[c].fb = crtc[c].fb
      /\ k2[c].scan = crtc[c].scan /\ k2[c].lit = crtc[c].lit
  BY <1>0 DEF Crtcs, CrtcRec
<1> HIDE DEF k2
<1> QED  BY <1>1, <1>2, <1>3, <1>5, <1>6, <1>7 DEF c, b

\* A cancelled work keeps what its flip is.
LEMMA CancelEffect ==
  ASSUME work \in Works, NEW w \in Flip, FlipCancel(w)
  PROVE  /\ work' \in Works /\ Only(w) /\ Kept(w)
         /\ work'[w].pc = IF Attached(w) THEN "decide" ELSE "done"
<1>1. work' \in Works
  BY SetWork DEF FlipCancel, Pc
<1> QED  BY <1>1 DEF FlipCancel, Works, WorkRec, Only, Kept

\* The page flip interrupt hands its flip to the unpin work.
LEMMA HandleEffect ==
  ASSUME work \in Works, NEW c \in Crtc, HandleFlip(c), crtc[c].work \in Flip
  PROVE  LET w == crtc[c].work IN
         /\ work' \in Works /\ Only(w) /\ Kept(w) /\ work'[w].pc = "unpin"
         /\ crtc' = Detached(w)
<1> DEFINE w == crtc[c].work
<1>1. work' = [work EXCEPT ![w].pc = "unpin", ![w].due = FALSE] /\ crtc' = Detached(w)
  BY DEF HandleFlip
<1>2. w \in Flip
  OBVIOUS
<1> HIDE DEF w
<1>3. work' \in Works
  BY <1>1, <1>2, SetWork DEF Pc
<1>4. Only(w) /\ Kept(w) /\ work'[w].pc = "unpin"
  BY <1>1, <1>2 DEF Works, WorkRec, Only, Kept
<1> QED  BY <1>1, <1>3, <1>4 DEF w

\* Finalizing the retained flips blanks those that are freed, but for where their code
\* stands, and leaves the others what they are.
LEMMA FinalizedEffect ==
  ASSUME work \in Works, NEW S \in SUBSET Flip
  PROVE  /\ Finalized(S) \in Works
         /\ \A v \in Flip :
              /\ Finalized(S)[v].pc = work[v].pc
              /\ v \notin S =>
                   /\ Finalized(S)[v].crtc = work[v].crtc /\ Finalized(S)[v].old = work[v].old
                   /\ Finalized(S)[v].new = work[v].new
                   /\ Finalized(S)[v].submitted = work[v].submitted
              /\ v \in S => ~Finalized(S)[v].submitted
              /\ v \in S /\ v \in Started => Finalized(S)[v].crtc = work[v].crtc
<1> DEFINE drop(v) == [work[v] EXCEPT !.due = FALSE]
<1>1. ASSUME NEW v \in Flip
      PROVE  /\ Spent(v) \in WorkRec /\ Spent(v).pc = work[v].pc /\ ~Spent(v).submitted
             /\ v \in Started => Spent(v).crtc = work[v].crtc
  <2>1. Spent(v) \in WorkRec
    BY ConstantFacts DEF Spent, Blank, Works, WorkRec
  <2>2. Spent(v).pc = work[v].pc /\ ~Spent(v).submitted
    BY DEF Spent, Blank
  <2>3. v \in Started => Spent(v).crtc = work[v].crtc
    BY DEF Spent, Blank
  <2> QED  BY <2>1, <2>2, <2>3
<1>2. ASSUME NEW v \in Flip
      PROVE  /\ drop(v) \in WorkRec /\ drop(v).pc = work[v].pc
             /\ drop(v).crtc = work[v].crtc /\ drop(v).old = work[v].old
             /\ drop(v).new = work[v].new /\ drop(v).submitted = work[v].submitted
  BY DEF Works, WorkRec
<1>3. ASSUME NEW v \in Flip
      PROVE  Finalized(S)[v] = IF v \in S THEN Spent(v) ELSE
                               IF v \in retained THEN drop(v) ELSE work[v]
  BY DEF Finalized
<1>4. \A v \in Flip : work[v] \in WorkRec
  BY DEF Works
<1> HIDE DEF drop
<1>5. \A v \in Flip : Finalized(S)[v] \in WorkRec
  BY <1>1, <1>2, <1>3, <1>4
<1>6. Finalized(S) = [v \in Flip |-> Finalized(S)[v]]
  BY DEF Finalized
<1>7. Finalized(S) \in Works
  BY <1>5, <1>6 DEF Works
<1> QED  BY <1>1, <1>2, <1>3, <1>7

\* The end of a transition sends the flip work that owned it on.
LEMMA LeaveEffect ==
  ASSUME work \in Works, NEW ws \in Works, NEW again \in BOOLEAN, Leave(ws, again)
  PROVE  /\ work' \in Works /\ owner' = Unowned
         /\ \A v \in Flip :
              /\ v # owner.who => work'[v] = ws[v]
              /\ v = owner.who => work'[v].pc \in {"reset", "cancel", "vblank"}
              /\ work'[v].crtc = ws[v].crtc /\ work'[v].old = ws[v].old
              /\ work'[v].new = ws[v].new /\ work'[v].submitted = ws[v].submitted
<1>1. CASE owner.who \notin Flip
  BY <1>1 DEF Leave
<1>2. CASE owner.who \in Flip
  <2> DEFINE p == IF again THEN "reset" ELSE Resumed(owner.who)
  <2>1. p \in {"reset", "cancel", "vblank"}
    BY DEF Resumed
  <2>2. work' = [ws EXCEPT ![owner.who].pc = p] /\ owner' = Unowned
    BY <1>2 DEF Leave
  <2> HIDE DEF p
  <2>3. work' \in Works
    BY <1>2, <2>1, <2>2, SetWork DEF Pc
  <2> QED  BY <1>2, <2>1, <2>2, <2>3 DEF Works, WorkRec
<1> QED  BY <1>1, <1>2

\* The unpin work frees its flip, or retains it.
LEMMA UnpinEffect ==
  ASSUME work \in Works, retained \subseteq Flip, NEW w \in Flip, Unpin(w)
  PROVE  /\ work' \in Works /\ Only(w) /\ work'[w].pc = "done" /\ crtc' = crtc
         /\ \/ Release({w}) /\ Admitted
            \/ Kept(w) /\ retained' = retained \cup {w} /\ UNCHANGED <<freed, pins, behind>>
<1>1. CASE Admitted /\ Release({w}) /\ work' = [work EXCEPT ![w] = [Blank EXCEPT !.pc = "done"]]
  <2>1. [Blank EXCEPT !.pc = "done"] \in WorkRec /\ [Blank EXCEPT !.pc = "done"].pc = "done"
    BY ConstantFacts DEF Blank, WorkRec, Pc
  <2> QED  BY <1>1, <2>1 DEF Works, Only, Unpin
<1>2. CASE Goto(w, "done") /\ retained' = retained \cup {w} /\ UNCHANGED <<freed, pins, behind>>
  BY <1>2, GotoEffect DEF Pc, Unpin
<1> QED  BY <1>1, <1>2 DEF Unpin

\* The release behind a cancelled flip is a release of some retained flips.
LEMMA ReleaseEffect ==
  ASSUME work \in Works, retained \subseteq Flip, NEW w \in Flip, FlipRelease(w)
  PROVE  \E S \in SUBSET retained :
           /\ Release(S) /\ (S # {} => Admitted) /\ work' \in Works /\ crtc' = crtc
           /\ \A v \in Flip :
                /\ work'[v].pc = IF v = w THEN "done" ELSE work[v].pc
                /\ v \notin S => Kept(v)
                /\ v \in S => ~work'[v].submitted
                /\ v \in S /\ v \in Started => work'[v].crtc = work[v].crtc
<1>1. PICK S \in Releasable(work[w].pc = "release" /\ Admitted) :
        Release(S) /\ work' = [Finalized(S) EXCEPT ![w].pc = "done"] /\ crtc' = crtc
  BY DEF FlipRelease
<1>2. S \in SUBSET retained /\ (S # {} => Admitted)
  BY DEF Releasable
<1> DEFINE f == Finalized(S)
<1>3. /\ f \in Works
      /\ \A v \in Flip :
           /\ f[v].pc = work[v].pc
           /\ v \notin S => /\ f[v].crtc = work[v].crtc /\ f[v].old = work[v].old
                            /\ f[v].new = work[v].new /\ f[v].submitted = work[v].submitted
           /\ v \in S => ~f[v].submitted
           /\ v \in S /\ v \in Started => f[v].crtc = work[v].crtc
  BY <1>2, FinalizedEffect
<1>4. work' = [f EXCEPT ![w].pc = "done"]
  BY <1>1
<1> HIDE DEF f
<1>5. work' \in Works
  BY <1>3, <1>4, SetWork DEF Pc
<1>6. \A v \in Flip :
        /\ work'[v].pc = IF v = w THEN "done" ELSE f[v].pc
        /\ work'[v].crtc = f[v].crtc /\ work'[v].old = f[v].old
        /\ work'[v].new = f[v].new /\ work'[v].submitted = f[v].submitted
  BY <1>3, <1>4 DEF Works, WorkRec
<1>7. \A v \in Flip :
        /\ work'[v].pc = IF v = w THEN "done" ELSE work[v].pc
        /\ v \notin S => Kept(v)
        /\ v \in S => ~work'[v].submitted
        /\ v \in S /\ v \in Started => work'[v].crtc = work[v].crtc
  BY <1>3, <1>6 DEF Kept
<1> QED  BY <1>1, <1>2, <1>5, <1>7

\* radeon_page_flip_quiesce only marks the flip of its CRTC cancelled.
LEMMA MarkEffect ==
  ASSUME work \in Works, crtc \in Crtcs, owner \in OwnerRec, QuiesceMark
  PROVE  LET w == crtc[owner.crtc].work IN
         /\ work' \in Works /\ (\A v \in Flip : Kept(v) /\ work'[v].pc = work[v].pc)
         /\ \/ w = NoFlip /\ Stage("flush")
            \/ w # NoFlip /\ w = owner.who /\ Advance
            \/ w # NoFlip /\ w # owner.who /\ owner' = [owner EXCEPT !.stage = "sync", !.work = w]
<1> DEFINE w == crtc[owner.crtc].work
<1>0. w \in Flip \cup {NoFlip}
  BY DEF Crtcs, CrtcRec, OwnerRec
<1>1. CASE w = NoFlip
  BY <1>1 DEF QuiesceMark, Kept
<1>2. CASE w # NoFlip
  <2>1. /\ work' = [work EXCEPT ![w].canceled = TRUE]
        /\ IF w = owner.who THEN Advance ELSE owner' = [owner EXCEPT !.stage = "sync", !.work = w]
    BY <1>2 DEF QuiesceMark
  <2>2. w \in Flip
    BY <1>0, <1>2
  <2> HIDE DEF w
  <2>3. work' \in Works
    BY <2>1, <2>2, SetWork
  <2>4. \A v \in Flip : Kept(v) /\ work'[v].pc = work[v].pc
    BY <2>1, <2>2 DEF Works, WorkRec, Kept
  <2> QED  BY <1>2, <2>1, <2>3, <2>4 DEF w
<1> QED  BY <1>1, <1>2

\* Behind cancel_work_sync the flip is retained, if it is still attached.
LEMMA SyncEffect ==
  ASSUME work \in Works, owner.work \in Flip, QuiesceSync
  PROVE  LET w == owner.work IN
         /\ work' \in Works /\ Only(w) /\ Kept(w)
         /\ work'[w].pc = IF work[w].pc = "queued" THEN "done" ELSE work[w].pc
         /\ IF Attached(w) THEN crtc' = Detached(w) /\ retained' = retained \cup {w}
            ELSE UNCHANGED <<crtc, retained>>
         /\ UNCHANGED <<freed, pins, behind, shown, hw>>
<1> DEFINE w == owner.work
<1>1. CASE work[w].pc = "queued"
  <2>1. work' = [work EXCEPT ![w].pc = "done"]
    BY <1>1 DEF QuiesceSync
  <2>2. work' \in Works /\ Only(w) /\ Kept(w) /\ work'[w].pc = "done"
    BY <2>1, GotoEffect DEF Goto, Pc
  <2> QED  BY <1>1, <2>2 DEF QuiesceSync
<1>2. CASE work[w].pc # "queued"
  BY <1>2 DEF QuiesceSync, Only, Kept
<1> QED  BY <1>1, <1>2

\* Each CRTC keeps its flip and its frame buffer, whatever it scans.
Still == \A c \in Crtc : /\ crtc'[c].status = crtc[c].status /\ crtc'[c].work = crtc[c].work
                         /\ crtc'[c].fb = crtc[c].fb

\* A vblank changes what one CRTC scans.
LEMMA LatchEffect ==
  ASSUME crtc \in Crtcs, NEW c \in Crtc, Latch(c)
  PROVE  /\ crtc' \in Crtcs /\ Still /\ OnlyCrtc(c)
         /\ crtc'[c].scan = crtc[c].next /\ crtc'[c].next = crtc[c].next
         /\ crtc'[c].lit = crtc[c].lit
<1>1. crtc' \in Crtcs
  BY DEF Latch, Crtcs, CrtcRec
<1> QED  BY <1>1 DEF Latch, Crtcs, CrtcRec, Still, OnlyCrtc

\* The mode set of a reset or a resume programs every CRTC with its frame buffer.
LEMMA RestoreEffect ==
  ASSUME crtc \in Crtcs, OwnerRestore
  PROVE  /\ crtc' \in Crtcs /\ Still
         /\ \A c \in Crtc : /\ crtc'[c].scan = crtc[c].fb /\ crtc'[c].next = crtc[c].fb
                            /\ crtc'[c].lit
<1> DEFINE new(c) == [crtc[c] EXCEPT !.scan = crtc[c].fb, !.next = crtc[c].fb, !.lit = TRUE]
<1>1. crtc' = [c \in Crtc |-> new(c)]
  BY DEF OwnerRestore
<1>2. ASSUME NEW c \in Crtc
      PROVE  /\ new(c) \in CrtcRec /\ new(c).status = crtc[c].status
             /\ new(c).work = crtc[c].work /\ new(c).fb = crtc[c].fb
             /\ new(c).scan = crtc[c].fb /\ new(c).next = crtc[c].fb /\ new(c).lit
  BY DEF Crtcs, CrtcRec
<1> HIDE DEF new
<1> QED  BY <1>1, <1>2 DEF Crtcs, Still

\* Switching displays off leaves what they scan.
LEMMA DarkEffect ==
  ASSUME crtc \in Crtcs, OwnerDark
  PROVE  /\ crtc' \in Crtcs /\ Still
         /\ \A c \in Crtc : crtc'[c].scan = crtc[c].scan /\ crtc'[c].next = crtc[c].next
<1>1. PICK D \in SUBSET Crtc : crtc' = [c \in Crtc |-> [crtc[c] EXCEPT !.lit = c \in D]]
  BY DEF OwnerDark
<1> DEFINE new(c) == [crtc[c] EXCEPT !.lit = c \in D]
<1>2. ASSUME NEW c \in Crtc
      PROVE  /\ new(c).status = crtc[c].status /\ new(c).work = crtc[c].work
             /\ new(c).fb = crtc[c].fb /\ new(c).scan = crtc[c].scan
             /\ new(c).next = crtc[c].next
  BY DEF Crtcs, CrtcRec
<1>3. ASSUME NEW c \in Crtc PROVE new(c) \in CrtcRec
  <2> DEFINE lit == c \in D
  <2>1. lit \in BOOLEAN
    OBVIOUS
  <2> HIDE DEF lit
  <2>2. [crtc[c] EXCEPT !.lit = lit] \in CrtcRec
    BY <2>1 DEF Crtcs, CrtcRec
  <2> QED  BY <2>2 DEF lit
<1>4. crtc' = [c \in Crtc |-> new(c)]
  BY <1>1
<1> HIDE DEF new
<1> QED  BY <1>2, <1>3, <1>4 DEF Crtcs, Still

\* Switching displays on again lets each scan what it is programmed to.
LEMMA RelightEffect ==
  ASSUME crtc \in Crtcs, OwnerRelight
  PROVE  /\ crtc' \in Crtcs /\ Still
         /\ \A c \in Crtc : /\ crtc'[c].scan = crtc[c].next /\ crtc'[c].next = crtc[c].next
                            /\ crtc'[c].lit
<1> DEFINE new(c) == [crtc[c] EXCEPT !.lit = TRUE, !.scan = crtc[c].next]
<1>1. crtc' = [c \in Crtc |-> new(c)]
  BY DEF OwnerRelight
<1>2. ASSUME NEW c \in Crtc
      PROVE  /\ new(c) \in CrtcRec /\ new(c).status = crtc[c].status
             /\ new(c).work = crtc[c].work /\ new(c).fb = crtc[c].fb
             /\ new(c).scan = crtc[c].next /\ new(c).next = crtc[c].next /\ new(c).lit
  BY DEF Crtcs, CrtcRec
<1> HIDE DEF new
<1> QED  BY <1>1, <1>2 DEF Crtcs, Still

\* A work goes on within its part of its path.
Alike(p, q) == p = q \/ {p, q} \subseteq Pending \/ {p, q} \subseteq Past
\* Works go on, and no flip changes hands.
Steady == work' \in Works /\ \A v \in Flip : Kept(v) /\ Alike(work[v].pc, work'[v].pc)
\* A step that leaves every flip with its CRTC.
Calm == Steady /\ crtc' \in Crtcs /\ Still /\ UNCHANGED <<retained, freed>>

\* A step that frees the retained flips S and leaves the others what they are.
Frees(S) ==
  /\ Release(S) /\ work' \in Works /\ UNCHANGED <<crtc, shown>>
  /\ \A v \in Flip :
       /\ v \notin S => Kept(v)
       /\ v \in S => ~work'[v].submitted
       /\ v \in S /\ v \in Started => work'[v].crtc = work[v].crtc
       /\ work'[v].pc = work[v].pc
            \/ (work[v].pc \in {"release", "drop"} /\ work'[v].pc = "done")

\* The steps of a flip work up to programming or cancelling its flip.
WorkGoesOn(w) == FlipStart(w) \/ FlipWaited(w) \/ FlipHung(w) \/ FlipNoReset(w) \/ FlipShut(w)
                   \/ FlipDecide(w)
\* The steps of an owner that leave flips and displays alone.
OwnerGoesOn == \/ CancelCleanup \/ AwaitCleanup \/ QuiesceFlush \/ OwnerUnpin \/ OwnerParks
               \/ PublishBegin
               \/ \E who \in Flip \cup {Task}, kind \in Kind : OwnerBegin(who, kind)
\* The steps of an owner that may give its lock back.
OwnerLeaves == OwnerDrained \/ OwnerCheck \/ OwnerEnd \/ OwnerOff \/ OwnerStays
\* The steps that change what CRTCs scan.
DisplayChanges == (\E c \in Crtc : Latch(c)) \/ OwnerRestore \/ OwnerDark
\* The steps that finalize the retained flips.
Releases == (\E w \in Flip : FlipRelease(w)) \/ CleanupFinalize \/ OwnerFinal \/ OwnerRelease

\* A flip work that has started goes on within its part of its path.
LEMMA StartedMoves ==
  ASSUME Typed, NEW w \in Flip, WorkGoesOn(w)
  PROVE  \E p \in Pc : Goto(w, p) /\ Alike(work[w].pc, p)
<1> USE DEF Alike, Pending, Past, Pc
<1>1. CASE FlipStart(w)
  BY <1>1 DEF FlipStart
<1>2. CASE FlipWaited(w)
  BY <1>2 DEF FlipWaited, Resumed
<1>3. CASE FlipHung(w)
  BY <1>3 DEF FlipHung
<1>4. CASE FlipNoReset(w)
  BY <1>4 DEF FlipNoReset, Resumed
<1>5. CASE FlipShut(w)
  BY <1>5 DEF FlipShut
<1>6. CASE FlipDecide(w)
  <2>1. PICK p \in {"release", "drop", "left"} : Goto(w, p)
    BY <1>6 DEF FlipDecide
  <2> QED  BY <1>6, <2>1 DEF FlipDecide
<1> QED  BY <1>1, <1>2, <1>3, <1>4, <1>5, <1>6 DEF WorkGoesOn

\* Most steps are calm.
LEMMA CalmSteps ==
  ASSUME Typed, OwnerInv,
         \/ \E w \in Flip : WorkGoesOn(w)
         \/ OwnerGoesOn \/ OwnerLeaves \/ DisplayChanges \/ OwnerRelight \/ QuiesceMark
         \/ PublishDrop \/ CleanupStart \/ CleanupFlush \/ Park \/ Hang
  PROVE  Calm
<1>0. work \in Works /\ crtc \in Crtcs /\ owner \in OwnerRec
  BY DEF Typed, Works, Crtcs
<1>1. ASSUME NEW w \in Flip, WorkGoesOn(w) PROVE Calm
  <2>1. PICK p \in Pc : Goto(w, p) /\ Alike(work[w].pc, p)
    BY <1>1, StartedMoves
  <2>2. work' \in Works /\ work'[w].pc = p /\ Kept(w) /\ Only(w)
    BY <1>0, <2>1, GotoEffect
  <2>3. Steady
    BY <2>1, <2>2 DEF Steady, Only, Kept, Alike
  <2>4. UNCHANGED <<crtc, retained, freed>>
    BY <1>1 DEF WorkGoesOn, FlipStart, FlipWaited, FlipHung, FlipNoReset, FlipShut, FlipDecide,
       buffers
  <2> QED  BY <1>0, <2>3, <2>4 DEF Calm, Still
<1>2. CASE OwnerGoesOn \/ CleanupStart \/ CleanupFlush \/ Park \/ Hang
  <2>1. UNCHANGED <<work, crtc, retained, freed>>
    BY <1>2 DEF OwnerGoesOn, CancelCleanup, AwaitCleanup, QuiesceFlush, OwnerUnpin, OwnerParks,
       PublishBegin, OwnerBegin, CleanupStart, CleanupFlush, Park, Hang, buffers
  <2> QED  BY <1>0, <2>1 DEF Calm, Steady, Still, Kept, Alike
<1>3. ASSUME NEW ws \in Works, NEW again \in BOOLEAN, Leave(ws, again), 
             \A v \in Flip : /\ ws[v].pc = work[v].pc /\ ws[v].crtc = work[v].crtc
                             /\ ws[v].old = work[v].old /\ ws[v].new = work[v].new
                             /\ ws[v].submitted = work[v].submitted
      PROVE  Steady
  <2>1. owner.who \in Flip => work[owner.who].pc \in Pending
    BY DEF OwnerInv, Pending
  <2> QED  BY <1>0, <1>3, <2>1, LeaveEffect DEF Steady, Kept, Alike, Pending
<1>4. CASE OwnerLeaves
  <2>1. UNCHANGED <<crtc, retained, freed>>
    BY <1>4 DEF OwnerLeaves, OwnerDrained, OwnerCheck, OwnerEnd, OwnerOff, OwnerStays, buffers
  <2>2. UNCHANGED work \/ \E again \in BOOLEAN : Leave(work, again)
    BY <1>4 DEF OwnerLeaves, OwnerDrained, OwnerCheck, OwnerEnd, OwnerOff, OwnerStays
  <2>3. Steady
    BY <1>0, <1>3, <2>2 DEF Steady, Kept, Alike
  <2> QED  BY <1>0, <2>1, <2>3 DEF Calm, Still
<1>5. CASE DisplayChanges
  <2>1. UNCHANGED <<work, retained, freed>>
    BY <1>5 DEF DisplayChanges, Latch, OwnerRestore, OwnerDark, buffers
  <2>2. crtc' \in Crtcs /\ Still
    BY <1>0, <1>5, LatchEffect, RestoreEffect, DarkEffect DEF DisplayChanges
  <2> QED  BY <1>0, <2>1, <2>2 DEF Calm, Steady, Kept, Alike
<1>6. CASE OwnerRelight
  <2>1. Leave(work, FALSE) /\ UNCHANGED <<retained, freed>>
    BY <1>6 DEF OwnerRelight
  <2>2. Steady
    BY <1>0, <1>3, <2>1
  <2> QED  BY <1>0, <1>6, <2>1, <2>2, RelightEffect DEF Calm
<1>7. CASE QuiesceMark
  <2>1. UNCHANGED <<crtc, retained, freed>>
    BY <1>7 DEF QuiesceMark, buffers
  <2> QED  BY <1>0, <1>7, <2>1, MarkEffect DEF Calm, Steady, Still, Alike
<1>8. CASE PublishDrop
  <2>1. Leave(Finalized({}), FALSE) /\ UNCHANGED <<crtc, retained, freed>>
    BY <1>8 DEF PublishDrop, buffers
  <2> DEFINE f == Finalized({})
  <2>2. /\ f \in Works
        /\ \A v \in Flip : /\ f[v].pc = work[v].pc /\ f[v].crtc = work[v].crtc
                           /\ f[v].old = work[v].old /\ f[v].new = work[v].new
                           /\ f[v].submitted = work[v].submitted
    BY <1>0, FinalizedEffect
  <2> HIDE DEF f
  <2>3. Leave(f, FALSE)
    BY <2>1 DEF f
  <2>4. Steady
    BY <1>3, <2>2, <2>3
  <2> QED  BY <1>0, <2>1, <2>4 DEF Calm, Still
<1> QED  BY <1>1, <1>2, <1>4, <1>5, <1>6, <1>7, <1>8

\* A step that finalizes frees retained flips, but only on a running device, behind the mode
\* set of a reset, or with every display off.
LEMMA FreeSteps ==
  ASSUME Typed, Releases
  PROVE  \E S \in SUBSET retained :
           /\ Frees(S)
           /\ S # {} => \/ Admitted
                        \/ hw # "parked" /\ (OwnerFinal \/ (OwnerRelease /\ AllDark))
<1>0. work \in Works /\ retained \subseteq Flip
  BY DEF Typed, Works
<1>1. ASSUME NEW w \in Flip, FlipRelease(w)
      PROVE  \E S \in SUBSET retained : Frees(S) /\ (S # {} => Admitted)
  <2>1. UNCHANGED <<crtc, shown>> /\ work[w].pc \in {"release", "drop"}
    BY <1>1 DEF FlipRelease
  <2> QED  BY <1>0, <1>1, <2>1, ReleaseEffect DEF Frees
<1>2. ASSUME NEW S \in SUBSET retained, Release(S), work' = Finalized(S),
             UNCHANGED <<crtc, shown>>
      PROVE  Frees(S)
  BY <1>0, <1>2, FinalizedEffect DEF Frees, Kept
<1>3. ASSUME CleanupFinalize
      PROVE  \E S \in SUBSET retained : Frees(S) /\ (S # {} => Admitted)
  <2>1. PICK S \in Releasable(cleanup.release /\ Admitted) :
          Release(S) /\ work' = Finalized(S) /\ UNCHANGED <<crtc, shown>>
    BY <1>3 DEF CleanupFinalize
  <2>2. S \in SUBSET retained /\ (S # {} => Admitted)
    BY <2>1 DEF Releasable
  <2> QED  BY <1>2, <2>1, <2>2
<1>4. ASSUME OwnerFinal
      PROVE  \E S \in SUBSET retained : Frees(S) /\ (S # {} => hw # "parked")
  <2>1. PICK S \in Releasable(hw # "parked") :
          Release(S) /\ work' = Finalized(S) /\ UNCHANGED <<crtc, shown>>
    BY <1>4 DEF OwnerFinal
  <2>2. S \in SUBSET retained /\ (S # {} => hw # "parked")
    BY <2>1 DEF Releasable
  <2> QED  BY <1>2, <2>1, <2>2
<1>5. ASSUME OwnerRelease
      PROVE  \E S \in SUBSET retained : Frees(S) /\ (S # {} => AllDark /\ hw # "parked")
  <2>1. PICK S \in Releasable(AllDark /\ hw # "parked") :
          Release(S) /\ work' = Finalized(S) /\ UNCHANGED <<crtc, shown>>
    BY <1>5 DEF OwnerRelease
  <2>2. S \in SUBSET retained /\ (S # {} => AllDark /\ hw # "parked")
    BY <2>1 DEF Releasable
  <2> QED  BY <1>2, <2>1, <2>2
<1> QED  BY <1>1, <1>3, <1>4, <1>5 DEF Releases

\* What a step is to flips, CRTCs and pins: calm, a release, or one of the steps that hand a
\* flip on.
LEMMA Shapes ==
  ASSUME Typed, OwnerInv, Next
  PROVE  \/ Calm /\ (OwnerRestore \/ OwnerUnpin \/ UNCHANGED <<pins, shown>>)
         \/ Releases
         \/ \E w \in Flip, c \in Crtc, b \in Buf : FlipBegin(w, c, b)
         \/ \E w \in Flip : \/ FlipAttach(w) \/ FlipRefused(w) \/ FlipProgram(w)
                            \/ FlipCancel(w) \/ Unpin(w)
         \/ \E c \in Crtc : HandleFlip(c)
         \/ QuiesceSync
<1> DEFINE Quietly ==
      \/ \E w \in Flip : WorkGoesOn(w)
      \/ OwnerGoesOn \/ OwnerLeaves \/ DisplayChanges \/ OwnerRelight \/ QuiesceMark
      \/ PublishDrop \/ CleanupStart \/ CleanupFlush \/ Park \/ Hang
<1>1. ASSUME Quietly PROVE OwnerRestore \/ OwnerUnpin \/ UNCHANGED <<pins, shown>>
  <2>1. ASSUME NEW w \in Flip, WorkGoesOn(w) PROVE UNCHANGED <<pins, shown>>
    BY <2>1 DEF WorkGoesOn, FlipStart, FlipWaited, FlipHung, FlipNoReset, FlipShut, FlipDecide,
       buffers
  <2>2. CASE OwnerGoesOn \/ OwnerLeaves
    BY <2>2 DEF OwnerGoesOn, CancelCleanup, AwaitCleanup, QuiesceFlush, OwnerParks,
       PublishBegin, OwnerBegin, OwnerLeaves, OwnerDrained, OwnerCheck, OwnerEnd, OwnerOff,
       OwnerStays, buffers
  <2>3. CASE DisplayChanges \/ OwnerRelight \/ QuiesceMark \/ PublishDrop \/ CleanupStart
             \/ CleanupFlush \/ Park \/ Hang
    BY <2>3 DEF DisplayChanges, Latch, OwnerDark, OwnerRelight, QuiesceMark, PublishDrop,
       CleanupStart, CleanupFlush, Park, Hang, buffers
  <2> QED  BY <1>1, <2>1, <2>2, <2>3
<1>2. ASSUME Quietly PROVE Calm
  BY <1>2, CalmSteps
<1>3. \/ Quietly \/ Releases
      \/ \E w \in Flip, c \in Crtc, b \in Buf : FlipBegin(w, c, b)
      \/ \E w \in Flip : \/ FlipAttach(w) \/ FlipRefused(w) \/ FlipProgram(w)
                         \/ FlipCancel(w) \/ Unpin(w)
      \/ \E c \in Crtc : HandleFlip(c)
      \/ QuiesceSync
  BY DEF Next, FlipWork, Cleanup, OwnerStep, Kind, WorkGoesOn, OwnerGoesOn, OwnerLeaves,
     DisplayChanges, Releases
<1> QED  BY <1>1, <1>2, <1>3

-----------------------------------------------------------------------------
(* Types *)

\* A refused ioctl leaves all other works alone.
LEMMA RefuseEffect ==
  ASSUME work \in Works, NEW w \in Flip, FlipRefused(w)
  PROVE  work' \in Works /\ Only(w) /\ work'[w].pc = "refused"
<1>1. [Blank EXCEPT !.pc = "refused"] \in WorkRec /\ [Blank EXCEPT !.pc = "refused"].pc = "refused"
  BY ConstantFacts DEF Blank, WorkRec, Pc
<1> QED  BY <1>1 DEF FlipRefused, Works, Only

\* The steps of nobody who owns a transition.
FlipMoves ==
  \/ \E w \in Flip, c \in Crtc, b \in Buf : FlipBegin(w, c, b)
  \/ \E w \in Flip : \/ FlipAttach(w) \/ FlipRefused(w) \/ FlipStart(w) \/ FlipWaited(w)
                     \/ FlipHung(w) \/ FlipNoReset(w) \/ FlipProgram(w) \/ FlipShut(w)
                     \/ FlipCancel(w) \/ FlipDecide(w) \/ FlipRelease(w) \/ Unpin(w)
  \/ \E c \in Crtc : Latch(c) \/ HandleFlip(c)
  \/ Cleanup

\* They leave the owner, the state of the hardware and the scanout pins alone.
LEMMA OwnerKept == ASSUME FlipMoves PROVE UNCHANGED <<owner, hw, needsReset, publish, shown>>
<1>1. ASSUME NEW w \in Flip, NEW c \in Crtc, NEW b \in Buf, FlipBegin(w, c, b)
      PROVE UNCHANGED <<owner, hw, needsReset, publish, shown>>
  BY <1>1 DEF FlipBegin
<1>2. ASSUME NEW w \in Flip,
             FlipAttach(w) \/ FlipRefused(w) \/ FlipStart(w) \/ FlipWaited(w)
               \/ FlipHung(w) \/ FlipNoReset(w) \/ FlipProgram(w)
      PROVE UNCHANGED <<owner, hw, needsReset, publish, shown>>
  BY <1>2 DEF FlipAttach, FlipRefused, FlipStart, FlipWaited, FlipHung, FlipNoReset, FlipProgram
<1>3. ASSUME NEW w \in Flip,
             FlipShut(w) \/ FlipCancel(w) \/ FlipDecide(w) \/ FlipRelease(w) \/ Unpin(w)
      PROVE UNCHANGED <<owner, hw, needsReset, publish, shown>>
  BY <1>3 DEF FlipShut, FlipCancel, FlipDecide, FlipRelease, Unpin
<1>4. ASSUME NEW c \in Crtc, Latch(c) \/ HandleFlip(c)
      PROVE UNCHANGED <<owner, hw, needsReset, publish, shown>>
  BY <1>4 DEF Latch, HandleFlip
<1>5. CASE Cleanup
  BY <1>5 DEF Cleanup, CleanupStart, CleanupFlush, CleanupFinalize
<1> QED  BY <1>1, <1>2, <1>3, <1>4, <1>5 DEF FlipMoves

\* Every step keeps the type of the owner.
LEMMA OwnerTyped == ASSUME Inv, Next PROVE owner' \in OwnerRec
<1> USE ConstantFacts DEF Kind
<1>0. /\ owner \in OwnerRec /\ crtc \in Crtcs /\ owner.crtc \in Crtc
      /\ crtc[owner.crtc].work \in Flip \cup {NoFlip}
  BY DEF Inv, Typed, Crtcs, CrtcRec, OwnerRec
<1>1. ASSUME NEW s \in Stages, Stage(s) PROVE owner' \in OwnerRec
  BY <1>0, <1>1 DEF Stage, OwnerRec
<1>2. Unowned \in OwnerRec
  BY DEF Unowned, OwnerRec, Stages
<1>3. ASSUME Advance, owner.kind \in {"reset", "suspend", "publish"} PROVE owner' \in OwnerRec
  <2>1. CASE owner.crtc < NumCrtc
    <3> DEFINE next == owner.crtc + 1
    <3>1. next \in Crtc
      BY <1>0, <2>1, FlipAssumption DEF Crtc
    <3>2. owner' = [owner EXCEPT !.stage = "quiesce", !.crtc = next]
      BY <1>3, <2>1 DEF Advance
    <3> HIDE DEF next
    <3> QED  BY <1>0, <3>1, <3>2 DEF OwnerRec, Stages
  <2>2. CASE ~(owner.crtc < NumCrtc)
    <3> DEFINE next == AfterQuiesce[owner.kind]
    <3>1. next \in Stages
      BY <1>3 DEF AfterQuiesce, Stages
    <3>2. owner' = [owner EXCEPT !.stage = next, !.crtc = 1]
      BY <1>3, <2>2 DEF Advance
    <3> HIDE DEF next
    <3> QED  BY <1>0, <3>1, <3>2 DEF OwnerRec
  <2> QED  BY <2>1, <2>2
<1>4. owner.stage \in {"quiesce", "flush"} => owner.kind \in {"reset", "suspend", "publish"}
  BY <1>0 DEF Inv, OwnerInv, StageInv, OwnerRec
<1>5. CASE QuiesceMark
  <2>1. owner.stage = "quiesce"
    BY <1>5 DEF QuiesceMark
  <2> DEFINE w == crtc[owner.crtc].work
  <2>2. ASSUME owner' = [owner EXCEPT !.stage = "sync", !.work = w] PROVE owner' \in OwnerRec
    <3>1. w \in Flip \cup {NoFlip}
      BY <1>0
    <3> HIDE DEF w
    <3> QED  BY <1>0, <2>2, <3>1 DEF OwnerRec, Stages
  <2> QED  BY <1>1, <1>3, <1>4, <1>5, <2>1, <2>2 DEF QuiesceMark, Stages
<1>6. CASE QuiesceFlush
  BY <1>3, <1>4, <1>6 DEF QuiesceFlush
<1>7. CASE QuiesceSync
  <2>1. owner' = [owner EXCEPT !.stage = "flush", !.work = NoFlip]
    BY <1>7 DEF QuiesceSync
  <2> QED  BY <1>0, <2>1 DEF OwnerRec, Stages
<1>8. CASE OwnerParks
  <2>1. owner' = [owner EXCEPT !.kind = "publish", !.stage = "quiesce", !.crtc = 1]
    BY <1>8 DEF OwnerParks
  <2> QED  BY <1>0, <2>1 DEF OwnerRec, Stages
<1>9. ASSUME NEW who \in Flip \cup {Task}, NEW kind \in Kind, OwnerBegin(who, kind)
      PROVE  owner' \in OwnerRec
  <2>1. owner' = [who |-> who, kind |-> kind, stage |-> "drain", crtc |-> 1, work |-> NoFlip]
    BY <1>9 DEF OwnerBegin, Unowned
  <2> QED  BY <2>1 DEF OwnerRec, Stages
<1>10. CASE PublishBegin
  <2>1. owner' = [who |-> Publisher, kind |-> "publish", stage |-> "quiesce", crtc |-> 1,
        work |-> NoFlip]
    BY <1>10 DEF PublishBegin, Unowned
  <2> QED  BY <2>1 DEF OwnerRec, Stages
<1>11. CASE OwnerDrained
  <2>1. owner.kind \in Kind
    BY <1>0, <1>11 DEF OwnerDrained, Inv, OwnerInv, StageInv, OwnerRec
  <2>2. \/ owner' = Unowned \/ Stage("check") \/ Stage("cancel") \/ Stage("restore")
    BY <1>11, <2>1 DEF OwnerDrained, Leave
  <2> QED  BY <1>1, <1>2, <2>2 DEF Stages
<1>12. CASE \/ CancelCleanup \/ AwaitCleanup \/ OwnerRestore \/ OwnerFinal \/ OwnerDark
            \/ OwnerRelease \/ OwnerUnpin
  <2>1. \E s \in Stages : Stage(s)
    BY <1>12 DEF CancelCleanup, AwaitCleanup, OwnerRestore, OwnerFinal, OwnerDark, OwnerRelease,
       OwnerUnpin, Stages
  <2> QED  BY <1>1, <2>1
<1>13. CASE OwnerCheck \/ OwnerEnd \/ OwnerRelight \/ OwnerOff \/ OwnerStays \/ PublishDrop
  BY <1>1, <1>2, <1>13 DEF OwnerCheck, OwnerEnd, OwnerRelight, OwnerOff, OwnerStays,
     PublishDrop, Leave,
     Stages
<1>14. CASE FlipMoves \/ Park \/ Hang
  BY <1>0, <1>14, OwnerKept DEF Park, Hang
<1>15. \/ FlipMoves \/ Park \/ Hang
       \/ QuiesceMark \/ QuiesceFlush \/ QuiesceSync \/ OwnerParks \/ PublishBegin \/ OwnerDrained
       \/ CancelCleanup \/ AwaitCleanup \/ OwnerRestore \/ OwnerFinal \/ OwnerDark
       \/ OwnerRelease \/ OwnerUnpin
       \/ OwnerCheck \/ OwnerEnd \/ OwnerRelight \/ OwnerOff \/ OwnerStays \/ PublishDrop
       \/ \E who \in Flip \cup {Task}, kind \in Kind : OwnerBegin(who, kind)
  BY DEF Next, FlipWork, OwnerStep, FlipMoves
<1> QED  BY <1>5, <1>6, <1>7, <1>8, <1>9, <1>10, <1>11, <1>12, <1>13, <1>14, <1>15

\* Every step keeps the types.
LEMMA TypedStep == ASSUME Inv, Next PROVE Typed'
<1>0. work \in Works /\ crtc \in Crtcs /\ owner \in OwnerRec /\ retained \subseteq Flip
  BY DEF Inv, Typed, Works, Crtcs
<1>20. ASSUME NEW c \in Crtc, HandleFlip(c) PROVE crtc[c].work \in Flip
  BY <1>0, <1>20 DEF HandleFlip, Inv, AttachedInv, Crtcs, CrtcRec
<1>21. ASSUME QuiesceSync PROVE owner.work \in Flip
  BY <1>0, <1>21 DEF QuiesceSync, Inv, QuietInv, OwnerRec
<1>1. work' \in Works /\ crtc' \in Crtcs
  <2>1. CASE Calm
    BY <2>1 DEF Calm, Steady
  <2>2. CASE Releases
    BY <1>0, <2>2, FreeSteps DEF Frees, Inv
  <2>3. ASSUME NEW w \in Flip, NEW c \in Crtc, NEW b \in Buf, FlipBegin(w, c, b)
        PROVE  work' \in Works /\ crtc' \in Crtcs
    BY <1>0, <2>3, BeginEffect DEF FlipBegin
  <2>4. ASSUME NEW w \in Flip, FlipAttach(w) \/ FlipProgram(w)
        PROVE  work' \in Works /\ crtc' \in Crtcs
    BY <1>0, <2>4, AttachEffect, ProgramEffect
  <2>5. ASSUME NEW w \in Flip, FlipRefused(w) PROVE work' \in Works /\ crtc' \in Crtcs
    BY <1>0, <2>5, RefuseEffect DEF FlipRefused
  <2>6. ASSUME NEW w \in Flip, FlipCancel(w) PROVE work' \in Works /\ crtc' \in Crtcs
    BY <1>0, <2>6, CancelEffect, DetachEffect DEF FlipCancel
  <2>7. ASSUME NEW w \in Flip, Unpin(w) PROVE work' \in Works /\ crtc' \in Crtcs
    BY <1>0, <2>7, UnpinEffect
  <2>8. ASSUME NEW c \in Crtc, HandleFlip(c) PROVE work' \in Works /\ crtc' \in Crtcs
    BY <1>0, <1>20, <2>8, HandleEffect, DetachEffect
  <2>9. CASE QuiesceSync
    BY <1>0, <1>21, <2>9, SyncEffect, DetachEffect
  <2> QED  BY <2>1, <2>2, <2>3, <2>4, <2>5, <2>6, <2>7, <2>8, <2>9, Shapes DEF Inv
<1>2. retained' \subseteq Flip /\ freed' \subseteq Flip
  <2>0. freed \subseteq Flip
    BY DEF Inv, Typed
  <2>1. CASE Calm
    BY <1>0, <2>0, <2>1 DEF Calm
  <2>2. CASE Releases
    BY <1>0, <2>0, <2>2, FreeSteps DEF Inv, Frees, Release
  <2>3. CASE \/ \E w \in Flip, c \in Crtc, b \in Buf : FlipBegin(w, c, b)
             \/ \E w \in Flip : \/ FlipAttach(w) \/ FlipRefused(w) \/ FlipProgram(w)
                                \/ FlipCancel(w)
             \/ \E c \in Crtc : HandleFlip(c)
    BY <1>0, <2>0, <2>3 DEF FlipBegin, FlipAttach, FlipRefused, FlipProgram, FlipCancel,
       HandleFlip,
       buffers
  <2>4. ASSUME NEW w \in Flip, Unpin(w) PROVE retained' \subseteq Flip /\ freed' \subseteq Flip
    BY <1>0, <2>0, <2>4, UnpinEffect DEF Release
  <2>5. CASE QuiesceSync
    BY <1>0, <1>21, <2>0, <2>5, SyncEffect
  <2> QED  BY <2>1, <2>2, <2>3, <2>4, <2>5, Shapes DEF Inv
<1>3. behind' \subseteq Crtc
  <2>0. behind \subseteq Crtc /\ \A w \in Flip : work[w].crtc \in Crtc
    BY <1>0 DEF Inv, Typed, Works, WorkRec
  <2>1. ASSUME NEW S \in SUBSET Flip, Release(S) PROVE behind' \subseteq Crtc
    BY <2>0, <2>1 DEF Release
  <2>2. CASE Releases
    BY <1>0, <2>1, <2>2, FreeSteps DEF Inv, Frees
  <2>3. ASSUME NEW w \in Flip, Unpin(w) PROVE behind' \subseteq Crtc
    BY <1>0, <2>0, <2>1, <2>3, UnpinEffect
  <2>4. CASE FlipMoves
    <3>1. ASSUME NEW w \in Flip, NEW c \in Crtc, NEW b \in Buf, FlipBegin(w, c, b)
          PROVE  behind' \subseteq Crtc
      BY <2>0, <3>1 DEF FlipBegin
    <3>2. ASSUME NEW w \in Flip,
                 FlipAttach(w) \/ FlipRefused(w) \/ FlipStart(w) \/ FlipWaited(w)
                   \/ FlipHung(w) \/ FlipNoReset(w) \/ FlipProgram(w) \/ FlipShut(w)
                   \/ FlipCancel(w) \/ FlipDecide(w)
          PROVE  behind' \subseteq Crtc
      BY <2>0, <3>2 DEF FlipAttach, FlipRefused, FlipStart, FlipWaited, FlipHung, FlipNoReset,
         FlipProgram, FlipShut, FlipCancel, FlipDecide, buffers
    <3>3. ASSUME NEW c \in Crtc, Latch(c) \/ HandleFlip(c) PROVE behind' \subseteq Crtc
      BY <2>0, <3>3 DEF Latch, HandleFlip, buffers
    <3>4. CASE CleanupStart \/ CleanupFlush
      BY <2>0, <3>4 DEF CleanupStart, CleanupFlush, buffers
    <3> QED  BY <2>2, <2>3, <2>4, <3>1, <3>2, <3>3, <3>4 DEF FlipMoves, Releases, Cleanup
  <2>5. CASE OwnerGoesOn \/ OwnerLeaves \/ QuiesceMark \/ QuiesceSync \/ PublishDrop \/ Park \/ Hang
    BY <2>0, <2>5 DEF OwnerGoesOn, CancelCleanup, AwaitCleanup, QuiesceFlush, OwnerUnpin,
       OwnerParks,
       PublishBegin, OwnerBegin, OwnerLeaves, OwnerDrained, OwnerCheck, OwnerEnd, OwnerOff,
       OwnerStays, QuiesceMark, QuiesceSync, PublishDrop, Park, Hang, buffers
  <2>6. CASE OwnerRestore \/ OwnerDark \/ OwnerRelight
    BY <2>0, <2>6 DEF OwnerRestore, OwnerDark, OwnerRelight, buffers
  <2> QED  BY <2>2, <2>4, <2>5, <2>6
           DEF Next, FlipWork, OwnerStep, FlipMoves, OwnerGoesOn, OwnerLeaves, Releases, Kind
<1>4. /\ hw' \in {"running", "resetting", "suspending", "suspended", "resuming", "parked"}
      /\ needsReset' \in BOOLEAN /\ publish' \in BOOLEAN /\ shown' \in BOOLEAN
  <2>0. /\ hw \in {"running", "resetting", "suspending", "suspended", "resuming", "parked"}
        /\ needsReset \in BOOLEAN /\ publish \in BOOLEAN /\ shown \in BOOLEAN
    BY DEF Inv, Typed
  <2>1. CASE FlipMoves
    BY <2>0, <2>1, OwnerKept
  <2>2. CASE OwnerDrained
    <3>1. owner.kind \in {"reset", "suspend", "resume"}
      BY <1>0, <2>2 DEF OwnerDrained, Inv, OwnerInv, StageInv, OwnerRec, Kind
    <3>2. Shut[owner.kind] \in {"resetting", "suspending", "resuming"}
      BY <3>1 DEF Shut
    <3> QED  BY <2>0, <2>2, <3>2 DEF OwnerDrained
  <2>3. CASE OwnerGoesOn \/ OwnerCheck \/ OwnerEnd \/ OwnerOff \/ OwnerStays
    BY <2>0, <2>3 DEF OwnerGoesOn, CancelCleanup, AwaitCleanup, QuiesceFlush, OwnerUnpin,
       OwnerParks,
       PublishBegin, OwnerBegin, OwnerCheck, OwnerEnd, OwnerOff, OwnerStays
  <2>4. CASE \/ OwnerRestore \/ OwnerDark \/ OwnerRelight \/ OwnerFinal \/ OwnerRelease
             \/ QuiesceMark \/ QuiesceSync \/ PublishDrop \/ Park \/ Hang
    BY <2>0, <2>4 DEF OwnerRestore, OwnerDark, OwnerRelight, OwnerFinal, OwnerRelease,
       QuiesceMark,
       QuiesceSync, PublishDrop, Park, Hang
  <2> QED  BY <2>1, <2>2, <2>3, <2>4
           DEF Next, FlipWork, OwnerStep, FlipMoves, OwnerGoesOn, Kind
<1> QED  BY <1>1, <1>2, <1>3, <1>4, OwnerTyped DEF Typed, Works, Crtcs

-----------------------------------------------------------------------------
(* The owner of a transition *)

\* A work in its radeon_gpu_reset stays there while somebody owns a transition, and no ioctl
\* begins on a device that is shut.
LEMMA FlipPcs ==
  ASSUME Inv, FlipMoves, NEW v \in Flip
  PROVE  /\ work[v].pc = "reset" /\ owner.who # Nobody => work'[v].pc = "reset"
         /\ work'[v].pc = "pinned" => work[v].pc = "pinned" \/ Admitted
<1>0. work \in Works /\ crtc \in Crtcs /\ retained \subseteq Flip
  BY DEF Inv, Typed, Works, Crtcs
<1> DEFINE Good == /\ work[v].pc = "reset" /\ owner.who # Nobody => work'[v].pc = "reset"
                   /\ work'[v].pc = "pinned" => work[v].pc = "pinned" \/ Admitted
<1>1. ASSUME NEW w \in Flip, NEW c \in Crtc, NEW b \in Buf, FlipBegin(w, c, b) PROVE Good
  BY <1>0, <1>1, BeginEffect DEF Only, FlipBegin
<1>2. ASSUME NEW w \in Flip, FlipAttach(w) \/ FlipRefused(w) \/ FlipProgram(w) \/ FlipCancel(w)
                               \/ Unpin(w)
      PROVE  Good
  <2>1. Only(w) /\ work'[w].pc # "pinned"
    BY <1>0, <1>2, AttachEffect, RefuseEffect, ProgramEffect, CancelEffect, UnpinEffect
  <2>2. work[w].pc # "reset"
    BY <1>2 DEF FlipAttach, FlipRefused, FlipProgram, FlipCancel, Unpin
  <2> QED  BY <2>1, <2>2 DEF Only
<1>3. ASSUME NEW w \in Flip, WorkGoesOn(w) PROVE Good
  <2>1. PICK p \in Pc : Goto(w, p) /\ Alike(work[w].pc, p)
    BY <1>3, StartedMoves DEF Inv
  <2>2. Only(w) /\ work'[w].pc = p /\ p # "pinned"
    BY <1>0, <1>3, <2>1, GotoEffect DEF Alike, Pending, Past, WorkGoesOn, FlipStart, FlipWaited,
       FlipHung, FlipNoReset, FlipShut, FlipDecide
  <2>3. work[w].pc = "reset" => owner.who = Nobody
    BY <1>3 DEF WorkGoesOn, FlipStart, FlipWaited, FlipHung, FlipNoReset, FlipShut, FlipDecide
  <2> QED  BY <2>2, <2>3 DEF Only
<1>4. CASE Releases
  BY <1>0, <1>4, FreeSteps DEF Inv, Frees
<1>5. ASSUME NEW c \in Crtc, HandleFlip(c) PROVE Good
  <2>1. crtc[c].work \in Flip /\ work[crtc[c].work].pc = "done"
    BY <1>0, <1>5 DEF HandleFlip, Inv, AttachedInv, Crtcs, CrtcRec
  <2> QED  BY <1>0, <1>5, <2>1, HandleEffect DEF Only
<1>6. CASE CleanupStart \/ CleanupFlush \/ \E c \in Crtc : Latch(c)
  BY <1>6 DEF CleanupStart, CleanupFlush, Latch
<1> QED  BY <1>1, <1>2, <1>3, <1>4, <1>5, <1>6 DEF FlipMoves, WorkGoesOn, Cleanup, Releases

\* The steps of owners put no ioctl into a transaction.
LEMMA NoneBegins ==
  ASSUME Inv, Next, ~FlipMoves, NEW v \in Flip, work'[v].pc = "pinned"
  PROVE  work[v].pc = "pinned"
<1>0. work \in Works
  BY DEF Inv, Typed, Works
<1>1. CASE Calm
  BY <1>1 DEF Calm, Steady, Alike, Pending, Past
<1>2. CASE Releases
  BY <1>0, <1>2, FreeSteps DEF Inv, Frees
<1>3. CASE QuiesceSync
  <2>1. owner.work \in Flip
    BY <1>3 DEF QuiesceSync, Inv, QuietInv, Typed, OwnerRec
  <2> QED  BY <1>0, <1>3, <2>1, SyncEffect DEF Only
<1> QED  BY <1>1, <1>2, <1>3, Shapes DEF Inv, FlipMoves

\* An owner that goes on to the next stage keeps everything else.
LEMMA StageEffect ==
  ASSUME owner \in OwnerRec, NEW s \in Stages, Stage(s)
  PROVE  /\ owner'.stage = s /\ owner'.kind = owner.kind /\ owner'.who = owner.who
         /\ owner'.crtc = owner.crtc
  BY DEF Stage, OwnerRec

\* What follows quiescing in a reset, a suspend and a parked device.
LEMMA AfterEffect ==
  ASSUME NEW k \in {"reset", "suspend", "publish"}
  PROVE  \/ k = "reset" /\ AfterQuiesce[k] = "restore"
         \/ k = "suspend" /\ AfterQuiesce[k] = "dark"
         \/ k = "publish" /\ AfterQuiesce[k] = "drop"
  BY DEF AfterQuiesce

\* Behind a quiesced CRTC comes the next one, or what its transition does after the last.
LEMMA AdvanceEffect ==
  ASSUME owner \in OwnerRec, Advance, owner.kind \in {"reset", "suspend", "publish"}
  PROVE  /\ owner'.kind = owner.kind /\ owner'.who = owner.who
         /\ \/ /\ owner.crtc < NumCrtc /\ owner'.stage = "quiesce"
               /\ owner'.crtc = owner.crtc + 1
            \/ /\ ~(owner.crtc < NumCrtc)
               /\ \/ owner.kind = "reset" /\ owner'.stage = "restore"
                  \/ owner.kind = "suspend" /\ owner'.stage = "dark"
                  \/ owner.kind = "publish" /\ owner'.stage = "drop"
<1>1. CASE owner.crtc < NumCrtc
  <2> DEFINE next == owner.crtc + 1
  <2>1. owner' = [owner EXCEPT !.stage = "quiesce", !.crtc = next]
    BY <1>1 DEF Advance
  <2> HIDE DEF next
  <2>2. owner'.kind = owner.kind /\ owner'.who = owner.who /\ owner'.stage = "quiesce"
        /\ owner'.crtc = next
    BY <2>1 DEF OwnerRec
  <2> QED  BY <1>1, <2>2 DEF next
<1>2. CASE ~(owner.crtc < NumCrtc)
  <2> DEFINE next == AfterQuiesce[owner.kind]
  <2>1. owner' = [owner EXCEPT !.stage = next, !.crtc = 1]
    BY <1>2 DEF Advance
  <2>2. \/ owner.kind = "reset" /\ next = "restore"
        \/ owner.kind = "suspend" /\ next = "dark"
        \/ owner.kind = "publish" /\ next = "drop"
    BY AfterEffect
  <2> HIDE DEF next
  <2>3. owner'.kind = owner.kind /\ owner'.who = owner.who /\ owner'.stage = next
    BY <2>1 DEF OwnerRec
  <2> QED  BY <1>2, <2>2, <2>3
<1> QED  BY <1>1, <1>2

\* Every step keeps StageInv: a latch at any moment sends the owner down a path that ends
\* with the publisher.
LEMMA StageInvStep == ASSUME Inv, Next PROVE StageInv'
<1>0. StageInv /\ owner \in OwnerRec /\ work \in Works /\ crtc \in Crtcs
  BY DEF Inv, OwnerInv, Typed, Works, Crtcs
<1> USE DEF StageInv, Moved
<1>1. CASE FlipMoves \/ Hang
  BY <1>0, <1>1, OwnerKept DEF Hang
<1>2. CASE Park
  BY <1>0, <1>2 DEF Park
<1>3. ASSUME owner' = Unowned, hw' \in {"running", "suspended", "parked"},
      publish' => hw' = "parked"
      PROVE  StageInv'
  BY <1>3, ConstantFacts DEF Unowned, Nobody
<1>4. ASSUME NEW who \in Flip \cup {Task}, NEW kind \in Kind, OwnerBegin(who, kind) PROVE StageInv'
  <2>1. /\ owner'.who = who /\ owner'.kind = kind /\ owner'.stage = "drain"
        /\ hw' = IF kind = "resume" THEN "suspended" ELSE "running"
        /\ publish' = publish /\ hw' = hw
    BY <1>4 DEF OwnerBegin, Unowned
  <2> QED  BY <1>0, <2>1, ConstantFacts DEF Kind, Nobody, Task
<1>5. CASE PublishBegin
  <2>1. /\ owner'.who = Publisher /\ owner'.kind = "publish" /\ owner'.stage = "quiesce"
        /\ hw' = hw /\ publish /\ ~publish'
    BY <1>5 DEF PublishBegin, Unowned
  <2> QED  BY <1>0, <2>1 DEF Nobody, Publisher
<1>6. CASE OwnerDrained
  <2>1. publish' = publish
    BY <1>6 DEF OwnerDrained
  <2>2. CASE hw = "parked"
    BY <1>0, <1>3, <1>6, <2>1, <2>2 DEF OwnerDrained, Leave
  <2>3. CASE hw # "parked"
    <3>1. owner.kind \in {"reset", "suspend", "resume"}
      BY <1>0, <1>6 DEF OwnerDrained, OwnerRec, Kind
    <3>2. \/ owner.kind = "reset" /\ hw' = "resetting" /\ Stage("check")
          \/ owner.kind = "suspend" /\ hw' = "suspending" /\ Stage("cancel")
          \/ owner.kind = "resume" /\ hw' = "resuming" /\ Stage("restore")
      BY <1>6, <2>3, <3>1 DEF OwnerDrained, Shut
    <3> QED  BY <1>0, <2>1, <2>3, <3>2, StageEffect DEF Stages
  <2> QED  BY <2>2, <2>3
<1>7. CASE OwnerCheck
  BY <1>0, <1>3, <1>7, StageEffect DEF OwnerCheck, Leave, Stages
<1>8. CASE \/ CancelCleanup \/ AwaitCleanup \/ OwnerFinal \/ OwnerDark \/ OwnerRelease
           \/ OwnerUnpin
  BY <1>0, <1>8, StageEffect DEF CancelCleanup, AwaitCleanup, OwnerFinal, OwnerDark,
     OwnerRelease,
     OwnerUnpin, Stages
<1>9. CASE OwnerRestore
  BY <1>0, <1>9, StageEffect DEF OwnerRestore, Stages
<1>10. CASE OwnerEnd \/ OwnerRelight \/ OwnerOff \/ OwnerStays \/ PublishDrop
  <2>1. owner' = Unowned /\ UNCHANGED publish
    BY <1>10 DEF OwnerEnd, OwnerRelight, OwnerOff, OwnerStays, PublishDrop, Leave
  <2>2. (hw' \in {"running", "suspended"} /\ hw # "parked") \/ PublishDrop
    BY <1>10 DEF OwnerEnd, OwnerRelight, OwnerOff, OwnerStays
  <2>3. PublishDrop => hw' = "parked"
    BY <1>0 DEF PublishDrop, OwnerRec, Kind
  <2> QED  BY <1>0, <1>3, <2>1, <2>2, <2>3
<1>11. CASE OwnerParks
  <2>1. owner' = [owner EXCEPT !.kind = "publish", !.stage = "quiesce", !.crtc = 1]
    BY <1>11 DEF OwnerParks
  <2>2. owner'.kind = "publish" /\ owner'.stage = "quiesce" /\ owner'.who = owner.who
    BY <1>0, <2>1 DEF OwnerRec
  <2> QED  BY <1>0, <1>11, <2>2 DEF OwnerParks
<1>12. owner.stage \in {"quiesce", "flush"} => owner.kind \in {"reset", "suspend", "publish"}
  BY <1>0 DEF OwnerRec, Kind
<1>13. ASSUME Advance, owner.stage \in {"quiesce", "flush"}, UNCHANGED <<hw, publish>>
       PROVE StageInv'
  BY <1>0, <1>12, <1>13, AdvanceEffect
<1>14. CASE QuiesceFlush
  BY <1>13, <1>14 DEF QuiesceFlush
<1>15. CASE QuiesceMark
  <2>1. owner.stage = "quiesce" /\ UNCHANGED <<hw, publish>>
    BY <1>15 DEF QuiesceMark
  <2> DEFINE w == crtc[owner.crtc].work
  <2>2. ASSUME owner' = [owner EXCEPT !.stage = "sync", !.work = w]
        PROVE  owner'.stage = "sync" /\ owner'.kind = owner.kind /\ owner'.who = owner.who
    BY <1>0, <2>2 DEF OwnerRec
  <2>3. Stage("flush") \/ Advance \/ owner' = [owner EXCEPT !.stage = "sync", !.work = w]
    BY <1>0, <1>15, MarkEffect
  <2> HIDE DEF w
  <2> QED  BY <1>0, <1>12, <1>13, <2>1, <2>2, <2>3, StageEffect DEF Stages
<1>16. CASE QuiesceSync
  <2>1. owner' = [owner EXCEPT !.stage = "flush", !.work = NoFlip]
    BY <1>16 DEF QuiesceSync
  <2>2. owner'.stage = "flush" /\ owner'.kind = owner.kind /\ owner'.who = owner.who
    BY <1>0, <2>1 DEF OwnerRec
  <2>3. owner.stage = "sync" /\ UNCHANGED <<hw, publish>>
    BY <1>16 DEF QuiesceSync
  <2> QED  BY <1>0, <2>2, <2>3 DEF OwnerRec, Kind
<1> QED  BY <1>1, <1>2, <1>4, <1>5, <1>6, <1>7, <1>8, <1>9, <1>10, <1>11, <1>14, <1>15, <1>16
         DEF Next, FlipWork, OwnerStep, FlipMoves, Kind

\* What a step of an owner leaves of the owner and of the works.
LEMMA OwnerMoves ==
  ASSUME Inv, Next, ~FlipMoves
  PROVE  \/ owner' = Unowned
         \/ PublishBegin
         \/ \E who \in Flip \cup {Task}, kind \in Kind : OwnerBegin(who, kind)
         \/ /\ owner'.who = owner.who /\ owner'.kind \in {owner.kind, "publish"}
            /\ \/ UNCHANGED work \/ QuiesceMark \/ QuiesceSync \/ OwnerFinal \/ OwnerRelease
<1>0. /\ owner \in OwnerRec /\ work \in Works /\ crtc \in Crtcs
      /\ owner.stage \in {"quiesce", "flush"} => owner.kind \in {"reset", "suspend", "publish"}
  BY DEF Inv, OwnerInv, StageInv, Typed, Works, Crtcs, OwnerRec, Kind
<1> DEFINE Goal == owner'.who = owner.who /\ owner'.kind \in {owner.kind, "publish"}
<1>1. ASSUME NEW s \in Stages, Stage(s) PROVE Goal
  BY <1>0, <1>1, StageEffect
<1>2. ASSUME owner.stage \in {"quiesce", "flush"}, Advance PROVE Goal
  BY <1>0, <1>2, AdvanceEffect
<1>3. CASE OwnerDrained
  <2>1. owner.kind \in Kind
    BY <1>0, <1>3 DEF OwnerDrained, Inv, OwnerInv, StageInv, OwnerRec
  <2>2. \/ owner' = Unowned
        \/ UNCHANGED work /\ (Stage("check") \/ Stage("cancel") \/ Stage("restore"))
    BY <1>3, <2>1 DEF OwnerDrained, Leave, Kind
  <2>3. {"check", "cancel", "restore"} \subseteq Stages
    BY DEF Stages
  <2>4. UNCHANGED work /\ (Stage("check") \/ Stage("cancel") \/ Stage("restore")) => Goal
    BY <1>1, <2>3
  <2> QED  BY <2>2, <2>4
<1>11. CASE OwnerCheck
  BY <1>1, <1>11 DEF OwnerCheck, Leave, Stages
<1>4. CASE \/ CancelCleanup \/ AwaitCleanup \/ OwnerFinal \/ OwnerDark \/ OwnerRelease
           \/ OwnerUnpin \/ OwnerRestore
  BY <1>1, <1>4 DEF CancelCleanup, AwaitCleanup, OwnerFinal, OwnerDark, OwnerRelease,
     OwnerUnpin, OwnerRestore, Stages
<1>5. CASE OwnerEnd \/ OwnerRelight \/ OwnerOff \/ OwnerStays \/ PublishDrop
  BY <1>5 DEF OwnerEnd, OwnerRelight, OwnerOff, OwnerStays, PublishDrop, Leave
<1>6. CASE OwnerParks
  <2>1. owner' = [owner EXCEPT !.kind = "publish", !.stage = "quiesce",
        !.crtc = 1] /\ UNCHANGED work
    BY <1>6 DEF OwnerParks
  <2> QED  BY <1>0, <2>1 DEF OwnerRec
<1>7. CASE QuiesceFlush
  BY <1>2, <1>7 DEF QuiesceFlush
<1>8. CASE QuiesceMark
  <2>1. owner.stage = "quiesce"
    BY <1>8 DEF QuiesceMark
  <2> DEFINE w == crtc[owner.crtc].work
  <2>2. ASSUME owner' = [owner EXCEPT !.stage = "sync", !.work = w] PROVE Goal
    BY <1>0, <2>2 DEF OwnerRec
  <2>3. Stage("flush") \/ Advance \/ owner' = [owner EXCEPT !.stage = "sync", !.work = w]
    BY <1>0, <1>8, MarkEffect
  <2> HIDE DEF w
  <2>4. "flush" \in Stages
    BY DEF Stages
  <2> QED  BY <1>1, <1>2, <1>8, <2>1, <2>2, <2>3, <2>4
<1>9. CASE QuiesceSync
  <2>1. owner' = [owner EXCEPT !.stage = "flush", !.work = NoFlip]
    BY <1>9 DEF QuiesceSync
  <2> QED  BY <1>0, <1>9, <2>1 DEF OwnerRec
<1>10. CASE Park \/ Hang
  BY <1>10 DEF Park, Hang
<1> QED  BY <1>3, <1>4, <1>5, <1>6, <1>7, <1>8, <1>9, <1>10, <1>11
         DEF Next, FlipWork, OwnerStep, FlipMoves, Kind

\* Every step keeps OwnerInv.
LEMMA OwnerInvStep == ASSUME Inv, Next PROVE OwnerInv'
<1>0. /\ StageInv /\ owner \in OwnerRec /\ work \in Works /\ crtc \in Crtcs /\ OwnerInv
  BY DEF Inv, OwnerInv, Typed, Works, Crtcs
<1> DEFINE Reset == owner.who \in Flip => owner.kind \in {"reset",
    "publish"} /\ work[owner.who].pc = "reset"
           Empty == Moved \/ hw = "suspended" => InTransaction = {}
<1>1. CASE FlipMoves
  <2>1. UNCHANGED <<owner, hw>>
    BY <1>1, OwnerKept
  <2>2. Reset'
    BY <1>0, <1>1, <2>1, FlipPcs, ConstantFacts DEF OwnerInv
  <2>3. Moved \/ hw = "suspended" => ~Admitted
    BY <1>0 DEF Moved, Admitted, StageInv, OwnerRec, Kind
  <2>4. Empty'
    BY <1>0, <1>1, <2>1, <2>3, FlipPcs DEF OwnerInv, Moved, InTransaction
  <2> QED  BY <2>2, <2>4, StageInvStep DEF OwnerInv
<1>2. CASE ~FlipMoves
  <2>1. Reset'
    <3>1. CASE owner' = Unowned
      BY <3>1, ConstantFacts DEF Unowned
    <3>2. CASE PublishBegin
      BY <3>2, ConstantFacts DEF PublishBegin, Unowned
    <3>3. ASSUME NEW who \in Flip \cup {Task}, NEW kind \in Kind, OwnerBegin(who, kind) PROVE Reset'
      <4>1. owner'.who = who /\ owner'.kind = kind /\ UNCHANGED work
        BY <3>3 DEF OwnerBegin, Unowned
      <4> QED  BY <3>3, <4>1, ConstantFacts DEF OwnerBegin
    <3>4. CASE /\ owner'.who = owner.who /\ owner'.kind \in {owner.kind, "publish"}
               /\ \/ UNCHANGED work \/ QuiesceMark \/ QuiesceSync \/ OwnerFinal \/ OwnerRelease
      <4>1. ASSUME owner.who \in Flip PROVE work'[owner.who].pc = "reset"
        <5>0. work[owner.who].pc = "reset"
          BY <1>0, <4>1 DEF OwnerInv
        <5>1. CASE UNCHANGED work
          BY <5>0, <5>1
        <5>2. CASE QuiesceMark
          BY <1>0, <4>1, <5>0, <5>2, MarkEffect
        <5>3. CASE QuiesceSync
          <6>1. owner.work \in Flip
            BY <5>3 DEF QuiesceSync, Inv, QuietInv, Typed, OwnerRec
          <6> QED  BY <1>0, <4>1, <5>0, <5>3, <6>1, SyncEffect DEF Only
        <5>4. CASE OwnerFinal \/ OwnerRelease
          BY <4>1, <5>0, <5>4, FreeSteps DEF Inv, Frees, Releases
        <5> QED  BY <3>4, <5>1, <5>2, <5>3, <5>4
      <4> QED  BY <1>0, <3>4, <4>1 DEF OwnerInv
    <3> HIDE DEF Reset
    <3> QED  BY <1>2, <3>1, <3>2, <3>3, <3>4, OwnerMoves
  <2>2. InTransaction = {} => InTransaction' = {}
    BY <1>2, NoneBegins DEF InTransaction
  <2>3. Moved' \/ hw' = "suspended" => Moved \/ hw = "suspended" \/ InTransaction = {}
    <3>1. CASE OwnerDrained \/ PublishBegin
      BY <3>1 DEF OwnerDrained, PublishBegin
    <3>2. CASE \/ OwnerCheck \/ CancelCleanup \/ AwaitCleanup \/ OwnerFinal \/ OwnerDark
               \/ OwnerRelease \/ OwnerUnpin \/ OwnerRestore \/ OwnerEnd \/ OwnerRelight
               \/ OwnerOff \/ OwnerStays \/ PublishDrop \/ OwnerParks \/ QuiesceFlush
               \/ QuiesceMark \/ QuiesceSync
      BY <3>2 DEF OwnerCheck, CancelCleanup, AwaitCleanup, OwnerFinal, OwnerDark, OwnerRelease,
         OwnerUnpin, OwnerRestore, OwnerEnd, OwnerRelight, OwnerOff, OwnerStays, PublishDrop,
         OwnerParks, QuiesceFlush, QuiesceMark, QuiesceSync, Moved
    <3>3. CASE Park \/ Hang
      BY <3>3 DEF Park, Hang, Moved
    <3>4. ASSUME NEW who \in Flip \cup {Task}, NEW kind \in Kind, OwnerBegin(who, kind)
          PROVE  ~Moved' /\ hw' = hw
      BY <3>4 DEF OwnerBegin, Unowned, Moved
    <3> QED  BY <1>2, <3>1, <3>2, <3>3, <3>4
             DEF Next, FlipWork, OwnerStep, FlipMoves, Kind
  <2>4. Empty'
    BY <1>0, <2>2, <2>3 DEF OwnerInv
  <2> QED  BY <2>1, <2>4, StageInvStep DEF OwnerInv
<1> QED  BY <1>1, <1>2

-----------------------------------------------------------------------------
(* Where flips are *)

\* The three parts that say where a flip is.
Places == AttachedInv /\ PlaceInv /\ PinnedInv

\* The CRTC of a work is a CRTC, and the work of a CRTC a flip or none.
LEMMA WorkTypes ==
  ASSUME work \in Works, crtc \in Crtcs
  PROVE  /\ \A w \in Flip : work[w].crtc \in Crtc
         /\ \A c \in Crtc : crtc[c].work \in Flip \/ crtc[c].work = NoFlip
  BY DEF Works, Crtcs, WorkRec, CrtcRec

\* What is known of a flip that is attached.
LEMMA AttachedFacts ==
  ASSUME work \in Works, crtc \in Crtcs, AttachedInv, NEW w \in Flip, Attached(w)
  PROVE  LET c == work[w].crtc IN
         /\ c \in Crtc /\ crtc[c].work = w /\ w \notin retained \cup freed
         /\ crtc[c].fb = work[w].new
         /\ \/ crtc[c].status = "pending" /\ ~work[w].submitted /\ work[w].pc \in Pending
            \/ crtc[c].status = "submitted" /\ work[w].pc = "done"
<1> DEFINE c == work[w].crtc
<1>1. c \in Crtc /\ crtc[c].work = w /\ w # NoFlip
  BY WorkTypes, ConstantFacts DEF Attached
<1> HIDE DEF c
<1> QED  BY <1>1 DEF AttachedInv, c

\* A calm step leaves every flip in its place.
LEMMA CalmPlaces == ASSUME work \in Works, crtc \in Crtcs, Places, Calm PROVE Places'
<1>0. /\ \A w \in Flip : work[w].crtc \in Crtc
      /\ \A c \in Crtc : crtc[c].work \in Flip \/ crtc[c].work = NoFlip
  BY WorkTypes
<1>1. /\ \A w \in Flip : Kept(w) /\ Alike(work[w].pc, work'[w].pc)
      /\ Still /\ retained' = retained /\ freed' = freed
  BY DEF Calm, Steady
<1>2. AttachedInv'
  BY <1>0, <1>1 DEF Places, AttachedInv, Kept, Alike, Still, Pending, Past
<1>3. \A w \in Flip : Attached(w)' <=> Attached(w)
  BY <1>0, <1>1 DEF Attached, Kept, Still
<1>4. PlaceInv'
  BY <1>1, <1>3 DEF Places, PlaceInv, Kept, Alike, Pending, Past
<1>5. PinnedInv'
  BY <1>0, <1>1 DEF Places, PinnedInv, Kept, Alike, Still, Pending, Past
<1> QED  BY <1>2, <1>4, <1>5 DEF Places

\* Freed flips leave the retained ones, and nothing is left of them elsewhere.
LEMMA FreePlaces ==
  ASSUME work \in Works, crtc \in Crtcs, Places, NEW S \in SUBSET retained, Frees(S),
    retained \subseteq Flip
  PROVE  Places'
<1>0. /\ \A w \in Flip : work[w].crtc \in Crtc
      /\ \A c \in Crtc : crtc[c].work \in Flip \/ crtc[c].work = NoFlip
  BY WorkTypes
<1>1. /\ crtc' = crtc /\ retained' = retained \ S /\ freed' = freed \cup S
      /\ \A v \in Flip :
           /\ v \notin S => Kept(v)
           /\ v \in S => ~work'[v].submitted
           /\ work'[v].pc = work[v].pc
                \/ (work[v].pc \in {"release", "drop"} /\ work'[v].pc = "done")
  BY DEF Frees, Release
<1>2. AttachedInv'
  BY <1>0, <1>1 DEF Places, AttachedInv, Kept, Pending
<1>3. \A v \in Flip : Attached(v) => v \notin retained /\ Attached(v)'
  <2> TAKE v \in Flip
  <2> HAVE Attached(v)
  <2>1. v \notin retained
    BY AttachedFacts DEF Places
  <2> QED  BY <1>1, <2>1 DEF Attached, Kept
<1>4. PlaceInv'
  BY <1>1, <1>3 DEF Places, PlaceInv, Kept, Pending, Past
<1>5. \A v \in Flip : work'[v].pc = "pinned" => work[v].pc = "pinned" /\ Kept(v)
  BY <1>1 DEF Places, PlaceInv
<1>6. PinnedInv'
  BY <1>1, <1>5 DEF Places, PinnedInv, Kept
<1> QED  BY <1>2, <1>4, <1>6 DEF Places

\* An ioctl that begins finds its CRTC without a flip.
LEMMA BeginPlaces ==
  ASSUME work \in Works, crtc \in Crtcs, Places, NEW w \in Flip, NEW c \in Crtc, NEW b \in Buf,
         FlipBegin(w, c, b)
  PROVE  Places'
<1>0. /\ \A v \in Flip : work[v].crtc \in Crtc
      /\ \A d \in Crtc : crtc[d].work \in Flip \/ crtc[d].work = NoFlip
  BY WorkTypes
<1>1. /\ work[w].pc = "none" /\ crtc[c].status = "none"
      /\ \A v \in Flip : work[v].pc = "pinned" => work[v].crtc # c
      /\ UNCHANGED <<crtc, retained, freed>>
  BY DEF FlipBegin, InTransaction
<1>2. /\ Only(w) /\ work'[w].pc = "pinned" /\ work'[w].crtc = c /\ work'[w].old = crtc[c].fb
      /\ work'[w].submitted = work[w].submitted
  BY BeginEffect
<1>3. AttachedInv'
  BY <1>0, <1>1, <1>2 DEF Places, AttachedInv, Only, Pending
<1>4. \A v \in Flip \ {w} : Attached(v)' <=> Attached(v)
  BY <1>1, <1>2 DEF Attached, Only
<1>5. PlaceInv'
  BY <1>1, <1>2, <1>4 DEF Places, PlaceInv, Only, Pending, Past
<1>6. PinnedInv'
  BY <1>1, <1>2 DEF Places, PinnedInv, Only
<1> QED  BY <1>3, <1>5, <1>6 DEF Places

\* An ioctl attaches its flip to a CRTC that has none.
LEMMA AttachPlaces ==
  ASSUME work \in Works, crtc \in Crtcs, Places, NEW w \in Flip, FlipAttach(w)
  PROVE  Places'
<1> DEFINE c == work[w].crtc
<1>0. /\ \A v \in Flip : work[v].crtc \in Crtc
      /\ \A d \in Crtc : crtc[d].work \in Flip \/ crtc[d].work = NoFlip
  BY WorkTypes
<1>1. c \in Crtc /\ work[w].pc = "pinned" /\ UNCHANGED <<retained, freed>>
  BY <1>0 DEF FlipAttach, buffers
<1>2. /\ Only(w) /\ work'[w].pc = "queued" /\ Kept(w) /\ OnlyCrtc(c)
      /\ crtc'[c].status = "pending" /\ crtc'[c].work = w /\ crtc'[c].fb = work[w].new
  BY AttachEffect
<1>3. work[w].crtc = c
  OBVIOUS
<1> HIDE DEF c
<1>4. /\ crtc[c].status = "none" /\ w \notin retained \cup freed /\ ~work[w].submitted
      /\ \A v \in Flip \ {w} : work[v].pc = "pinned" => work[v].crtc # c
  BY <1>1, <1>3 DEF Places, PinnedInv, PlaceInv
<1>5. crtc[c].work = NoFlip /\ \A d \in Crtc : crtc[d].work # w
  BY <1>0, <1>1, <1>4, ConstantFacts DEF Places, AttachedInv, Pending
<1>6. AttachedInv'
  BY <1>0, <1>1, <1>2, <1>3, <1>4, <1>5, ConstantFacts DEF Places, AttachedInv, Only, OnlyCrtc,
     Kept, Pending
<1>7. Attached(w)' /\ \A v \in Flip \ {w} : Attached(v) => Attached(v)'
  BY <1>0, <1>1, <1>2, <1>3, <1>5, ConstantFacts DEF Attached, Only, OnlyCrtc, Kept
<1>8. PlaceInv'
  BY <1>1, <1>2, <1>4, <1>7 DEF Places, PlaceInv, Only, Pending, Past
<1>9. PinnedInv'
  BY <1>0, <1>2, <1>4 DEF Places, PinnedInv, Only, OnlyCrtc
<1> QED  BY <1>6, <1>8, <1>9 DEF Places

\* A refused ioctl leaves nothing behind.
LEMMA RefusePlaces ==
  ASSUME work \in Works, crtc \in Crtcs, Places, NEW w \in Flip, FlipRefused(w)
  PROVE  Places'
<1>0. /\ \A v \in Flip : work[v].crtc \in Crtc
      /\ \A d \in Crtc : crtc[d].work \in Flip \/ crtc[d].work = NoFlip
  BY WorkTypes
<1>1. work[w].pc = "pinned" /\ UNCHANGED <<crtc, retained, freed>>
  BY DEF FlipRefused
<1>2. Only(w) /\ work'[w].pc = "refused"
  BY RefuseEffect
<1>3. AttachedInv'
  BY <1>0, <1>1, <1>2 DEF Places, AttachedInv, Only, Pending
<1>4. \A v \in Flip \ {w} : Attached(v)' <=> Attached(v)
  BY <1>1, <1>2 DEF Attached, Only
<1>5. PlaceInv'
  BY <1>1, <1>2, <1>4 DEF Places, PlaceInv, Only, Pending, Past
<1>6. PinnedInv'
  BY <1>1, <1>2 DEF Places, PinnedInv, Only
<1> QED  BY <1>3, <1>5, <1>6 DEF Places

\* A programmed flip stays attached.
LEMMA ProgramPlaces ==
  ASSUME work \in Works, crtc \in Crtcs, Places, NEW w \in Flip, FlipProgram(w)
  PROVE  Places'
<1> DEFINE c == work[w].crtc
<1>0. /\ \A v \in Flip : work[v].crtc \in Crtc
      /\ \A d \in Crtc : crtc[d].work \in Flip \/ crtc[d].work = NoFlip
  BY WorkTypes
<1>1. c \in Crtc /\ work[w].pc = "vblank" /\ UNCHANGED <<retained, freed>>
  BY <1>0 DEF FlipProgram
<1>2. /\ Only(w) /\ work'[w].pc = "done" /\ work'[w].submitted
      /\ work'[w].crtc = c /\ work'[w].old = work[w].old /\ work'[w].new = work[w].new
      /\ OnlyCrtc(c) /\ crtc'[c].status = "submitted"
      /\ crtc'[c].work = crtc[c].work /\ crtc'[c].fb = crtc[c].fb
  BY ProgramEffect
<1>3. work[w].crtc = c
  OBVIOUS
<1> HIDE DEF c
<1>4. crtc[c].work = w /\ w \notin retained \cup freed /\ crtc[c].status # "none"
  <2>1. Attached(w)
    BY <1>1 DEF Places, PlaceInv, Pending
  <2>2. AttachedInv
    BY DEF Places
  <2>3. /\ crtc[c].work = w /\ w \notin retained \cup freed
        /\ crtc[c].status \in {"pending", "submitted"}
    BY <2>1, <2>2, AttachedFacts DEF c
  <2> QED  BY <2>3
<1>5. AttachedInv'
  <2>1. ASSUME NEW d \in Crtc \ {c}
        PROVE  crtc'[d] = crtc[d] /\ (crtc[d].work # NoFlip => work'[crtc[d].work] = work[crtc[d].work])
    BY <1>0, <1>2, <1>3, <2>1 DEF Places, AttachedInv, Only, OnlyCrtc
  <2>2. ASSUME NEW d \in Crtc \ {c}
        PROVE  LET v == crtc'[d].work IN
            \/ v = NoFlip /\ crtc'[d].status = "none"
            \/ /\ v # NoFlip /\ work'[v].crtc = d /\ v \notin retained' \cup freed'
               /\ crtc'[d].fb = work'[v].new
               /\ \/ crtc'[d].status = "pending" /\ ~work'[v].submitted /\ work'[v].pc \in Pending
                  \/ crtc'[d].status = "submitted" /\ work'[v].pc = "done"
    BY <1>1, <2>1, <2>2 DEF Places, AttachedInv
  <2>3. crtc[c].fb = work[w].new /\ w # NoFlip
    BY <1>1, <1>4, ConstantFacts DEF Places, AttachedInv
  <2> QED  BY <1>1, <1>2, <1>4, <2>2, <2>3 DEF AttachedInv
<1>6. \A v \in Flip : Attached(v)' <=> Attached(v)
  BY <1>0, <1>1, <1>2, <1>3 DEF Attached, Only, OnlyCrtc
<1>7. PlaceInv'
  BY <1>1, <1>2, <1>3, <1>4, <1>6 DEF Places, PlaceInv, Only, Pending, Past, Attached
<1>8. PinnedInv'
  BY <1>0, <1>2, <1>4 DEF Places, PinnedInv, Only, OnlyCrtc
<1> QED  BY <1>5, <1>7, <1>8 DEF Places

\* A flip that leaves its CRTC goes to the unpin work or to the retained flips.
LEMMA DetachPlaces ==
  ASSUME work \in Works, crtc \in Crtcs, Places, NEW w \in Flip, Attached(w),
         crtc' = Detached(w), Only(w), Kept(w), freed' = freed,
         \/ work'[w].pc = "unpin" /\ retained' = retained
         \/ work'[w].pc \in {"decide", "done"} /\ retained' = retained \cup {w}
  PROVE  Places'
<1> DEFINE c == work[w].crtc
<1>0. /\ \A v \in Flip : work[v].crtc \in Crtc
      /\ \A d \in Crtc : crtc[d].work \in Flip \/ crtc[d].work = NoFlip
  BY WorkTypes
<1>1. crtc[c].work = w
  BY DEF Attached
<1>2. /\ crtc'[c].status = "none" /\ crtc'[c].work = NoFlip
      /\ crtc'[c].fb = crtc[c].fb /\ OnlyCrtc(c)
  BY DetachEffect
<1>3. work[w].crtc = c /\ c \in Crtc
  BY <1>0
<1> HIDE DEF c
<1>4. w \notin retained \cup freed /\ crtc[c].status # "none" /\ work[w].pc # "pinned"
  <2>2. AttachedInv
    BY DEF Places
  <2>3. /\ w \notin retained \cup freed /\ crtc[c].status \in {"pending", "submitted"}
        /\ work[w].pc \in Pending \cup {"done"}
    BY <2>2, AttachedFacts DEF c
  <2> QED  BY <2>3 DEF Pending
<1>5. AttachedInv'
  <2>1. ASSUME NEW d \in Crtc \ {c}
        PROVE  crtc'[d] = crtc[d] /\ (crtc[d].work # NoFlip => work'[crtc[d].work] = work[crtc[d].work])
    BY <1>0, <1>2, <1>3, <2>1 DEF Places, AttachedInv, Only, OnlyCrtc
  <2>2. ASSUME NEW d \in Crtc \ {c}
        PROVE  LET v == crtc'[d].work IN
            \/ v = NoFlip /\ crtc'[d].status = "none"
            \/ /\ v # NoFlip /\ work'[v].crtc = d /\ v \notin retained' \cup freed'
               /\ crtc'[d].fb = work'[v].new
               /\ \/ crtc'[d].status = "pending" /\ ~work'[v].submitted /\ work'[v].pc \in Pending
                  \/ crtc'[d].status = "submitted" /\ work'[v].pc = "done"
    <3>1. crtc[d].work # w
      BY <1>0, <1>3, <2>2, ConstantFacts DEF Places, AttachedInv
    <3> QED  BY <2>1, <2>2, <3>1 DEF Places, AttachedInv
  <2> QED  BY <1>2, <2>2 DEF AttachedInv
<1>6. \A v \in Flip \ {w} : Attached(v) => Attached(v)'
  BY <1>0, <1>1, <1>2, <1>3 DEF Attached, Only, OnlyCrtc
<1>7. PlaceInv'
  BY <1>4, <1>6 DEF Places, PlaceInv, Only, Pending, Past
<1>8. PinnedInv'
  BY <1>0, <1>2, <1>3, <1>4 DEF Places, PinnedInv, Only, OnlyCrtc, Kept
<1> QED  BY <1>5, <1>7, <1>8 DEF Places

\* The unpin work frees its flip or retains it.
LEMMA UnpinPlaces ==
  ASSUME work \in Works, crtc \in Crtcs, Places, retained \subseteq Flip, NEW w \in Flip, Unpin(w)
  PROVE  Places'
<1>0. /\ \A v \in Flip : work[v].crtc \in Crtc
      /\ \A d \in Crtc : crtc[d].work \in Flip \/ crtc[d].work = NoFlip
  BY WorkTypes
<1>1. work[w].pc = "unpin"
  BY DEF Unpin
<1>2. /\ Only(w) /\ work'[w].pc = "done" /\ crtc' = crtc /\ w \notin retained \cup freed
      /\ \/ retained' = retained \cup {w} /\ freed' = freed
         \/ retained' = retained /\ freed' = freed \cup {w}
  <2>1. w \notin retained \cup freed
    BY <1>1 DEF Places, PlaceInv
  <2>2. Release({w}) => retained' = retained /\ freed' = freed \cup {w}
    BY <2>1 DEF Release
  <2>3. /\ Only(w) /\ work'[w].pc = "done" /\ crtc' = crtc
        /\ \/ Release({w}) 
           \/ retained' = retained \cup {w} /\ UNCHANGED freed
    BY UnpinEffect
  <2> QED  BY <2>1, <2>2, <2>3
<1>3. AttachedInv'
  BY <1>0, <1>1, <1>2 DEF Places, AttachedInv, Only, Pending
<1>4. \A v \in Flip \ {w} : Attached(v)' <=> Attached(v)
  BY <1>1, <1>2 DEF Attached, Only
<1>5. PlaceInv'
  BY <1>1, <1>2, <1>4 DEF Places, PlaceInv, Only, Pending, Past
<1>6. PinnedInv'
  BY <1>1, <1>2 DEF Places, PinnedInv, Only
<1> QED  BY <1>3, <1>5, <1>6 DEF Places

\* Every step keeps every flip in one place.
LEMMA PlacesStep == ASSUME Inv, Next PROVE Places'
<1>0. /\ work \in Works /\ crtc \in Crtcs /\ owner \in OwnerRec /\ retained \subseteq Flip
      /\ Places /\ Typed /\ OwnerInv
  BY DEF Inv, Typed, Works, Crtcs, Places
<1>1. CASE Calm
  BY <1>0, <1>1, CalmPlaces
<1>2. CASE Releases
  BY <1>0, <1>2, FreeSteps, FreePlaces
<1>3. ASSUME NEW w \in Flip, FlipCancel(w) PROVE Places'
  <2>1. Attached(w)
    BY <1>0, <1>3 DEF FlipCancel, Places, PlaceInv, Pending
  <2>2. crtc' = Detached(w) /\ retained' = retained \cup {w} /\ freed' = freed
    BY <1>3, <2>1 DEF FlipCancel
  <2> QED  BY <1>0, <1>3, <2>1, <2>2, CancelEffect, DetachPlaces
<1>4. ASSUME NEW c \in Crtc, HandleFlip(c) PROVE Places'
  <2> DEFINE w == crtc[c].work
  <2>1. w \in Flip /\ work[w].crtc = c
    BY <1>0, <1>4, WorkTypes DEF HandleFlip, Places, AttachedInv
  <2>2. Attached(w)
    BY <2>1 DEF Attached
  <2>3. UNCHANGED <<retained, freed>>
    BY <1>4 DEF HandleFlip, buffers
  <2>4. Only(w) /\ Kept(w) /\ work'[w].pc = "unpin" /\ crtc' = Detached(w)
    BY <1>0, <1>4, <2>1, HandleEffect
  <2> HIDE DEF w
  <2> QED  BY <1>0, <2>1, <2>2, <2>3, <2>4, DetachPlaces
<1>5. CASE QuiesceSync
  <2> DEFINE w == owner.work
  <2>1. w \in Flip /\ w \notin Started
    BY <1>0, <1>5 DEF QuiesceSync, Inv, QuietInv, OwnerRec
  <2>2. /\ work' \in Works /\ Only(w) /\ Kept(w)
        /\ work'[w].pc = IF work[w].pc = "queued" THEN "done" ELSE work[w].pc
        /\ IF Attached(w) THEN crtc' = Detached(w) /\ retained' = retained \cup {w}
           ELSE UNCHANGED <<crtc, retained>>
        /\ freed' = freed
    BY <1>0, <1>5, <2>1, SyncEffect
  <2> HIDE DEF w
  <2>3. CASE Attached(w)
    <3>1. work[w].pc \in {"queued", "done"}
      BY <1>0, <2>1, <2>3, WorkTypes, ConstantFacts DEF Places, AttachedInv, Attached, Started,
         Pending
    <3> QED  BY <1>0, <2>1, <2>2, <2>3, <3>1, DetachPlaces
  <2>4. CASE ~Attached(w)
    <3>1. work'[w].pc = work[w].pc
      BY <1>0, <2>1, <2>2, <2>4 DEF Places, PlaceInv, Pending
    <3> QED  BY <1>0, <2>1, <2>2, <2>4, <3>1, CalmPlaces DEF Calm, Steady, Kept, Only, Alike,
                Still
  <2> QED  BY <2>3, <2>4
<1> QED  BY <1>0, <1>1, <1>2, <1>3, <1>4, <1>5, BeginPlaces, AttachPlaces, RefusePlaces,
            ProgramPlaces, UnpinPlaces, Shapes

-----------------------------------------------------------------------------
(* Quiescing *)

\* Where a work is that has left the display behind.
Later == {"unpin", "decide", "release", "drop"}
\* A step attaches nothing to CRTC c, queues nothing there, and takes no work there back to
\* the display; the work of the owner stays queued.
QueueKept(c) ==
  /\ crtc'[c].work \in {crtc[c].work, NoFlip}
  /\ \A v \in Flip : v \in OnQueue(c)' =>
       v \in OnQueue(c) /\ (work[v].pc \in Later => work'[v].pc \in Later)
  /\ owner.who \in OnQueue(c) => owner.who \in OnQueue(c)'

\* Then a quiet CRTC stays quiet.
LEMMA QuietKept ==
  ASSUME NEW c \in Crtc, Quiet(c), QueueKept(c), owner'.who = owner.who
  PROVE  Quiet(c)'
<1>1. crtc'[c].work \in {NoFlip, owner'.who}
  BY DEF Quiet, QueueKept
<1>2. ASSUME NEW v \in OnQueue(c)', v # owner'.who
      PROVE  work'[v].pc \in Later /\ owner'.who \in OnQueue(c)'
  <2>1. v \in Flip /\ v \in OnQueue(c) /\ (work[v].pc \in Later => work'[v].pc \in Later)
    BY <1>2 DEF QueueKept, OnQueue
  <2> QED  BY <1>2, <2>1 DEF Quiet, QueueKept, Later
<1> QED  BY <1>1, <1>2 DEF Quiet, Later

\* A release queues nothing.
LEMMA FreesQueue ==
  ASSUME work \in Works, crtc \in Crtcs, Places, OwnerInv, NEW S \in SUBSET retained, Frees(S),
         owner.who # Nobody => owner.who \in Flip \cup {Task, Publisher}, NEW c \in Crtc
  PROVE  QueueKept(c)
<1>1. crtc'[c].work = crtc[c].work
  BY DEF Frees
<1>2. ASSUME NEW v \in Flip
      PROVE  /\ work'[v].pc = work[v].pc
                  \/ (work[v].pc \in {"release", "drop"} /\ work'[v].pc = "done")
             /\ v \in Started \/ work[v].pc \in {"queued", "unpin"} => work'[v].crtc = work[v].crtc
  <2>1. work[v].pc \in {"queued", "unpin"} => v \notin S
    BY AttachedFacts DEF Places, PlaceInv, Pending
  <2> QED  BY <2>1 DEF Frees, Kept
<1>3. ASSUME NEW v \in Flip, v \in OnQueue(c)'
      PROVE  v \in OnQueue(c) /\ (work[v].pc \in Later => work'[v].pc \in Later)
  BY <1>2, <1>3 DEF OnQueue, Started, Later
<1>4. owner.who \in OnQueue(c) => owner.who \in OnQueue(c)'
  <2> SUFFICES ASSUME owner.who \in Flip, owner.who \in OnQueue(c) PROVE owner.who \in OnQueue(c)'
    BY DEF OnQueue
  <2>1. work[owner.who].pc = "reset"
    BY DEF OwnerInv
  <2> QED  BY <1>2, <2>1 DEF OnQueue, Started
<1> QED  BY <1>1, <1>3, <1>4 DEF QueueKept

\* A step of one work queues nothing, if that work was queued before and has not turned
\* back.
LEMMA OnlyQueue ==
  ASSUME work \in Works, NEW w \in Flip, Only(w), Kept(w), NEW c \in Crtc,
         crtc'[c].work \in {crtc[c].work, NoFlip},
         w \in OnQueue(c)' => w \in OnQueue(c) /\ (work[w].pc \in Later => work'[w].pc \in Later),
         w = owner.who => work'[w].pc = work[w].pc
  PROVE  QueueKept(c)
<1>1. \A v \in Flip : v # w => (v \in OnQueue(c)' <=> v \in OnQueue(c)) /\ work'[v].pc = work[v].pc
  BY DEF Only, OnQueue, Started
<1>2. w = owner.who => (w \in OnQueue(c)' <=> w \in OnQueue(c))
  BY DEF Kept, OnQueue, Started
<1>3. owner.who \in OnQueue(c) => owner.who \in OnQueue(c)'
  BY <1>1, <1>2 DEF OnQueue
<1> QED  BY <1>1, <1>3 DEF QueueKept

\* While the device is not running, and no ioctl is in a transaction, flips and the cleanup
\* work queue nothing.
LEMMA FlipQueue ==
  ASSUME Inv, FlipMoves, hw # "running", InTransaction = {}, NEW c \in Crtc,
         owner.who # Nobody \/ owner.who \notin Flip
  PROVE  QueueKept(c)
<1>0. /\ work \in Works /\ crtc \in Crtcs /\ owner \in OwnerRec /\ retained \subseteq Flip
      /\ Places /\ Typed /\ OwnerInv /\ ~Admitted
  BY DEF Inv, Typed, Works, Crtcs, Places, Admitted
<1>1. ASSUME NEW w \in Flip, Only(w), Kept(w), work[w].pc # "left",
             work[w].pc = "reset" => owner.who = Nobody,
             crtc'[c].work \in {crtc[c].work, NoFlip},
             \/ Alike(work[w].pc, work'[w].pc) /\ work[w].pc \notin {"pinned", "none"}
             \/ work'[w].pc \in {"decide", "done"} /\ work[w].pc \in {"cancel", "unpin", "vblank"}
      PROVE  QueueKept(c)
  <2>1. w \in OnQueue(c)' => w \in OnQueue(c) /\ (work[w].pc \in Later => work'[w].pc \in Later)
    BY <1>1 DEF Kept, OnQueue, Started, Alike, Pending, Past, Later
  <2>2. w # owner.who \/ work[w].pc = "done"
    BY <1>0, <1>1, ConstantFacts DEF OwnerInv
  <2> QED  BY <1>0, <1>1, <2>1, <2>2, OnlyQueue DEF Alike, Pending, Past
<1>2. ASSUME NEW w \in Flip, WorkGoesOn(w) PROVE QueueKept(c)
  <2>1. PICK p \in Pc : Goto(w, p) /\ Alike(work[w].pc, p)
    BY <1>0, <1>2, StartedMoves
  <2>2. work'[w].pc = p /\ Kept(w) /\ Only(w)
    BY <1>0, <2>1, GotoEffect
  <2>3. /\ work[w].pc \notin {"left", "pinned", "none"} /\ crtc' = crtc
        /\ work[w].pc = "reset" => owner.who = Nobody
    BY <1>2 DEF WorkGoesOn, FlipStart, FlipWaited, FlipHung, FlipNoReset, FlipShut, FlipDecide
  <2> QED  BY <1>1, <2>1, <2>2, <2>3
<1>3. ASSUME NEW w \in Flip, FlipCancel(w) PROVE QueueKept(c)
  <2>1. work[w].pc = "cancel" /\ (crtc' = Detached(w) \/ crtc' = crtc)
    BY <1>3 DEF FlipCancel
  <2>2. crtc'[c].work \in {crtc[c].work, NoFlip}
    BY <1>0, <2>1, DetachEffect DEF OnlyCrtc
  <2>3. Only(w) /\ Kept(w) /\ work'[w].pc \in {"decide", "done"}
    BY <1>0, <1>3, CancelEffect
  <2> QED  BY <1>1, <2>1, <2>2, <2>3
<1>4. ASSUME NEW w \in Flip, Unpin(w) PROVE QueueKept(c)
  <2>1. work[w].pc = "unpin"
    BY <1>4 DEF Unpin
  <2>2. Only(w) /\ Kept(w) /\ work'[w].pc = "done" /\ crtc' = crtc
    BY <1>0, <1>4, UnpinEffect
  <2> QED  BY <1>1, <2>1, <2>2
<1>5. CASE Releases
  BY <1>0, <1>5, FreeSteps, FreesQueue DEF OwnerRec
<1>6. CASE CleanupStart \/ CleanupFlush \/ \E d \in Crtc : Latch(d)
  <2>1. UNCHANGED work
    BY <1>6 DEF CleanupStart, CleanupFlush, Latch
  <2>2. crtc'[c].work = crtc[c].work
    BY <1>0, <1>6, LatchEffect DEF CleanupStart, CleanupFlush, Still
  <2> QED  BY <2>1, <2>2 DEF QueueKept, OnQueue, Started
<1>7. ~ \E w \in Flip : FlipAttach(w) \/ FlipRefused(w) \/ FlipProgram(w)
  BY <1>0 DEF FlipAttach, FlipRefused, FlipProgram, InTransaction
<1>8. ~ \E w \in Flip, d \in Crtc, b \in Buf : FlipBegin(w, d, b)
  BY <1>0 DEF FlipBegin
<1>9. ~ \E d \in Crtc : HandleFlip(d)
  BY DEF HandleFlip
<1> QED  BY <1>2, <1>3, <1>4, <1>5, <1>6, <1>7, <1>8, <1>9 DEF FlipMoves, WorkGoesOn, Cleanup,
            Releases

\* The steps of an owner queue nothing.
LEMMA OwnerQueue ==
  ASSUME Inv, \/ UNCHANGED work /\ \A d \in Crtc : crtc'[d].work = crtc[d].work
              \/ QuiesceMark \/ QuiesceSync \/ OwnerFinal \/ OwnerRelease,
         NEW c \in Crtc
  PROVE  QueueKept(c)
<1>0. /\ work \in Works /\ crtc \in Crtcs /\ owner \in OwnerRec /\ retained \subseteq Flip
      /\ Places /\ Typed /\ OwnerInv
  BY DEF Inv, Typed, Works, Crtcs, Places
<1>1. CASE UNCHANGED work /\ crtc'[c].work = crtc[c].work
  BY <1>1 DEF QueueKept, OnQueue, Started
<1>2. CASE QuiesceMark
  <2>1. \A v \in Flip : Kept(v) /\ work'[v].pc = work[v].pc
    BY <1>0, <1>2, MarkEffect
  <2>2. crtc' = crtc
    BY <1>2 DEF QuiesceMark
  <2> QED  BY <2>1, <2>2 DEF QueueKept, OnQueue, Started, Kept
<1>3. CASE QuiesceSync
  <2> DEFINE w == owner.work
  <2>1. w \in Flip
    BY <1>0, <1>3 DEF QuiesceSync, Inv, QuietInv, OwnerRec
  <2>2. /\ Only(w) /\ Kept(w)
        /\ work'[w].pc = IF work[w].pc = "queued" THEN "done" ELSE work[w].pc
        /\ crtc' = Detached(w) \/ crtc' = crtc
    BY <1>0, <1>3, <2>1, SyncEffect
  <2> HIDE DEF w
  <2>3. crtc'[c].work \in {crtc[c].work, NoFlip}
    BY <1>0, <2>1, <2>2, DetachEffect DEF OnlyCrtc
  <2>4. w \in OnQueue(c)' => w \in OnQueue(c) /\ (work[w].pc \in Later => work'[w].pc \in Later)
    BY <2>2 DEF Kept, OnQueue, Started, Later
  <2>5. w = owner.who => work'[w].pc = work[w].pc
    BY <1>0, <2>1, <2>2 DEF OwnerInv
  <2> QED  BY <1>0, <2>1, <2>2, <2>3, <2>4, <2>5, OnlyQueue
<1>4. CASE OwnerFinal \/ OwnerRelease
  BY <1>0, <1>4, FreeSteps, FreesQueue DEF OwnerRec, Releases
<1> QED  BY <1>1, <1>2, <1>3, <1>4

\* The CRTCs up to one, before it and behind it.
LEMMA CrtcRange ==
  ASSUME NEW c \in Crtc
  PROVE  /\ c - 1 \in Int /\ c \in Nat /\ c \in 1 .. NumCrtc
         /\ \A d \in 1 .. c : d \in Crtc /\ (d \in 1 .. c - 1 \/ d = c)
         /\ \A d \in 1 .. c - 1 : d \in Crtc /\ d # c
         /\ \A d \in Crtc : ~(c < NumCrtc) => d \in 1 .. c
         /\ 1 .. 1 - 1 = {} /\ (c + 1) - 1 = c
  BY FlipAssumption DEF Crtc

\* A CRTC that is quiet under an owner without a flip has an empty queue.
LEMMA QuietAlone ==
  ASSUME work \in Works, crtc \in Crtcs, NEW c \in Crtc, Quiet(c), owner.who \notin Flip
  PROVE  crtc[c].work = NoFlip /\ OnQueue(c) = {}
<1>1. crtc[c].work = NoFlip
  BY WorkTypes DEF Quiet
<1>2. owner.who \notin OnQueue(c)
  BY DEF OnQueue
<1>3. OnQueue(c) \ {owner.who} = {}
  BY <1>2 DEF Quiet
<1> QED  BY <1>1, <1>2, <1>3

\* An owner that goes on to the next CRTC leaves quiet ones behind.
LEMMA AdvanceQuiet ==
  ASSUME Inv, Advance, owner.stage \in {"quiesce", "flush"}, hw' = hw,
         \A c \in 1 .. owner.crtc : Quiet(c)'
  PROVE  QuietInv'
<1>0. owner \in OwnerRec /\ owner.crtc \in Crtc /\ StageInv
  BY DEF Inv, OwnerInv, Typed, OwnerRec
<1>1. owner.kind \in {"reset", "suspend", "publish"} /\ hw # "suspended"
  BY <1>0 DEF StageInv, OwnerRec, Kind, Moved
<1>2. CASE owner'.stage = "quiesce" /\ owner'.crtc = owner.crtc + 1
  BY <1>0, <1>1, <1>2, CrtcRange DEF QuietInv, Quiesced
<1>3. CASE ~(owner.crtc < NumCrtc) /\ owner'.stage \in {"restore", "dark", "drop"}
  <2>1. \A c \in Crtc : Quiet(c)'
    BY <1>0, <1>3, CrtcRange
  <2> QED  BY <1>3, <2>1 DEF QuietInv
<1> QED  BY <1>0, <1>1, <1>2, <1>3, AdvanceEffect

\* Every step keeps QuietInv.
LEMMA QuietStep == ASSUME Inv, Next PROVE QuietInv'
<1>0. /\ work \in Works /\ crtc \in Crtcs /\ owner \in OwnerRec /\ retained \subseteq Flip
      /\ Places /\ Typed /\ OwnerInv /\ StageInv /\ QuietInv /\ owner.crtc \in Crtc
  BY DEF Inv, OwnerInv, Typed, Works, Crtcs, Places, OwnerRec
<1>1. Moved \/ hw = "suspended" => hw # "running" /\ InTransaction = {}
  BY <1>0 DEF OwnerInv, StageInv, Moved, OwnerRec, Kind
<1> DEFINE Idle == hw' # "suspended" /\ owner'.stage \in {"none", "drain", "check", "cancel",
    "await"}
<1>2. CASE FlipMoves
  <2>1. owner' = owner /\ hw' = hw
    BY <1>2, OwnerKept
  <2>2. ASSUME NEW c \in Crtc, Moved \/ hw = "suspended" PROVE QueueKept(c)
    BY <1>0, <1>1, <1>2, <2>2, FlipQueue, ConstantFacts DEF OwnerRec
  <2>3. ASSUME NEW c \in Crtc, Moved \/ hw = "suspended", Quiet(c) PROVE Quiet(c)'
    BY <2>1, <2>2, <2>3, QuietKept
  <2>4. \A c \in 1 .. owner.crtc - 1 : c \in Crtc
    BY <1>0, CrtcRange
  <2>5. ASSUME owner.stage \in {"sync", "flush"}
        PROVE  crtc'[owner.crtc].work \in {crtc[owner.crtc].work, NoFlip}
    BY <1>0, <2>2, <2>5 DEF Moved, QueueKept
  <2> QED  BY <1>0, <2>1, <2>3, <2>4, <2>5 DEF QuietInv, Quiesced, Moved
<1>3. CASE Park \/ Hang
  BY <1>0, <1>3 DEF Park, Hang, QuietInv, Quiet, Quiesced, OnQueue, Started
<1>4. ASSUME NEW who \in Flip \cup {Task}, NEW kind \in Kind, OwnerBegin(who, kind)
      PROVE  QuietInv'
  <2>1. /\ owner' = [who |-> who, kind |-> kind, stage |-> "drain", crtc |-> 1, work |-> NoFlip]
        /\ owner.who = Nobody /\ UNCHANGED <<crtc, work, hw>>
        /\ hw = "suspended" => who \notin Flip
    BY <1>4, ConstantFacts DEF OwnerBegin, Unowned, Kind
  <2>2. ASSUME hw = "suspended", NEW c \in Crtc PROVE Quiet(c)'
    <3>1. crtc[c].work = NoFlip /\ OnQueue(c) = {}
      BY <1>0, <2>2, <2>1, QuietAlone, ConstantFacts DEF QuietInv
    <3> QED  BY <2>1, <3>1 DEF Quiet, OnQueue, Started
  <2> QED  BY <2>1, <2>2 DEF QuietInv, Quiesced
<1>5. CASE PublishBegin
  <2>1. owner' = [who |-> Publisher, kind |-> "publish", stage |-> "quiesce", crtc |-> 1,
        work |-> NoFlip]
        /\ hw' = "parked"
    BY <1>0, <1>5 DEF PublishBegin, Unowned, StageInv
  <2> QED  BY <2>1, <1>0, CrtcRange DEF QuietInv, Quiesced
<1>6. ASSUME NEW s \in Stages, Stage(s), Quiesced \/ hw = "suspended",
             hw' # "suspended", s \notin {"check", "cancel", "await", "drain", "sync", "flush",
               "quiesce"},
             \A c \in Crtc : QueueKept(c)
      PROVE  QuietInv'
  <2>1. owner'.stage = s /\ owner'.who = owner.who
    BY <1>0, <1>6, StageEffect
  <2>2. \A c \in Crtc : Quiet(c)'
    BY <1>0, <1>6, <2>1, QuietKept DEF QuietInv
  <2> QED  BY <1>6, <2>1, <2>2 DEF QuietInv
<1>7. ASSUME NEW s \in {"check", "cancel", "await"}, Stage(s), hw' # "suspended",
             owner.stage \in {"drain", "check", "cancel"}
      PROVE  QuietInv'
  <2>1. owner'.stage = s /\ owner'.crtc = owner.crtc
    BY <1>0, <1>7, StageEffect DEF Stages
  <2> QED  BY <1>0, <1>7, <2>1 DEF QuietInv, Quiesced
<1>8. ASSUME owner' = Unowned, hw' # "suspended" PROVE QuietInv'
  BY <1>8 DEF QuietInv, Quiesced, Unowned
<1>9. CASE OwnerDrained
  <2>1. owner.kind \in Kind
    BY <1>0, <1>9 DEF OwnerDrained, StageInv, OwnerRec
  <2>2. CASE hw = "parked"
    BY <1>8, <1>9, <2>2 DEF OwnerDrained, Leave
  <2>3. CASE hw # "parked" /\ owner.kind # "resume"
    BY <1>7, <1>9, <2>1, <2>3 DEF OwnerDrained, Kind, Shut
  <2>4. CASE hw # "parked" /\ owner.kind = "resume"
    <3>1. hw = "suspended" /\ hw' = "resuming" /\ Stage("restore") /\ UNCHANGED <<work, crtc>>
      BY <1>0, <1>9, <2>4 DEF OwnerDrained, Shut, StageInv
    <3> QED  BY <1>0, <1>6, <3>1, OwnerQueue DEF Stages
  <2> QED  BY <2>2, <2>3, <2>4
<1>10. CASE OwnerCheck
  <2>1. hw # "suspended"
    BY <1>0, <1>10 DEF OwnerCheck, StageInv, Moved, OwnerRec, Kind
  <2> QED  BY <1>7, <1>8, <1>10, <2>1 DEF OwnerCheck, Leave
<1>11. CASE CancelCleanup
  BY <1>1, <1>7, <1>11, <1>0 DEF CancelCleanup, Moved, StageInv, OwnerRec, Kind
<1>12. CASE AwaitCleanup
  <2>1. owner.stage = "await" /\ owner.crtc = 1 /\ hw' # "suspended"
    BY <1>0, <1>12 DEF AwaitCleanup, QuietInv, StageInv, Moved, OwnerRec, Kind
  <2>2. owner'.stage = "quiesce" /\ owner'.crtc = 1
    BY <1>0, <1>12, <2>1, StageEffect DEF AwaitCleanup, Stages
  <2> QED  BY <2>1, <2>2, CrtcRange, ConstantFacts DEF QuietInv, Quiesced
<1>13. CASE QuiesceMark
  <2> DEFINE o == owner.crtc
             w == crtc[o].work
  <2>1. owner.stage = "quiesce" /\ hw' = hw /\ crtc' = crtc /\ hw # "suspended"
    BY <1>0, <1>13 DEF QuiesceMark, StageInv, Moved, OwnerRec, Kind
  <2>2. \A c \in Crtc : QueueKept(c)
    BY <1>13, OwnerQueue
  <2>3. ASSUME owner'.who = owner.who, NEW c \in 1 .. o - 1 PROVE Quiet(c)'
    BY <1>0, <2>1, <2>2, <2>3, QuietKept, CrtcRange DEF QuietInv
  <2>4. CASE w = NoFlip /\ Stage("flush")
    <3>1. owner'.stage = "flush" /\ owner'.crtc = o /\ owner'.who = owner.who
      BY <1>0, <2>4, StageEffect DEF Stages
    <3> QED  BY <2>1, <2>3, <2>4, <3>1 DEF QuietInv, Quiesced
  <2>5. CASE w # NoFlip /\ owner' = [owner EXCEPT !.stage = "sync", !.work = w]
    <3>1. w \in Flip
      BY <1>0, <2>5, WorkTypes
    <3> HIDE DEF w
    <3>2. owner'.stage = "sync" /\ owner'.crtc = o /\ owner'.who = owner.who /\ owner'.work = w
      BY <1>0, <2>5, <3>1 DEF OwnerRec
    <3>3. crtc'[o].work = w
      BY <2>1 DEF w
    <3> QED  BY <2>1, <2>3, <2>5, <3>2, <3>3 DEF QuietInv, Quiesced
  <2>6. CASE w # NoFlip /\ w = owner.who /\ Advance
    <3>1. owner'.who = owner.who
      BY <1>0, <2>1, <2>6, AdvanceEffect DEF StageInv, OwnerRec, Kind
    <3>2. w \in Flip
      BY <1>0, <2>6, WorkTypes
    <3>3. work[w].crtc = o /\ work[w].pc = "reset"
      BY <1>0, <2>6, <3>2 DEF Places, AttachedInv, OwnerInv
    <3>4. ASSUME NEW v \in OnQueue(o), v # w PROVE work[v].pc \in Later
      <4>1. v \in Flip /\ work[v].crtc = o
        BY <3>4 DEF OnQueue
      <4>2. ~Attached(v)
        BY <3>4, <4>1 DEF Attached
      <4> QED  BY <1>0, <3>4, <4>1, <4>2 DEF Places, PlaceInv, OnQueue, Started, Pending, Later
    <3>5. owner.who \in OnQueue(o)
      BY <2>6, <3>2, <3>3 DEF OnQueue, Started
    <3>6. Quiet(o)
      BY <2>6, <3>4, <3>5 DEF Quiet, Later
    <3>8. \A c \in Crtc : c = o => Quiet(c)'
      BY <2>2, <3>1, <3>6, QuietKept
    <3>7. \A c \in 1 .. o : Quiet(c)'
      BY <1>0, <2>3, <3>1, <3>8, CrtcRange
    <3> QED  BY <2>1, <2>6, <3>7, AdvanceQuiet
  <2> QED  BY <1>0, <1>13, <2>4, <2>5, <2>6, MarkEffect
<1>14. CASE QuiesceSync
  <2> DEFINE o == owner.crtc
             w == owner.work
  <2>1. owner.stage = "sync" /\ hw' = hw /\ hw # "suspended" /\ w \in Flip
    BY <1>0, <1>14 DEF QuiesceSync, StageInv, Moved, OwnerRec, Kind, QuietInv
  <2>2. owner' = [owner EXCEPT !.stage = "flush", !.work = NoFlip]
    BY <1>14 DEF QuiesceSync
  <2>3. owner'.stage = "flush" /\ owner'.crtc = o /\ owner'.who = owner.who
    BY <1>0, <2>2 DEF OwnerRec
  <2>4. \A c \in 1 .. o - 1 : Quiet(c)'
    BY <1>0, <1>14, <2>1, <2>3, OwnerQueue, QuietKept, CrtcRange DEF QuietInv
  <2>5. crtc'[o].work = NoFlip
    <3>1. QueueKept(o)
      BY <1>0, <1>14, OwnerQueue
    <3>2. crtc[o].work \in {NoFlip, w}
      BY <1>0, <2>1 DEF QuietInv
    <3>3. CASE crtc[o].work = w
      <4>1. work[w].crtc = o
        BY <1>0, <2>1, <3>3, ConstantFacts DEF Places, AttachedInv
      <4>2. Attached(w)
        BY <3>3, <4>1 DEF Attached
      <4>3. crtc' = Detached(w)
        BY <1>0, <1>14, <2>1, <4>2, SyncEffect
      <4> HIDE DEF w, o
      <4> QED  BY <1>0, <2>1, <4>1, <4>3, DetachEffect
    <3> QED  BY <3>1, <3>2, <3>3 DEF QueueKept
  <2> QED  BY <2>1, <2>3, <2>4, <2>5 DEF QuietInv, Quiesced
<1>15. CASE QuiesceFlush
  <2> DEFINE o == owner.crtc
  <2>1. owner.stage = "flush" /\ hw' = hw /\ UNCHANGED <<work, crtc>> /\ Advance /\ OnQueue(o) = {}
    BY <1>15 DEF QuiesceFlush
  <2>2. owner'.who = owner.who
    BY <1>0, <2>1, AdvanceEffect DEF StageInv, OwnerRec, Kind
  <2>3. Quiet(o)
    BY <1>0, <2>1 DEF QuietInv, Quiet
  <2>4. \A c \in Crtc : QueueKept(c)
    BY <2>1, OwnerQueue
  <2>5. \A c \in 1 .. o : Quiet(c)'
    BY <1>0, <2>1, <2>2, <2>3, <2>4, QuietKept, CrtcRange DEF QuietInv
  <2> QED  BY <2>1, <2>5, AdvanceQuiet
<1>16. CASE OwnerRestore \/ OwnerDark \/ OwnerUnpin
  <2>1. UNCHANGED work /\ \A d \in Crtc : crtc'[d].work = crtc[d].work
    BY <1>0, <1>16, RestoreEffect, DarkEffect DEF OwnerRestore, OwnerDark, OwnerUnpin, Still
  <2>2. Quiesced /\ hw' = hw /\ hw # "suspended"
    BY <1>0, <1>1, <1>16 DEF OwnerRestore, OwnerDark, OwnerUnpin, Quiesced, StageInv, Moved,
       OwnerRec, Kind
  <2>3. PICK s \in {"final", "end", "release", "off", "relight"} : Stage(s)
    BY <1>16 DEF OwnerRestore, OwnerDark, OwnerUnpin
  <2> QED  BY <1>6, <2>1, <2>2, <2>3, OwnerQueue DEF Stages
<1>17. CASE OwnerFinal \/ OwnerRelease
  <2>2. Quiesced /\ hw' = hw /\ hw # "suspended"
    BY <1>0, <1>17 DEF OwnerFinal, OwnerRelease, Quiesced, StageInv, Moved, OwnerRec, Kind
  <2>3. PICK s \in {"end", "unpin", "relight"} : Stage(s)
    BY <1>17 DEF OwnerFinal, OwnerRelease
  <2> QED  BY <1>6, <1>17, <2>2, <2>3, OwnerQueue DEF Stages
<1>18. CASE OwnerEnd \/ OwnerRelight \/ PublishDrop
  <2>1. owner' = Unowned
    BY <1>18 DEF OwnerEnd, OwnerRelight, PublishDrop, Leave
  <2>2. hw' # "suspended"
    BY <1>0, <1>18 DEF OwnerEnd, OwnerRelight, PublishDrop, StageInv, Moved, OwnerRec, Kind
  <2> QED  BY <1>8, <2>1, <2>2
<1>19. CASE OwnerOff \/ OwnerStays
  <2>1. /\ owner' = Unowned /\ crtc' = crtc /\ Quiesced
        /\ owner.who \notin Flip /\ owner.kind \in {"suspend", "resume"}
    BY <1>0, <1>19 DEF OwnerOff, OwnerStays, Leave, Quiesced, StageInv, OwnerInv, OwnerRec, Kind
  <2>2. UNCHANGED work
    BY <1>19, <2>1 DEF OwnerOff, OwnerStays, Leave
  <2>3. ASSUME NEW c \in Crtc PROVE Quiet(c)'
    <3>1. crtc[c].work = NoFlip /\ OnQueue(c) = {}
      BY <1>0, <2>1, QuietAlone DEF QuietInv
    <3> QED  BY <2>1, <2>2, <3>1 DEF Quiet, OnQueue, Started
  <2> QED  BY <2>1, <2>3 DEF QuietInv, Unowned
<1>20. CASE OwnerParks
  <2>1. owner' = [owner EXCEPT !.kind = "publish", !.stage = "quiesce",
        !.crtc = 1] /\ hw' = "parked"
    BY <1>20 DEF OwnerParks
  <2>2. owner'.stage = "quiesce" /\ owner'.crtc = 1
    BY <1>0, <2>1 DEF OwnerRec
  <2> QED  BY <2>1, <2>2, CrtcRange, ConstantFacts DEF QuietInv, Quiesced
<1> QED  BY <1>2, <1>3, <1>4, <1>5, <1>9, <1>10, <1>11, <1>12, <1>13, <1>14, <1>15, <1>16,
            <1>17,
            <1>18, <1>19, <1>20
         DEF Next, FlipWork, OwnerStep, FlipMoves, Kind

-----------------------------------------------------------------------------
(* What is lit *)

\* No display changes and no scanout pin is taken or given back.
LitKept == shown' = shown /\ \A c \in Crtc : crtc'[c].lit = crtc[c].lit

\* Flips, the interrupt and the cleanup work leave displays and scanout pins alone.
LEMMA FlipLight == ASSUME Inv, FlipMoves PROVE LitKept
<1>0. /\ work \in Works /\ crtc \in Crtcs
      /\ \A c \in Crtc : crtc[c].work \in Flip \/ crtc[c].work = NoFlip
  BY WorkTypes DEF Inv, Typed, Works, Crtcs
<1>1. shown' = shown
  BY OwnerKept
<1> SUFFICES ASSUME NEW c \in Crtc PROVE crtc'[c].lit = crtc[c].lit
  BY <1>1 DEF LitKept
<1>2. ASSUME NEW w \in Flip, FlipAttach(w) \/ FlipProgram(w) PROVE crtc'[c].lit = crtc[c].lit
  BY <1>0, <1>2, AttachEffect, ProgramEffect DEF OnlyCrtc
<1>3. ASSUME NEW w \in Flip, FlipCancel(w) PROVE crtc'[c].lit = crtc[c].lit
  BY <1>0, <1>3, DetachEffect DEF FlipCancel, OnlyCrtc
<1>4. ASSUME NEW d \in Crtc, HandleFlip(d) PROVE crtc'[c].lit = crtc[c].lit
  <2>1. crtc[d].work \in Flip
    BY <1>0, <1>4 DEF HandleFlip, Inv, AttachedInv
  <2> QED  BY <1>0, <1>4, <2>1, HandleEffect, DetachEffect DEF OnlyCrtc
<1>5. ASSUME NEW d \in Crtc, Latch(d) PROVE crtc'[c].lit = crtc[c].lit
  BY <1>0, <1>5, LatchEffect DEF OnlyCrtc
<1>6. CASE \/ \E w \in Flip, d \in Crtc, b \in Buf : FlipBegin(w, d, b)
           \/ \E w \in Flip : \/ FlipRefused(w) \/ FlipStart(w) \/ FlipWaited(w)
                     \/ FlipHung(w) \/ FlipNoReset(w) \/ FlipShut(w)
                     \/ FlipDecide(w) \/ FlipRelease(w) \/ Unpin(w)
           \/ Cleanup
  BY <1>6 DEF FlipBegin, FlipRefused, FlipStart, FlipWaited, FlipHung, FlipNoReset, FlipShut,
     FlipDecide, FlipRelease, Unpin, Cleanup, CleanupStart, CleanupFlush, CleanupFinalize
<1> QED  BY <1>2, <1>3, <1>4, <1>5, <1>6 DEF FlipMoves

\* Every step keeps LightInv.
LEMMA LightStep == ASSUME Inv, Next PROVE LightInv'
<1>0. /\ work \in Works /\ crtc \in Crtcs /\ owner \in OwnerRec /\ StageInv /\ LightInv
      /\ owner.kind \in Kind \cup {"none", "publish"} /\ shown \in BOOLEAN
  BY DEF Inv, OwnerInv, Typed, Works, Crtcs, OwnerRec
<1>1. LitKept => (Bright' <=> Bright) /\ (AllDark' <=> AllDark) /\ (shown' = shown)
  BY DEF LitKept, Bright, AllDark
<1> USE DEF LightInv
<1>2. CASE FlipMoves
  BY <1>0, <1>1, <1>2, FlipLight, OwnerKept
<1>3. CASE Park \/ Hang
  <2>1. LitKept
    BY <1>3 DEF Park, Hang, LitKept
  <2> QED  BY <1>0, <1>1, <1>3, <2>1 DEF Park, Hang
<1>4. ASSUME NEW who \in Flip \cup {Task}, NEW kind \in Kind, OwnerBegin(who, kind)
      PROVE  LightInv'
  <2>1. owner'.kind = kind /\ owner'.stage = "drain" /\ hw' = hw /\ LitKept
    BY <1>4 DEF OwnerBegin, Unowned, LitKept
  <2> QED  BY <1>0, <1>1, <2>1 DEF Kind
<1>5. CASE PublishBegin
  <2>1. owner'.kind = "publish" /\ owner'.stage = "quiesce" /\ hw' = hw /\ hw = "parked" /\ LitKept
    BY <1>0, <1>5 DEF PublishBegin, Unowned, LitKept, StageInv
  <2> QED  BY <1>0, <1>1, <2>1
<1>6. ASSUME owner' = Unowned, hw' = "running" => Bright', hw' = "suspended" => ~shown',
             shown' \/ AllDark'
      PROVE  LightInv'
  BY <1>6 DEF Unowned
<1>7. CASE OwnerDrained
  <2>1. LitKept
    BY <1>7 DEF OwnerDrained, LitKept
  <2>2. CASE hw = "parked"
    <3>1. owner' = Unowned /\ hw' = "parked"
      BY <1>7, <2>2 DEF OwnerDrained, Leave
    <3> QED  BY <1>0, <1>1, <2>1, <3>1, <1>6
  <2>3. CASE hw # "parked"
    <3>1. owner.stage = "drain" /\ owner.kind \in {"reset", "suspend", "resume"}
      BY <1>0, <1>7 DEF OwnerDrained, StageInv, Kind
    <3>2. \/ owner.kind = "reset" /\ hw' = "resetting" /\ Stage("check") /\ hw = "running"
          \/ owner.kind = "suspend" /\ hw' = "suspending" /\ Stage("cancel") /\ hw = "running"
          \/ owner.kind = "resume" /\ hw' = "resuming" /\ Stage("restore") /\ hw = "suspended"
      BY <1>0, <1>7, <2>3, <3>1 DEF OwnerDrained, Shut, StageInv
    <3> QED  BY <1>0, <1>1, <2>1, <3>2, StageEffect DEF Stages
  <2> QED  BY <2>2, <2>3
<1>8. CASE OwnerCheck
  <2>1. LitKept /\ owner.stage = "check" /\ owner.kind = "reset" /\ hw \in {"resetting", "parked"}
    BY <1>0, <1>8 DEF OwnerCheck, LitKept, StageInv, Kind, Moved
  <2>2. \/ owner' = Unowned /\ hw' \in {"parked", "running"}
        \/ Stage("cancel") /\ hw' = hw
    BY <1>8, <2>1 DEF OwnerCheck, Leave
  <2> QED  BY <1>0, <1>1, <1>6, <2>1, <2>2, StageEffect DEF Stages
<1>9. ASSUME owner'.kind = owner.kind, hw' = hw, LitKept,
             owner.stage \in {"cancel", "await", "quiesce", "sync", "flush"},
             \/ owner'.stage \in {"await", "quiesce", "sync", "flush"}
             \/ owner.kind = "reset" /\ owner'.stage = "restore"
             \/ owner.kind = "suspend" /\ owner'.stage = "dark"
             \/ owner.kind = "publish" /\ owner'.stage = "drop"
      PROVE  LightInv'
  <2>1. owner.kind \in {"reset", "suspend", "publish"}
    BY <1>0, <1>9 DEF StageInv, Kind
  <2> QED  BY <1>0, <1>1, <1>9, <2>1
<1>10. ASSUME Advance, owner.stage \in {"quiesce", "flush"}, hw' = hw, LitKept PROVE LightInv'
  <2>1. owner.kind \in {"reset", "suspend", "publish"}
    BY <1>0, <1>10 DEF StageInv, Kind
  <2> HIDE DEF LightInv
  <2> QED  BY <1>0, <1>9, <1>10, <2>1, AdvanceEffect
<1>11. CASE CancelCleanup \/ AwaitCleanup
  <2>1. LitKept /\ hw' = hw /\ owner.stage \in {"cancel",
        "await"} /\ (Stage("await") \/ Stage("quiesce"))
    BY <1>11 DEF CancelCleanup, AwaitCleanup, LitKept
  <2>2. owner'.kind = owner.kind /\ owner'.stage \in {"await", "quiesce"}
    BY <1>0, <2>1, StageEffect DEF Stages
  <2> HIDE DEF LightInv
  <2> QED  BY <1>9, <2>1, <2>2
<1>12. CASE QuiesceMark
  <2>1. owner.stage = "quiesce" /\ hw' = hw /\ LitKept
    BY <1>12 DEF QuiesceMark, LitKept
  <2> DEFINE w == crtc[owner.crtc].work
  <2>2. ASSUME owner' = [owner EXCEPT !.stage = "sync", !.work = w]
        PROVE  owner'.stage = "sync" /\ owner'.kind = owner.kind
    BY <1>0, <2>2 DEF OwnerRec
  <2>3. Stage("flush") \/ Advance \/ owner' = [owner EXCEPT !.stage = "sync", !.work = w]
    BY <1>0, <1>12, MarkEffect
  <2> HIDE DEF w, LightInv
  <2>4. Stage("flush") => owner'.stage = "flush" /\ owner'.kind = owner.kind
    BY <1>0, StageEffect DEF Stages
  <2> QED  BY <1>9, <1>10, <2>1, <2>2, <2>3, <2>4
<1>13. CASE QuiesceFlush
  <2>1. Advance /\ owner.stage = "flush" /\ hw' = hw /\ LitKept
    BY <1>13 DEF QuiesceFlush, LitKept
  <2> HIDE DEF LightInv
  <2> QED  BY <1>10, <2>1
<1>14. CASE QuiesceSync
  <2>1. owner' = [owner EXCEPT !.stage = "flush",
        !.work = NoFlip] /\ owner.stage = "sync" /\ hw' = hw
    BY <1>14 DEF QuiesceSync
  <2>2. owner'.stage = "flush" /\ owner'.kind = owner.kind
    BY <1>0, <2>1 DEF OwnerRec
  <2>3. owner.work \in Flip
    BY <1>0, <2>1 DEF Inv, QuietInv, OwnerRec
  <2>4. shown' = shown /\ (crtc' = Detached(owner.work) \/ crtc' = crtc)
    BY <1>14 DEF QuiesceSync
  <2>5. LitKept
    BY <1>0, <2>3, <2>4, DetachEffect DEF LitKept, OnlyCrtc
  <2> HIDE DEF LightInv
  <2> QED  BY <1>9, <2>1, <2>2, <2>5
<1>15. CASE OwnerRestore
  <2>1. owner.kind \in {"reset", "resume"} /\ hw' = hw /\ hw \notin {"suspended"}
        /\ owner.stage = "restore"
    BY <1>0, <1>15 DEF OwnerRestore, StageInv, Moved, Kind
  <2>2. shown' /\ Bright'
    BY <1>0, <1>15, RestoreEffect DEF OwnerRestore, Bright
  <2>3. \/ owner.kind = "reset" /\ Stage("final")
        \/ owner.kind = "resume" /\ Stage("end")
    BY <1>15, <2>1 DEF OwnerRestore
  <2> QED  BY <1>0, <2>1, <2>2, <2>3, StageEffect DEF Stages
<1>16. CASE OwnerFinal
  <2>1. owner.kind = "reset" /\ hw' = hw /\ LitKept /\ Stage("end") /\ hw # "suspended"
    BY <1>0, <1>16 DEF OwnerFinal, StageInv, Moved, Kind, LitKept
  <2> QED  BY <1>0, <1>1, <1>16, <2>1, StageEffect DEF Stages, OwnerFinal
<1>17. CASE OwnerEnd
  <2>1. owner.kind \in {"reset", "resume"} /\ hw' = "running" /\ LitKept /\ owner' = Unowned
        /\ owner.stage = "end"
    BY <1>0, <1>17 DEF OwnerEnd, Leave, StageInv, Kind, LitKept
  <2> QED  BY <1>0, <1>1, <1>6, <2>1
<1>18. CASE OwnerDark
  <2>1. owner.kind = "suspend" /\ hw' = hw /\ shown' = shown /\ Stage("release")
        /\ hw \in {"suspending", "parked"}
        /\ owner.stage = "dark"
    BY <1>0, <1>18 DEF OwnerDark, StageInv, Moved, Kind
  <2>2. shown'
    BY <1>0, <2>1 DEF Bright
  <2> QED  BY <1>0, <2>1, <2>2, StageEffect DEF Stages
<1>19. CASE OwnerRelease
  <2>1. /\ owner.kind = "suspend" /\ hw' = hw /\ LitKept /\ owner.stage = "release"
        /\ hw \in {"suspending", "parked"}
        /\ (Stage("unpin") /\ AllDark) \/ Stage("relight")
    BY <1>0, <1>19 DEF OwnerRelease, StageInv, Moved, Kind, LitKept
  <2> QED  BY <1>0, <1>1, <2>1, StageEffect DEF Stages
<1>20. CASE OwnerUnpin
  <2>1. /\ owner.kind = "suspend" /\ hw' = hw /\ owner.stage = "unpin"
        /\ hw \in {"suspending", "parked"} /\ crtc' = crtc
        /\ \/ Stage("off") /\ shown' = FALSE
           \/ Stage("relight") /\ shown' = shown
    BY <1>0, <1>20 DEF OwnerUnpin, StageInv, Moved, Kind
  <2>2. AllDark'
    BY <1>0, <2>1 DEF AllDark
  <2>3. owner'.kind = "suspend" /\ hw' \notin {"running", "suspended"}
    BY <1>0, <2>1, StageEffect DEF Stages
  <2>4. \/ owner'.stage = "off" /\ ~shown'
        \/ owner'.stage = "relight" /\ shown'
    <3>1. shown
      BY <1>0, <2>1
    <3>2. CASE Stage("off") /\ shown' = FALSE
      <4>1. owner'.stage = "off"
        BY <1>0, <3>2, StageEffect DEF Stages
      <4> QED  BY <3>2, <4>1
    <3>3. CASE Stage("relight") /\ shown' = shown
      <4>1. owner'.stage = "relight"
        BY <1>0, <3>3, StageEffect DEF Stages
      <4> QED  BY <3>1, <3>3, <4>1
    <3> QED  BY <2>1, <3>2, <3>3
  <2> QED  BY <2>2, <2>3, <2>4
<1>21. CASE OwnerRelight
  <2>1. owner' = Unowned /\ hw' = "running" /\ shown' = shown /\ owner.stage = "relight"
    BY <1>21 DEF OwnerRelight, Leave
  <2>2. Bright'
    BY <1>0, <1>21, <2>1, RelightEffect DEF Bright
  <2> QED  BY <1>6, <2>1, <2>2 DEF Bright
<1>22. CASE OwnerOff \/ OwnerStays
  <2>1. owner' = Unowned /\ hw' = "suspended" /\ LitKept
    BY <1>22 DEF OwnerOff, OwnerStays, Leave, LitKept
  <2>2. ~shown
    BY <1>0, <1>22 DEF OwnerOff, OwnerStays
  <2> QED  BY <1>0, <1>1, <1>6, <2>1, <2>2
<1>23. CASE OwnerParks
  <2>1. owner' = [owner EXCEPT !.kind = "publish", !.stage = "quiesce",
        !.crtc = 1] /\ hw' = "parked" /\ LitKept
    BY <1>23 DEF OwnerParks, LitKept
  <2>2. owner'.stage = "quiesce" /\ owner'.kind = "publish"
    BY <1>0, <2>1 DEF OwnerRec
  <2> QED  BY <1>0, <1>1, <2>1, <2>2
<1>24. CASE PublishDrop
  <2>1. owner' = Unowned /\ hw' = hw /\ hw = "parked" /\ LitKept
    BY <1>0, <1>24 DEF PublishDrop, Leave, LitKept, StageInv, Kind
  <2> QED  BY <1>0, <1>1, <1>6, <2>1
<1> HIDE DEF LightInv
<1> QED  BY <1>2, <1>3, <1>4, <1>5, <1>7, <1>8, <1>11, <1>12, <1>13, <1>14, <1>15, <1>16,
            <1>17, <1>18, <1>19, <1>20, <1>21, <1>22, <1>23, <1>24
         DEF Next, FlipWork, OwnerStep, FlipMoves, Kind

-----------------------------------------------------------------------------
(* Pins *)

\* The CRTCs whose scanout pins are on b.
Showing(b) == {c \in Crtc : shown /\ crtc[c].fb = b}
\* The flips that are away from b and not freed.
Leaving(b) == {w \in Accepted \ freed : work[w].old = b}
\* The ioctls that are bringing b on.
Coming(b) == {w \in InTransaction : work[w].new = b}

\* There are finitely many of each.
LEMMA Finite ==
  ASSUME NEW b
  PROVE  /\ IsFiniteSet(Showing(b)) /\ IsFiniteSet(Leaving(b)) /\ IsFiniteSet(Coming(b))
         /\ IsFiniteSet(Crtc) /\ IsFiniteSet(Flip)
         /\ {Cardinality(Showing(b)), Cardinality(Leaving(b)), Cardinality(Coming(b))} \subseteq Nat
<1>1. IsFiniteSet(Crtc) /\ IsFiniteSet(Flip)
  BY FlipAssumption, FS_Interval DEF Crtc, Flip
<1>2. Showing(b) \in SUBSET Crtc /\ Leaving(b) \in SUBSET Flip /\ Coming(b) \in SUBSET Flip
  BY DEF Showing, Leaving, Coming, Accepted, InTransaction
<1>3. IsFiniteSet(Showing(b)) /\ IsFiniteSet(Leaving(b)) /\ IsFiniteSet(Coming(b))
  BY <1>1, <1>2, FS_Subset
<1> QED  BY <1>1, <1>3, FS_CardinalityType

\* And so there are after a step.
LEMMA FiniteNext ==
  ASSUME NEW b
  PROVE  {Cardinality(Showing(b)'), Cardinality(Leaving(b)'), Cardinality(Coming(b)')} \subseteq Nat
<1>1. Showing(b)' \in SUBSET Crtc /\ Leaving(b)' \in SUBSET Flip /\ Coming(b)' \in SUBSET Flip
  BY DEF Showing, Leaving, Coming, Accepted, InTransaction
<1>2. IsFiniteSet(Showing(b)') /\ IsFiniteSet(Leaving(b)') /\ IsFiniteSet(Coming(b)')
  BY <1>1, Finite, FS_Subset
<1> QED  BY <1>2, FS_CardinalityType

\* A balanced buffer has the pins of the three together.
LEMMA PinCount ==
  ASSUME PinsBalance, NEW b \in Buf
  PROVE  /\ pins[b] \in Nat /\ pins = [a \in Buf |-> pins[a]]
         /\ pins[b] = Cardinality(Showing(b)) + Cardinality(Leaving(b)) + Cardinality(Coming(b))
  BY DEF PinsBalance, TypeOK, Showing, Leaving, Coming

\* Pins that add up again are balanced.
LEMMA Balanced ==
  ASSUME Typed', pins' = [a \in Buf |-> pins'[a]],
         \A b \in Buf : pins'[b] = Cardinality(Showing(b)') + Cardinality(Leaving(b)')
                                     + Cardinality(Coming(b)')
  PROVE  PinsBalance'
<1>1. \A b \in Buf : pins'[b] \in Nat
  BY FiniteNext
<1>2. pins' \in [Buf -> Nat]
  BY <1>1
<1>3. TypeOK'
  BY <1>2 DEF TypeOK, Typed, OwnerRec, WorkRec, CrtcRec
<1> QED  BY <1>3 DEF PinsBalance, Showing, Leaving, Coming

\* What taking out or putting in one element does to a cardinality.
LEMMA Counting ==
  ASSUME NEW S, NEW x, IsFiniteSet(S)
  PROVE  /\ Cardinality(S) \in Nat
         /\ x \in S => Cardinality(S \ {x}) = Cardinality(S) - 1
         /\ x \notin S => Cardinality(S \ {x}) = Cardinality(S)
         /\ x \in S => Cardinality(S \cup {x}) = Cardinality(S)
         /\ x \notin S => Cardinality(S \cup {x}) = Cardinality(S) + 1
  BY FS_AddElement, FS_RemoveElement, FS_CardinalityType

\* The ioctl has accepted the flip.
Taken(w) == work[w].pc \notin {"none", "pinned", "refused"}

\* A step that accepts no flip, begins no ioctl and changes no frame buffer keeps the
\* balance.
LEMMA SamePins ==
  ASSUME Typed', PinsBalance, UNCHANGED <<pins, shown, freed>>,
         \A c \in Crtc : crtc'[c].fb = crtc[c].fb,
         \A w \in Flip : /\ work'[w].old = work[w].old /\ work'[w].new = work[w].new
                         /\ Taken(w)' <=> Taken(w)
                         /\ work'[w].pc = "pinned" <=> work[w].pc = "pinned"
  PROVE  PinsBalance'
<1>1. ASSUME NEW b \in Buf
      PROVE  /\ Showing(b)' = Showing(b) /\ Leaving(b)' = Leaving(b) /\ Coming(b)' = Coming(b)
  <2>1. Showing(b)' = Showing(b)
    BY DEF Showing
  <2>2. Leaving(b)' = Leaving(b)
    BY DEF Leaving, Accepted, Taken
  <2>3. Coming(b)' = Coming(b)
    BY DEF Coming, InTransaction
  <2> QED  BY <2>1, <2>2, <2>3
<1>2. pins' = [a \in Buf |-> pins'[a]]
  BY PinCount, ConstantFacts
<1>3. ASSUME NEW b \in Buf
      PROVE  pins'[b] = Cardinality(Showing(b)') + Cardinality(Leaving(b)')
                          + Cardinality(Coming(b)')
  BY <1>1, <1>3, PinCount
<1> QED  BY <1>2, <1>3, Balanced

\* A calm step keeps the balance: a resume takes the pins that a suspend gave back.
LEMMA CalmPins ==
  ASSUME Inv, Typed', Calm, UNCHANGED <<pins, shown>> \/ OwnerRestore \/ OwnerUnpin
  PROVE  PinsBalance'
<1>0. PinsBalance /\ freed' = freed
  BY DEF Inv, Calm
<1>1. \A c \in Crtc : crtc'[c].fb = crtc[c].fb
  BY DEF Calm, Still
<1>2. \A w \in Flip : /\ work'[w].old = work[w].old /\ work'[w].new = work[w].new
                      /\ Taken(w)' <=> Taken(w)
                      /\ work'[w].pc = "pinned" <=> work[w].pc = "pinned"
  BY DEF Calm, Steady, Kept, Alike, Taken, Pending, Past
<1>3. CASE UNCHANGED <<pins, shown>>
  BY <1>0, <1>1, <1>2, <1>3, SamePins
<1>4. ASSUME NEW b \in Buf PROVE Leaving(b)' = Leaving(b) /\ Coming(b)' = Coming(b)
  BY <1>0, <1>2 DEF Leaving, Coming, Accepted, Taken, InTransaction
<1> DEFINE All(b) == {c \in Crtc : crtc[c].fb = b}
<1>5. shown \in BOOLEAN /\ shown' \in BOOLEAN
  BY DEF Inv, Typed
<1>6. ASSUME NEW b \in Buf
      PROVE  /\ shown => Showing(b) = All(b)
             /\ ~shown => Showing(b) = {}
             /\ shown' => Showing(b)' = All(b)
             /\ ~shown' => Showing(b)' = {}
  BY <1>1, <1>5 DEF Showing
<1> HIDE DEF All
<1>7. CASE OwnerRestore
  <2>1. owner.kind \in {"reset", "resume"} /\ owner.stage = "restore" /\ shown'
    BY <1>7 DEF OwnerRestore, Inv, OwnerInv, StageInv, Typed, OwnerRec, Kind
  <2>2. CASE owner.kind = "reset"
    <3>1. shown /\ pins' = pins
      BY <1>7, <2>1, <2>2 DEF OwnerRestore, Inv, LightInv, Bright
    <3> QED  BY <1>0, <1>1, <1>2, <1>5, <2>1, <3>1, SamePins
  <2>3. CASE owner.kind = "resume"
    <3>1. ~shown /\ pins' = [b \in Buf |-> pins[b] + Cardinality(All(b))]
      BY <1>7, <2>1, <2>3 DEF OwnerRestore, Inv, LightInv, All
    <3>2. ASSUME NEW b \in Buf
          PROVE  pins'[b] = Cardinality(Showing(b)') + Cardinality(Leaving(b)')
                              + Cardinality(Coming(b)')
      BY <1>0, <1>4, <1>6, <2>1, <3>1, PinCount, FiniteNext, Finite, FS_EmptySet
    <3> QED  BY <3>1, <3>2, Balanced
  <2> QED  BY <2>1, <2>2, <2>3
<1>8. CASE OwnerUnpin /\ shown' # shown
  <2>1. shown /\ ~shown' /\ pins' = [b \in Buf |-> pins[b] - Cardinality(All(b))]
    BY <1>5, <1>8 DEF OwnerUnpin, Inv, LightInv, All
  <2>2. ASSUME NEW b \in Buf
        PROVE  pins'[b] = Cardinality(Showing(b)') + Cardinality(Leaving(b)')
                            + Cardinality(Coming(b)')
    <3>1. pins[b] = Cardinality(All(b)) + Cardinality(Leaving(b)) + Cardinality(Coming(b))
      BY <1>0, <1>6, <2>1, <2>2, PinCount
    <3>2. /\ Cardinality(Leaving(b)) \in Nat /\ Cardinality(Coming(b)) \in Nat
          /\ Cardinality(All(b)) \in Nat
      BY <1>6, <2>1, <2>2, Finite
    <3>3. Cardinality(Showing(b)') = 0
      BY <1>6, <2>1, <2>2, FS_EmptySet
    <3>4. pins'[b] = pins[b] - Cardinality(All(b))
      BY <2>1, <2>2
    <3>5. Leaving(b)' = Leaving(b) /\ Coming(b)' = Coming(b)
      BY <1>4, <2>2
    <3> QED  BY <3>1, <3>2, <3>3, <3>4, <3>5
  <2> QED  BY <2>1, <2>2, Balanced
<1>9. CASE OwnerUnpin /\ shown' = shown
  <2>1. pins' = pins
    BY <1>9 DEF OwnerUnpin, Inv, LightInv
  <2> QED  BY <1>0, <1>1, <1>2, <1>9, <2>1, SamePins
<1> QED  BY <1>3, <1>7, <1>8, <1>9

\* The works of S, which nobody uses any more, are freed together with a pin on the old
\* buffer of each.
LEMMA FreePins ==
  ASSUME Typed', PinsBalance, NEW S \in SUBSET Flip, UNCHANGED <<crtc, shown>>, Release(S),
         \A w \in S : Taken(w) /\ w \notin freed,
         \A w \in Flip : /\ Taken(w)' <=> Taken(w)
                         /\ work'[w].pc = "pinned" <=> work[w].pc = "pinned"
                         /\ w \notin S => /\ work'[w].old = work[w].old
                                          /\ work'[w].new = work[w].new
  PROVE  PinsBalance'
<1> DEFINE Given(b) == {w \in S : work[w].old = b}
<1>1. pins' = [b \in Buf |-> pins[b] - Cardinality(Given(b))] /\ freed' = freed \cup S
  BY DEF Release
<1>2. ASSUME NEW b \in Buf
      PROVE  /\ Showing(b)' = Showing(b) /\ Coming(b)' = Coming(b)
             /\ Leaving(b)' = Leaving(b) \ Given(b) /\ Leaving(b) \cap Given(b) = Given(b)
  <2>1. Showing(b)' = Showing(b)
    BY DEF Showing
  <2>2. Coming(b)' = Coming(b)
    BY DEF Coming, InTransaction, Taken
  <2>3. Leaving(b)' = Leaving(b) \ Given(b)
    BY <1>1 DEF Leaving, Accepted, Taken
  <2>4. Leaving(b) \cap Given(b) = Given(b)
    BY DEF Leaving, Accepted, Taken
  <2> QED  BY <2>1, <2>2, <2>3, <2>4
<1> HIDE DEF Given
<1>3. ASSUME NEW b \in Buf
      PROVE  pins'[b] = Cardinality(Showing(b)') + Cardinality(Leaving(b)')
                          + Cardinality(Coming(b)')
  <2>1. Cardinality(Leaving(b)') = Cardinality(Leaving(b)) - Cardinality(Given(b))
    <3>1. IsFiniteSet(Leaving(b))
      BY Finite
    <3>2. Cardinality(Leaving(b) \ Given(b))
            = Cardinality(Leaving(b)) - Cardinality(Leaving(b) \cap Given(b))
      BY <3>1, FS_Difference
    <3> QED  BY <1>2, <1>3, <3>2
  <2>2. Cardinality(Given(b)) \in Nat
    BY <1>2, <1>3, Finite, FS_Subset, FS_CardinalityType
  <2> QED  BY <1>1, <1>2, <1>3, <2>1, <2>2, PinCount, Finite
<1> QED  BY <1>1, <1>3, Balanced

\* The ioctl takes a pin on its new buffer.
LEMMA BeginPins ==
  ASSUME Inv, Typed', NEW w \in Flip, NEW c \in Crtc, NEW b \in Buf, FlipBegin(w, c, b)
  PROVE  PinsBalance'
<1>0. work \in Works /\ crtc \in Crtcs /\ PinsBalance
  BY DEF Inv, Typed, Works, Crtcs
<1>1. /\ work[w].pc = "none" /\ Only(w) /\ work'[w].pc = "pinned" /\ work'[w].new = b
      /\ UNCHANGED <<crtc, shown, freed>> /\ pins' = [pins EXCEPT ![b] = @ + 1]
  BY <1>0, BeginEffect DEF FlipBegin
<1>2. ASSUME NEW a \in Buf
      PROVE  /\ Showing(a)' = Showing(a) /\ Leaving(a)' = Leaving(a)
             /\ Coming(a)' = IF a = b THEN Coming(a) \cup {w} ELSE Coming(a)
             /\ w \notin Coming(a)
  BY <1>1 DEF Only, Showing, Leaving, Coming, Accepted, InTransaction
<1>3. ASSUME NEW a \in Buf
      PROVE  pins'[a] = Cardinality(Showing(a)') + Cardinality(Leaving(a)')
                          + Cardinality(Coming(a)')
  <2>1. Cardinality(Coming(a)') = Cardinality(Coming(a)) + (IF a = b THEN 1 ELSE 0)
    <3>1. IsFiniteSet(Coming(a)) /\ Cardinality(Coming(a)) \in Nat
      BY Finite
    <3>2. Cardinality(Coming(a) \cup {w}) = Cardinality(Coming(a)) + 1
      BY <1>2, <1>3, <3>1, FS_AddElement
    <3> QED  BY <1>2, <1>3, <3>1, <3>2
  <2> QED  BY <1>0, <1>1, <1>2, <1>3, <2>1, PinCount, Finite
<1>4. pins' = [a \in Buf |-> pins'[a]]
  BY <1>0, <1>1, PinCount
<1> QED  BY <1>3, <1>4, Balanced

\* A refused ioctl gives it back.
LEMMA RefusePins ==
  ASSUME Inv, Typed', NEW w \in Flip, FlipRefused(w)
  PROVE  PinsBalance'
<1> DEFINE b == work[w].new
<1>0. work \in Works /\ crtc \in Crtcs /\ PinsBalance /\ b \in Buf
  BY DEF Inv, Typed, Works, Crtcs, WorkRec
<1>1. /\ work[w].pc = "pinned" /\ Only(w) /\ work'[w].pc = "refused"
      /\ UNCHANGED <<crtc, shown, freed>> /\ pins' = [pins EXCEPT ![b] = @ - 1]
  BY <1>0, RefuseEffect DEF FlipRefused
<1>2. ASSUME NEW a \in Buf
      PROVE  /\ Showing(a)' = Showing(a) /\ Leaving(a)' = Leaving(a)
             /\ Coming(a)' = Coming(a) \ {w} /\ (w \in Coming(a) <=> a = b)
  BY <1>1 DEF Only, Showing, Leaving, Coming, Accepted, InTransaction
<1> HIDE DEF b
<1>3. ASSUME NEW a \in Buf
      PROVE  pins'[a] = Cardinality(Showing(a)') + Cardinality(Leaving(a)')
                          + Cardinality(Coming(a)')
  <2>1. Cardinality(Coming(a)') = Cardinality(Coming(a)) - (IF a = b THEN 1 ELSE 0)
    BY <1>2, <1>3, Finite, FS_RemoveElement
  <2> QED  BY <1>0, <1>1, <1>2, <1>3, <2>1, PinCount, Finite
<1>4. pins' = [a \in Buf |-> pins'[a]]
  BY <1>0, <1>1, PinCount
<1> QED  BY <1>3, <1>4, Balanced

\* Attaching a flip makes the pin of its new buffer the one of the CRTC, and that of the old
\* one the flip's.
LEMMA AttachPins ==
  ASSUME Inv, Typed', NEW w \in Flip, FlipAttach(w)
  PROVE  PinsBalance'
<1> DEFINE b == work[w].new
           o == work[w].old
           c == work[w].crtc
<1>0. work \in Works /\ crtc \in Crtcs /\ PinsBalance /\ b \in Buf /\ o \in Buf /\ c \in Crtc
  BY DEF Inv, Typed, Works, Crtcs, WorkRec
<1>1. /\ work[w].pc = "pinned" /\ Only(w) /\ work'[w].pc = "queued" /\ work'[w].old = o
      /\ UNCHANGED <<shown, freed, pins>> /\ OnlyCrtc(c) /\ crtc'[c].fb = b
  BY <1>0, AttachEffect DEF FlipAttach, buffers, Kept
<1>2. shown /\ crtc[c].fb = o /\ w \notin freed
  <2>1. shown
    BY DEF FlipAttach, Inv, LightInv, Bright
  <2> QED  BY <1>1, <2>1 DEF Inv, PinnedInv, PlaceInv
<1>3. work[w].new = b /\ work[w].old = o
  OBVIOUS
<1> HIDE DEF b, o, c
<1>4. ASSUME NEW a \in Buf
      PROVE  /\ Showing(a)' = IF a = b THEN Showing(a) \cup {c} ELSE Showing(a) \ {c}
             /\ c \in Showing(a) <=> a = o
             /\ Leaving(a)' = IF a = o THEN Leaving(a) \cup {w} ELSE Leaving(a)
             /\ w \notin Leaving(a)
             /\ Coming(a)' = Coming(a) \ {w} /\ (w \in Coming(a) <=> a = b)
  <2>1. Showing(a)' = IF a = b THEN Showing(a) \cup {c} ELSE Showing(a) \ {c}
    BY <1>0, <1>1, <1>2 DEF OnlyCrtc, Showing
  <2>2. c \in Showing(a) <=> a = o
    BY <1>0, <1>2 DEF Showing
  <2>3. Leaving(a)' = IF a = o THEN Leaving(a) \cup {w} ELSE Leaving(a)
    BY <1>1, <1>2 DEF Only, Leaving, Accepted
  <2>4. w \notin Leaving(a)
    BY <1>1 DEF Leaving, Accepted
  <2>5. Coming(a)' = Coming(a) \ {w}
    BY <1>1 DEF Only, Coming, InTransaction
  <2>6. w \in Coming(a) <=> a = b
    BY <1>1, <1>3 DEF Coming, InTransaction
  <2> QED  BY <2>1, <2>2, <2>3, <2>4, <2>5, <2>6
<1>5. ASSUME NEW a \in Buf
      PROVE  pins'[a] = Cardinality(Showing(a)') + Cardinality(Leaving(a)')
                          + Cardinality(Coming(a)')
  <2>1. Cardinality(Coming(a)') = Cardinality(Coming(a)) - (IF a = b THEN 1 ELSE 0)
    <3>1. IsFiniteSet(Coming(a)) /\ Cardinality(Coming(a)) \in Nat
      BY Finite
    <3>2. /\ w \in Coming(a) => Cardinality(Coming(a) \ {w}) = Cardinality(Coming(a)) - 1
          /\ w \notin Coming(a) => Cardinality(Coming(a) \ {w}) = Cardinality(Coming(a))
      BY <3>1, Counting
    <3>3. Coming(a)' = Coming(a) \ {w} /\ (w \in Coming(a) <=> a = b)
      BY <1>4, <1>5
    <3> QED  BY <3>1, <3>2, <3>3
  <2>2. Cardinality(Leaving(a)') = Cardinality(Leaving(a)) + (IF a = o THEN 1 ELSE 0)
    <3>1. IsFiniteSet(Leaving(a)) /\ w \notin Leaving(a) /\ Cardinality(Leaving(a)) \in Nat
      BY <1>4, <1>5, Finite
    <3>2. Cardinality(Leaving(a) \cup {w}) = Cardinality(Leaving(a)) + 1
      BY <3>1, Counting
    <3>3. Leaving(a)' = IF a = o THEN Leaving(a) \cup {w} ELSE Leaving(a)
      BY <1>4, <1>5
    <3> QED  BY <3>1, <3>2, <3>3
  <2>3. CASE a = b
    <3>1. Cardinality(Showing(a)') = IF a = o THEN Cardinality(Showing(a))
                                              ELSE Cardinality(Showing(a)) + 1
      BY <1>4, <1>5, <2>3, Finite, FS_AddElement
    <3> QED  BY <1>0, <1>1, <1>5, <2>1, <2>2, <2>3, <3>1, PinCount, Finite
  <2>4. CASE a # b
    <3>1. Cardinality(Showing(a)') = IF a = o THEN Cardinality(Showing(a)) - 1
                                              ELSE Cardinality(Showing(a))
      BY <1>4, <1>5, <2>4, Finite, FS_RemoveElement
    <3> QED  BY <1>0, <1>1, <1>5, <2>1, <2>2, <2>4, <3>1, PinCount, Finite
  <2> QED  BY <2>3, <2>4
<1>6. pins' = [a \in Buf |-> pins'[a]]
  BY <1>0, <1>1, PinCount
<1> QED  BY <1>5, <1>6, Balanced

\* Every step keeps the balance.
LEMMA PinsStep == ASSUME Inv, Next PROVE PinsBalance'
<1>0. /\ work \in Works /\ crtc \in Crtcs /\ owner \in OwnerRec /\ retained \subseteq Flip
      /\ Places /\ Typed /\ OwnerInv /\ PinsBalance /\ Typed'
  BY TypedStep DEF Inv, Typed, Works, Crtcs, Places
<1>1. ASSUME Calm, UNCHANGED <<pins, shown>> \/ OwnerRestore \/ OwnerUnpin PROVE PinsBalance'
  BY <1>0, <1>1, CalmPins
<1>2. CASE Releases
  <2>1. PICK S \in SUBSET retained : Frees(S)
    BY <1>0, <1>2, FreeSteps
  <2>2. \A w \in S : Taken(w) /\ w \notin freed
    BY <1>0, <2>1 DEF Places, PlaceInv, Taken
  <2>3. \A w \in Flip : /\ Taken(w)' <=> Taken(w)
                        /\ work'[w].pc = "pinned" <=> work[w].pc = "pinned"
                        /\ w \notin S => /\ work'[w].old = work[w].old
                                         /\ work'[w].new = work[w].new
    BY <2>1 DEF Frees, Kept, Taken
  <2> QED  BY <1>0, <2>1, <2>2, <2>3, FreePins DEF Frees
<1>3. ASSUME NEW w \in Flip, Unpin(w) PROVE PinsBalance'
  <2>1. work[w].pc = "unpin" /\ shown' = shown
    BY <1>3 DEF Unpin
  <2>2. Only(w) /\ work'[w].pc = "done" /\ crtc' = crtc
    BY <1>0, <1>3, UnpinEffect
  <2>3. \A v \in Flip : /\ Taken(v)' <=> Taken(v)
                        /\ work'[v].pc = "pinned" <=> work[v].pc = "pinned"
    BY <2>1, <2>2 DEF Only, Taken
  <2>4. CASE Release({w})
    <3>1. Taken(w) /\ w \notin freed
      BY <1>0, <2>1 DEF Places, PlaceInv, Taken
    <3> QED  BY <1>0, <2>1, <2>2, <2>3, <2>4, <3>1, FreePins DEF Only
  <2>5. CASE Kept(w) /\ UNCHANGED <<freed, pins>>
    BY <1>0, <2>1, <2>2, <2>3, <2>5, SamePins DEF Only, Kept
  <2> QED  BY <1>0, <1>3, <2>4, <2>5, UnpinEffect
<1>4. ASSUME NEW w \in Flip, Only(w), work'[w].old = work[w].old, work'[w].new = work[w].new,
             Taken(w), Taken(w)', UNCHANGED <<pins, shown, freed>>,
             \A c \in Crtc : crtc'[c].fb = crtc[c].fb
      PROVE  PinsBalance'
  BY <1>0, <1>4, SamePins DEF Only, Taken
<1>5. ASSUME NEW w \in Flip, crtc' = Detached(w) \/ crtc' = crtc
      PROVE  \A c \in Crtc : crtc'[c].fb = crtc[c].fb
  BY <1>0, <1>5, DetachEffect DEF OnlyCrtc
<1>6. ASSUME NEW w \in Flip, FlipProgram(w) PROVE PinsBalance'
  <2>1. work[w].pc = "vblank" /\ UNCHANGED <<pins, shown, freed>>
    BY <1>6 DEF FlipProgram
  <2> QED  BY <1>0, <1>4, <1>6, <2>1, ProgramEffect DEF OnlyCrtc, Taken
<1>7. ASSUME NEW w \in Flip, FlipCancel(w) PROVE PinsBalance'
  <2>1. work[w].pc = "cancel" /\ UNCHANGED <<pins, shown,
        freed>> /\ (crtc' = Detached(w) \/ crtc' = crtc)
    BY <1>7 DEF FlipCancel
  <2>2. Only(w) /\ Kept(w) /\ work'[w].pc \in {"decide", "done"}
    BY <1>0, <1>7, CancelEffect
  <2> QED  BY <1>4, <1>5, <2>1, <2>2 DEF Taken, Kept
<1>8. ASSUME NEW c \in Crtc, HandleFlip(c) PROVE PinsBalance'
  <2> DEFINE w == crtc[c].work
  <2>1. w \in Flip /\ work[w].pc = "done"
    BY <1>0, <1>8, WorkTypes DEF HandleFlip, Places, AttachedInv
  <2>2. UNCHANGED <<pins, shown, freed>>
    BY <1>8 DEF HandleFlip, buffers
  <2>3. Only(w) /\ Kept(w) /\ work'[w].pc = "unpin" /\ crtc' = Detached(w)
    BY <1>0, <1>8, <2>1, HandleEffect
  <2> HIDE DEF w
  <2> QED  BY <1>4, <1>5, <2>1, <2>2, <2>3 DEF Taken, Kept
<1>9. CASE QuiesceSync
  <2> DEFINE w == owner.work
  <2>1. w \in Flip
    BY <1>0, <1>9 DEF QuiesceSync, Inv, QuietInv, OwnerRec
  <2>2. /\ Only(w) /\ Kept(w) /\ work'[w].pc = IF work[w].pc = "queued" THEN "done" ELSE work[w].pc
        /\ (crtc' = Detached(w) \/ crtc' = crtc) /\ UNCHANGED <<pins, shown, freed>>
    BY <1>0, <1>9, <2>1, SyncEffect
  <2> HIDE DEF w
  <2>3. \A c \in Crtc : crtc'[c].fb = crtc[c].fb
    BY <1>5, <2>1, <2>2
  <2> QED  BY <1>0, <2>1, <2>2, <2>3, SamePins DEF Taken, Kept, Only
<1> QED  BY <1>0, <1>1, <1>2, <1>3, <1>6, <1>7, <1>8, <1>9, BeginPins, RefusePins, AttachPins,
            Shapes
         DEF Inv

-----------------------------------------------------------------------------
(* What a CRTC scans *)

\* The part of ScanInv about one CRTC.
ScanOf(c) == Follows(c) /\ Feeds(c) /\ Caught(c) /\ Programmed(c) /\ Restored(c)
\* A step does not bring the owner behind the mode set of a reset.
RestoredKept ==
  owner'.kind = "reset" /\ owner'.stage \in {"final", "end"} =>
    owner.kind = "reset" /\ owner.stage \in {"final", "end"}
\* A step leaves what a CRTC scans, what it is programmed to scan and its frame buffer.
SameScan(c) == /\ crtc'[c].scan = crtc[c].scan /\ crtc'[c].next = crtc[c].next
               /\ crtc'[c].fb = crtc[c].fb

\* A step that frees no flip and leaves the scanout of c alone keeps ScanOf(c), unless it
\* settles while flips are outstanding.
LEMMA ScanKept ==
  ASSUME NEW c \in Crtc, ScanOf(c), SameScan(c), RestoredKept, freed' = freed,
         crtc'[c].lit => crtc[c].lit,
         c \in behind => c \in behind',
         \A w \in Flip : Taken(w) /\ work[w].crtc = c => Kept(w) /\ Taken(w)',
         \/ crtc'[c].status = crtc[c].status
         \/ crtc'[c].status # "submitted"
           /\ (crtc[c].status = "submitted" => Unsettled' \/ crtc[c].scan = crtc[c].next),
         \A w \in Flip : Taken(w) /\ Attached(w) /\ work[w].crtc = c =>
                           Attached(w)' \/ ~work[w].submitted \/ Unsettled'
                             \/ crtc[c].scan = crtc[c].next,
         Unsettled => Unsettled' \/ ~crtc'[c].lit
  PROVE  ScanOf(c)'
<1>1. ASSUME NEW w \in Flip, NEW b, Keeps(w, c, b)
      PROVE  /\ work'[w].crtc = c /\ work'[w].old = b /\ work'[w].submitted = work[w].submitted
             /\ w \in Accepted' \ freed'
  BY <1>1 DEF Keeps, Kept, Taken, Accepted
<1>2. Follows(c)'
  <2>1. CASE crtc[c].next = crtc[c].fb
    BY <2>1 DEF SameScan, Follows
  <2>2. CASE crtc[c].scan = crtc[c].next /\ c \in behind
    BY <2>2 DEF SameScan, Follows
  <2>3. ASSUME crtc[c].scan = crtc[c].next,
               NEW w \in Flip, Keeps(w, c, crtc[c].next), ~work[w].submitted
        PROVE  Follows(c)'
    <3>1. /\ work'[w].crtc = c /\ work'[w].old = crtc'[c].next /\ ~work'[w].submitted
          /\ w \in Accepted' \ freed'
      BY <1>1, <2>3 DEF SameScan
    <3> QED  BY <2>3, <3>1 DEF SameScan, Follows, Keeps
  <2> QED  BY <2>1, <2>2, <2>3 DEF ScanOf, Follows
<1>3. Feeds(c)'
  <2> SUFFICES ASSUME crtc'[c].lit PROVE Feeds(c)'
    BY DEF Feeds
  <2>1. CASE crtc[c].scan = crtc[c].next
    BY <2>1 DEF SameScan, Feeds
  <2>2. CASE c \in behind
    BY <2>2 DEF Feeds
  <2>3. ASSUME crtc[c].scan # crtc[c].next,
               NEW w \in Flip, Keeps(w, c, crtc[c].scan),
                 work[w].submitted => Unsettled \/ Attached(w)
        PROVE  Feeds(c)'
    <3>1. /\ work'[w].crtc = c /\ work'[w].old = crtc'[c].scan
          /\ work'[w].submitted = work[w].submitted /\ w \in Accepted' \ freed'
      BY <1>1, <2>3 DEF SameScan
    <3>2. work'[w].submitted => Unsettled' \/ Attached(w)'
      BY <2>3, <3>1 DEF Keeps, Accepted, Taken
    <3> QED  BY <3>1, <3>2 DEF Feeds, Keeps
  <2> QED  BY <2>1, <2>2, <2>3 DEF ScanOf, Feeds
<1>4. Caught(c)'
  BY DEF SameScan, ScanOf, Caught
<1>5. Programmed(c)'
  BY DEF SameScan, ScanOf, Programmed
<1>6. Restored(c)'
  BY DEF SameScan, ScanOf, Restored, RestoredKept
<1> QED  BY <1>2, <1>3, <1>4, <1>5, <1>6 DEF ScanOf

\* Flips that are not attached may be freed while flips complete, or on a dark CRTC: a
\* buffer that is scanned loses its pin only if its flip was given up.
LEMMA FreeScan ==
  ASSUME NEW S \in SUBSET Flip, Release(S), crtc' = crtc, RestoredKept,
         \A w \in Flip : w \notin S => Kept(w) /\ (Taken(w) => Taken(w)'),
         \A w \in S : ~Attached(w),
         NEW c \in Crtc, ScanOf(c),
         (~Unsettled /\ ~Unsettled') \/ ~crtc[c].lit
  PROVE  ScanOf(c)'
<1>0. SameScan(c) /\ crtc'[c].lit = crtc[c].lit /\ crtc'[c].status = crtc[c].status
      /\ freed' = freed \cup S
  BY DEF SameScan, Release
<1>1. ASSUME NEW w \in S, ~work[w].submitted, work[w].crtc = c, crtc[c].scan = work[w].old
      PROVE  c \in behind'
  BY <1>1 DEF Release
<1>2. c \in behind => c \in behind'
  BY DEF Release
<1>3. ASSUME NEW w \in Flip \ S, NEW b, Keeps(w, c, b)
      PROVE  /\ work'[w].crtc = c /\ work'[w].old = b /\ work'[w].submitted = work[w].submitted
             /\ w \in Accepted' \ freed' /\ (Attached(w)' <=> Attached(w))
  BY <1>0, <1>3 DEF Keeps, Kept, Taken, Accepted, Attached
<1>4. Follows(c)'
  <2>1. CASE crtc[c].next = crtc[c].fb
    BY <1>0, <2>1 DEF SameScan, Follows
  <2>2. CASE crtc[c].scan = crtc[c].next /\ c \in behind
    BY <1>0, <1>2, <2>2 DEF SameScan, Follows
  <2>3. ASSUME crtc[c].scan = crtc[c].next,
               NEW w \in Flip, Keeps(w, c, crtc[c].next), ~work[w].submitted
        PROVE  Follows(c)'
    <3>1. CASE w \in S
      <4>1. c \in behind'
        BY <1>1, <2>3, <3>1 DEF Keeps
      <4> QED  BY <1>0, <2>3, <4>1 DEF SameScan, Follows
    <3>2. CASE w \notin S
      <4>1. /\ work'[w].crtc = c /\ work'[w].old = crtc'[c].next /\ ~work'[w].submitted
            /\ w \in Accepted' \ freed'
        BY <1>0, <1>3, <2>3, <3>2 DEF SameScan
      <4> QED  BY <1>0, <2>3, <4>1 DEF SameScan, Follows, Keeps
    <3> QED  BY <3>1, <3>2
  <2> QED  BY <2>1, <2>2, <2>3 DEF ScanOf, Follows
<1>5. Feeds(c)'
  <2> SUFFICES ASSUME crtc[c].lit, ~Unsettled PROVE Feeds(c)'
    BY <1>0 DEF Feeds
  <2>1. CASE crtc[c].scan = crtc[c].next
    BY <1>0, <2>1 DEF SameScan, Feeds
  <2>2. CASE c \in behind
    BY <1>2, <2>2 DEF Feeds
  <2>3. ASSUME NEW w \in Flip, Keeps(w, c, crtc[c].scan), work[w].submitted => Attached(w)
        PROVE  Feeds(c)'
    <3>1. CASE w \in S
      BY <1>1, <2>3, <3>1 DEF Keeps, Feeds
    <3>2. CASE w \notin S
      <4>1. /\ work'[w].crtc = c /\ work'[w].old = crtc'[c].scan
            /\ work'[w].submitted = work[w].submitted /\ w \in Accepted' \ freed'
            /\ Attached(w)' <=> Attached(w)
        BY <1>0, <1>3, <2>3, <3>2 DEF SameScan
      <4> QED  BY <2>3, <4>1 DEF Feeds, Keeps
    <3> QED  BY <3>1, <3>2
  <2> QED  BY <2>1, <2>2, <2>3 DEF ScanOf, Feeds
<1>6. Caught(c)' /\ Programmed(c)'
  BY <1>0 DEF SameScan, ScanOf, Caught, Programmed
<1>7. Restored(c)'
  BY <1>0 DEF SameScan, ScanOf, Restored, RestoredKept
<1> QED  BY <1>4, <1>5, <1>6, <1>7 DEF ScanOf

\* A CRTC that scans what it is programmed to needs no pin for what it scanned before.
LEMMA SettledScan ==
  ASSUME NEW c \in Crtc, crtc'[c].scan = crtc'[c].next, Follows(c)', Programmed(c)', Restored(c)'
  PROVE  ScanOf(c)'
  BY DEF ScanOf, Feeds, Caught

\* A calm step that leaves the CRTCs alone keeps ScanOf(c).
LEMMA CalmScan ==
  ASSUME Inv, Calm, UNCHANGED <<crtc, behind>>, RestoredKept, Unsettled => Unsettled' \/ AllDark,
         NEW c \in Crtc
  PROVE  ScanOf(c)'
<1>1. /\ ScanOf(c) /\ SameScan(c) /\ freed' = freed
      /\ crtc'[c].lit = crtc[c].lit /\ crtc'[c].status = crtc[c].status
  BY DEF Inv, ScanInv, ScanOf, SameScan, Calm
<1>2. \A w \in Flip : Kept(w) /\ (Taken(w) => Taken(w)')
  BY DEF Calm, Steady, Alike, Taken, Pending, Past
<1>3. \A w \in Flip : Attached(w) => Attached(w)'
  BY <1>2 DEF Attached, Kept
<1>4. Unsettled => Unsettled' \/ ~crtc'[c].lit
  BY <1>1 DEF AllDark
<1> QED  BY <1>1, <1>2, <1>3, <1>4, ScanKept

\* A step of nobody who owns a transition settles nothing.
LEMMA OwnerKeptSettled ==
  ASSUME UNCHANGED <<owner, hw>>
  PROVE  RestoredKept /\ Unsettled' = Unsettled
  BY DEF RestoredKept, Unsettled

\* A running device completes flips and lights every display.
LEMMA Running ==
  ASSUME Inv, hw = "running", NEW c \in Crtc
  PROVE  ~Unsettled /\ crtc[c].lit /\ owner.stage \in {"none", "drain"}
<1>1. owner.stage \in {"none", "drain"}
  BY DEF Inv, Typed, OwnerRec, OwnerInv, StageInv, Moved, Kind
<1> QED  BY <1>1 DEF Inv, LightInv, Bright, Unsettled

\* The ioctl keeps ScanOf(c): the frame buffer it replaces is the old one of its flip, which
\* takes over its pin.
LEMMA AttachScan ==
  ASSUME Inv, NEW w \in Flip, FlipAttach(w), NEW c \in Crtc
  PROVE  ScanOf(c)'
<1>0. /\ work \in Works /\ crtc \in Crtcs /\ AttachedInv /\ ScanOf(c) /\ freed' = freed
      /\ behind' = behind
      /\ RestoredKept /\ Unsettled' = Unsettled
  BY OwnerKeptSettled DEF Inv, Typed, Works, Crtcs, ScanInv, ScanOf, FlipAttach, buffers
<1> DEFINE d == work[w].crtc
<1>1. /\ Only(w) /\ work'[w].pc = "queued" /\ Kept(w) /\ OnlyCrtc(d)
      /\ crtc'[d].status = "pending" /\ crtc'[d].fb = work[w].new
      /\ crtc'[d].scan = crtc[d].scan /\ crtc'[d].next = crtc[d].next
      /\ work[w].pc = "pinned" /\ hw = "running"
  BY <1>0, AttachEffect DEF FlipAttach
<1>2. CASE c # d
  <2>1. crtc'[c] = crtc[c]
    BY <1>1, <1>2 DEF OnlyCrtc
  <2>2. \A v \in Flip : Taken(v) => work'[v] = work[v]
    BY <1>1 DEF Only, Taken
  <2>3. \A v \in Flip : Taken(v) => Kept(v) /\ Taken(v)'
    BY <2>2 DEF Kept, Taken
  <2>4. \A v \in Flip : Taken(v) /\ Attached(v) /\ work[v].crtc = c => Attached(v)'
    BY <2>1, <2>2 DEF Attached
  <2>5. SameScan(c)
    BY <2>1 DEF SameScan
  <2> QED  BY <1>0, <2>1, <2>3, <2>4, <2>5, ScanKept
<1>3. CASE c = d
  <2>1. crtc[c].status = "none" /\ work[w].old = crtc[c].fb /\ w \notin freed /\ ~work[w].submitted
    BY <1>1, <1>3 DEF Inv, PinnedInv, PlaceInv
  <2>2. crtc[c].scan = crtc[c].next
    BY <1>0, <1>1, <2>1, Running DEF ScanOf, Caught
  <2>3. Follows(c)'
    <3>1. CASE crtc[c].next = crtc[c].fb
      <4>1. /\ work'[w].crtc = c /\ work'[w].old = crtc'[c].next /\ ~work'[w].submitted
            /\ w \in Accepted' \ freed'
        BY <1>0, <1>1, <1>3, <2>1, <3>1 DEF Kept, Accepted
      <4> QED  BY <1>1, <1>3, <2>2, <4>1 DEF Follows, Keeps
    <3>2. CASE c \in behind
      BY <1>0, <1>1, <1>3, <2>2, <3>2 DEF Follows
    <3>3. ASSUME NEW v \in Flip, Keeps(v, c, crtc[c].next), ~work[v].submitted
          PROVE  Follows(c)'
      <4>1. v # w /\ work[v].pc \notin {"none", "pinned", "refused"} /\ v \notin freed
        BY <1>1, <3>3 DEF Keeps, Accepted
      <4>2. work'[v] = work[v]
        BY <1>1, <4>1 DEF Only
      <4>3. /\ v \in Accepted' \ freed' /\ work'[v].crtc = c /\ work'[v].old = crtc'[c].next
            /\ ~work'[v].submitted
        BY <1>0, <1>1, <1>3, <3>3, <4>1, <4>2 DEF Keeps, Accepted
      <4> QED  BY <1>1, <1>3, <2>2, <4>3 DEF Follows, Keeps
    <3> QED  BY <1>0, <3>1, <3>2, <3>3 DEF ScanOf, Follows
  <2>4. Programmed(c)' /\ Restored(c)'
    <3>1. owner'.stage \notin {"final", "end"}
      BY <1>1, Running DEF FlipAttach
    <3> QED  BY <1>1, <1>3, <3>1 DEF Programmed, Restored
  <2> QED  BY <1>1, <1>3, <2>2, <2>3, <2>4, SettledScan
<1> QED  BY <1>2, <1>3

\* Programming a flip keeps ScanOf(c): the buffer scanned until the vblank has the pin of
\* this flip, or of an earlier one that was cancelled.
LEMMA ProgramScan ==
  ASSUME Inv, NEW w \in Flip, FlipProgram(w), NEW c \in Crtc
  PROVE  ScanOf(c)'
<1>0. /\ work \in Works /\ crtc \in Crtcs /\ AttachedInv /\ ScanOf(c) /\ freed' = freed
      /\ RestoredKept /\ Unsettled' = Unsettled /\ behind \subseteq Crtc
  BY OwnerKeptSettled DEF Inv, Typed, Works, Crtcs, ScanInv, ScanOf, FlipProgram
<1> DEFINE d == work[w].crtc
<1>1. /\ Only(w) /\ work'[w].pc = "done" /\ work'[w].crtc = d /\ work'[w].old = work[w].old
      /\ OnlyCrtc(d) /\ crtc'[d].status = "submitted" /\ crtc'[d].next = work[w].new
      /\ crtc'[d].fb = crtc[d].fb /\ crtc'[d].scan = crtc[d].scan /\ crtc'[d].lit = crtc[d].lit
      /\ crtc'[d].work = crtc[d].work
      /\ work[w].pc = "vblank" /\ hw = "running"
  BY <1>0, ProgramEffect DEF FlipProgram, Admitted
<1>2. behind' = IF crtc[d].scan = work[w].new THEN behind \ {d} ELSE behind
  BY DEF FlipProgram
<1>3. CASE c # d
  <2>1. crtc'[c] = crtc[c]
    BY <1>1, <1>3 DEF OnlyCrtc
  <2>2. \A v \in Flip : work[v].crtc = c => work'[v] = work[v]
    BY <1>1, <1>3 DEF Only
  <2>3. \A v \in Flip : Taken(v) /\ work[v].crtc = c => Kept(v) /\ Taken(v)'
    BY <2>2 DEF Kept, Taken
  <2>4. \A v \in Flip : Taken(v) /\ Attached(v) /\ work[v].crtc = c => Attached(v)'
    BY <2>1, <2>2 DEF Attached
  <2>5. SameScan(c) /\ (c \in behind => c \in behind')
    BY <1>2, <1>3, <2>1 DEF SameScan
  <2> QED  BY <1>0, <2>1, <2>3, <2>4, <2>5, ScanKept
<1>4. CASE c = d
  <2>1. Attached(w)
    BY <1>1 DEF Inv, PlaceInv, Pending
  <2>2. crtc[c].work = w /\ crtc[c].fb = work[w].new /\ crtc[c].status = "pending"
    BY <1>0, <1>1, <1>4, <2>1, AttachedFacts
  <2>3. crtc[c].scan = crtc[c].next
    BY <1>0, <1>1, <2>2, Running DEF ScanOf, Caught
  <2>4. Follows(c)' /\ Caught(c)' /\ Programmed(c)'
    BY <1>1, <1>4, <2>2 DEF Follows, Caught, Programmed
  <2>5. Restored(c)'
    <3>1. owner'.stage \notin {"final", "end"}
      BY <1>1, Running DEF FlipProgram
    <3> QED  BY <3>1 DEF Restored
  <2>6. Feeds(c)'
    <3>1. CASE crtc'[c].scan = crtc'[c].next
      BY <3>1 DEF Feeds
    <3>2. CASE c \in behind /\ crtc[c].scan # work[w].new
      BY <1>2, <1>4, <3>2 DEF Feeds
    <3>3. ASSUME NEW v \in Flip, Keeps(v, c, crtc[c].next), ~work[v].submitted
          PROVE  Feeds(c)'
      <4>1. v \in Accepted' \ freed' /\ work'[v].crtc = c /\ work'[v].old = crtc'[c].scan
        BY <1>0, <1>1, <1>4, <2>3, <3>3 DEF Keeps, Accepted, Only
      <4>2. v = w => Attached(v)'
        BY <1>1, <1>4, <2>2 DEF Attached
      <4>3. v # w => ~work'[v].submitted
        BY <1>1, <3>3 DEF Only
      <4> QED  BY <4>1, <4>2, <4>3 DEF Feeds, Keeps
    <3>4. crtc'[c].scan # crtc'[c].next => crtc[c].next # crtc[c].fb /\ crtc[c].scan # work[w].new
      BY <1>1, <1>4, <2>2, <2>3
    <3> QED  BY <1>0, <3>1, <3>2, <3>3, <3>4 DEF ScanOf, Follows
  <2> QED  BY <2>4, <2>5, <2>6 DEF ScanOf
<1> QED  BY <1>3, <1>4

\* A flip that leaves its CRTC keeps its pin; if it was programmed, its buffer is scanned or
\* no flip completes any more.
LEMMA DetachScan ==
  ASSUME Inv, NEW w \in Flip, Attached(w), crtc' = Detached(w), Only(w), Kept(w), Taken(w)',
         UNCHANGED <<freed, behind>>, RestoredKept, Unsettled => Unsettled',
         crtc[work[w].crtc].status = "submitted" =>
           Unsettled' \/ crtc[work[w].crtc].scan = crtc[work[w].crtc].next,
         NEW c \in Crtc
  PROVE  ScanOf(c)'
<1>0. work \in Works /\ crtc \in Crtcs /\ AttachedInv /\ ScanOf(c)
  BY DEF Inv, Typed, Works, Crtcs, ScanInv, ScanOf
<1> DEFINE d == work[w].crtc
<1>1. /\ d \in Crtc /\ crtc[d].work = w
      /\ \/ crtc[d].status = "pending" /\ ~work[w].submitted
         \/ crtc[d].status = "submitted"
  BY <1>0, AttachedFacts
<1>2. /\ crtc'[d].status = "none" /\ crtc'[d].fb = crtc[d].fb /\ crtc'[d].scan = crtc[d].scan
      /\ crtc'[d].next = crtc[d].next /\ crtc'[d].lit = crtc[d].lit /\ OnlyCrtc(d)
  BY <1>0, DetachEffect
<1>3. SameScan(c) /\ crtc'[c].lit = crtc[c].lit
  BY <1>1, <1>2 DEF SameScan, OnlyCrtc
<1>4. \A v \in Flip : Taken(v) => Kept(v) /\ Taken(v)'
  BY DEF Only, Kept, Taken
<1>5. CASE c = d
  <2>1. \A v \in Flip : Attached(v) /\ work[v].crtc = c => v = w
    BY <1>1, <1>5 DEF Attached
  <2> QED  BY <1>0, <1>1, <1>2, <1>3, <1>4, <1>5, <2>1, ScanKept
<1>6. CASE c # d
  <2>1. crtc'[c] = crtc[c]
    BY <1>2, <1>6 DEF OnlyCrtc
  <2>2. \A v \in Flip : Attached(v) /\ work[v].crtc = c => Attached(v)'
    BY <1>6, <2>1 DEF Attached, Only
  <2> QED  BY <1>0, <1>3, <1>4, <2>1, <2>2, ScanKept
<1> QED  BY <1>5, <1>6

\* A release keeps ScanOf(c).
LEMMA FreesScan == ASSUME Inv, Releases, NEW c \in Crtc PROVE ScanOf(c)'
<1>0. /\ work \in Works /\ crtc \in Crtcs /\ Typed /\ OwnerInv /\ StageInv /\ Places /\ ScanOf(c)
      /\ retained \subseteq Flip /\ owner \in OwnerRec
  BY DEF Inv, Typed, Works, Crtcs, OwnerInv, Places, ScanInv, ScanOf
<1>1. PICK S \in SUBSET retained :
         /\ Frees(S)
         /\ S # {} => \/ Admitted
                      \/ hw # "parked" /\ (OwnerFinal \/ (OwnerRelease /\ AllDark))
  BY <1>0, FreeSteps
<1>2. /\ \A w \in Flip : w \notin S => Kept(w)
      /\ \A w \in Flip : Taken(w)' <=> Taken(w)
      /\ Release(S) /\ crtc' = crtc /\ S \in SUBSET Flip /\ SameScan(c)
  BY <1>0, <1>1 DEF Frees, Taken, SameScan
<1>3. \A w \in S : ~Attached(w)
  BY <1>0, <1>1, AttachedFacts DEF Places
<1>4. ASSUME RestoredKept, (~Unsettled /\ ~Unsettled') \/ ~crtc[c].lit
      PROVE  ScanOf(c)'
  BY <1>0, <1>2, <1>3, <1>4, FreeScan
<1>5. ASSUME S = {}, RestoredKept, Unsettled => Unsettled' \/ ~crtc[c].lit
      PROVE  ScanOf(c)'
  <2>1. freed' = freed /\ (c \in behind => c \in behind')
    BY <1>2, <1>5 DEF Release
  <2>2. \A w \in Flip : Kept(w) /\ (Attached(w) => Attached(w)')
    BY <1>2, <1>5 DEF Attached, Kept
  <2> QED  BY <1>0, <1>2, <1>5, <2>1, <2>2, ScanKept
<1>6. CASE OwnerFinal
  <2>1. owner.kind = "reset" /\ owner.stage = "final"
    BY <1>0, <1>6 DEF OwnerFinal, StageInv, OwnerRec, Kind
  <2>2. crtc[c].scan = crtc[c].fb /\ crtc[c].next = crtc[c].fb
    BY <1>0, <2>1 DEF ScanOf, Restored
  <2>3. Follows(c)' /\ Programmed(c)' /\ Restored(c)'
    BY <1>2, <2>2 DEF Follows, Programmed, Restored
  <2> QED  BY <1>2, <2>2, <2>3, SettledScan
<1>7. CASE OwnerRelease
  <2>1. /\ owner.kind = "suspend" /\ owner.stage = "release" /\ hw # "running" /\ hw' = hw
        /\ (Stage("unpin") /\ AllDark) \/ Stage("relight")
    BY <1>0, <1>7 DEF OwnerRelease, StageInv, Moved, OwnerRec, Kind
  <2>2. owner'.stage \in {"unpin", "relight"} /\ (owner'.stage = "unpin" => AllDark)
    BY <1>0, <2>1, StageEffect DEF Stages
  <2>3. RestoredKept
    BY <2>2 DEF RestoredKept
  <2>4. CASE AllDark
    BY <1>4, <2>3, <2>4 DEF AllDark
  <2>5. CASE ~AllDark
    <3>1. S = {}
      BY <1>1, <2>1, <2>5 DEF Admitted, OwnerFinal
    <3>2. Unsettled'
      BY <2>2, <2>5 DEF Unsettled
    <3> QED  BY <1>5, <2>3, <3>1, <3>2
  <2> QED  BY <2>4, <2>5
<1>8. CASE (\E w \in Flip : FlipRelease(w)) \/ CleanupFinalize
  <2>1. UNCHANGED <<owner, hw>>
    BY <1>8 DEF FlipRelease, CleanupFinalize
  <2>2. RestoredKept /\ Unsettled' = Unsettled
    BY <2>1, OwnerKeptSettled
  <2>3. CASE S = {}
    BY <1>5, <2>2, <2>3
  <2>4. CASE S # {} /\ Admitted
    <3>1. ~Unsettled
      BY <2>4, Running DEF Admitted
    <3> QED  BY <1>4, <2>2, <3>1
  <2> QED  BY <1>1, <1>6, <1>7, <2>3, <2>4
<1> QED  BY <1>6, <1>7, <1>8 DEF Releases

\* The unpin work keeps ScanOf(c).
LEMMA UnpinScan == ASSUME Inv, NEW w \in Flip, Unpin(w), NEW c \in Crtc PROVE ScanOf(c)'
<1>0. /\ work \in Works /\ crtc \in Crtcs /\ Places /\ ScanOf(c) /\ retained \subseteq Flip
      /\ RestoredKept /\ Unsettled' = Unsettled
  BY OwnerKeptSettled DEF Inv, Typed, Works, Crtcs, Places, ScanInv, ScanOf, Unpin
<1>1. work[w].pc = "unpin" /\ Only(w) /\ work'[w].pc = "done" /\ crtc' = crtc
  BY <1>0, UnpinEffect DEF Unpin
<1>2. ~Attached(w)
  BY <1>0, <1>1, AttachedFacts DEF Places, Pending
<1>3. CASE Release({w}) /\ Admitted
  <2>1. ~Unsettled
    BY <1>3, Running DEF Admitted
  <2>2. \A v \in Flip : v \notin {w} => Kept(v) /\ (Taken(v) => Taken(v)')
    BY <1>1 DEF Only, Kept, Taken
  <2> QED  BY <1>0, <1>1, <1>2, <1>3, <2>1, <2>2, FreeScan
<1>4. CASE Kept(w) /\ UNCHANGED <<freed, behind>>
  <2>1. \A v \in Flip : Kept(v) /\ (Taken(v) => Taken(v)')
    BY <1>1, <1>4 DEF Only, Kept, Taken
  <2>2. \A v \in Flip : Attached(v) => Attached(v)'
    BY <1>1, <2>1 DEF Attached, Kept
  <2>3. SameScan(c)
    BY <1>1 DEF SameScan
  <2> QED  BY <1>0, <1>1, <1>4, <2>1, <2>2, <2>3, ScanKept
<1> QED  BY <1>0, <1>3, <1>4, UnpinEffect

\* Vblanks, mode sets and switching displays off or on keep ScanOf(c).
LEMMA NewScan ==
  ASSUME Inv, Calm, OwnerRestore \/ OwnerRelight \/ (\E d \in Crtc : Latch(d)) \/ OwnerDark,
         NEW c \in Crtc
  PROVE  ScanOf(c)'
<1>0. /\ crtc \in Crtcs /\ ScanOf(c) /\ owner \in OwnerRec /\ StageInv /\ LightInv
      /\ behind \subseteq Crtc
  BY DEF Inv, Typed, Crtcs, ScanInv, ScanOf, OwnerInv
<1>1. /\ \A w \in Flip : Kept(w) /\ (Taken(w) => Taken(w)')
      /\ crtc'[c].status = crtc[c].status /\ crtc'[c].work = crtc[c].work
      /\ crtc'[c].fb = crtc[c].fb /\ freed' = freed
  BY DEF Calm, Steady, Still, Alike, Taken, Pending, Past
<1>2. \A w \in Flip : Attached(w) /\ work[w].crtc = c => Attached(w)'
  BY <1>1 DEF Attached, Kept
<1>3. CASE OwnerRestore
  <2>1. crtc'[c].scan = crtc'[c].fb /\ crtc'[c].next = crtc'[c].fb
    BY <1>0, <1>1, <1>3, RestoreEffect
  <2>2. Follows(c)' /\ Programmed(c)' /\ Restored(c)'
    BY <2>1 DEF Follows, Programmed, Restored
  <2> QED  BY <2>1, <2>2, SettledScan
<1>4. ASSUME crtc'[c].scan = crtc[c].next, crtc'[c].next = crtc[c].next,
             crtc[c].scan = crtc[c].next => (c \in behind => c \in behind'),
             RestoredKept
      PROVE  ScanOf(c)'
  <2>1. Programmed(c)'
    BY <1>0, <1>1, <1>4 DEF ScanOf, Programmed
  <2>2. Restored(c)'
    BY <1>0, <1>1, <1>4 DEF ScanOf, Restored, RestoredKept
  <2>3. Follows(c)'
    <3>1. CASE crtc[c].next = crtc[c].fb
      BY <1>1, <1>4, <3>1 DEF Follows
    <3>2. CASE crtc[c].scan = crtc[c].next /\ c \in behind
      BY <1>4, <3>2 DEF Follows
    <3>3. ASSUME NEW w \in Flip, Keeps(w, c, crtc[c].next), ~work[w].submitted
          PROVE  Follows(c)'
      <4>1. /\ w \in Accepted' \ freed' /\ work'[w].crtc = c /\ work'[w].old = crtc'[c].next
            /\ ~work'[w].submitted
        BY <1>1, <1>4, <3>3 DEF Keeps, Accepted, Taken, Kept
      <4> QED  BY <1>4, <4>1 DEF Follows, Keeps
    <3> QED  BY <1>0, <3>1, <3>2, <3>3 DEF ScanOf, Follows
  <2> QED  BY <1>4, <2>1, <2>2, <2>3, SettledScan
<1>5. CASE OwnerRelight
  <2>1. crtc'[c].scan = crtc[c].next /\ crtc'[c].next = crtc[c].next
    BY <1>0, <1>5, RelightEffect
  <2>2. crtc[c].scan = crtc[c].next => (c \in behind => c \in behind')
    BY <1>5 DEF OwnerRelight
  <2>3. RestoredKept
    BY <1>5 DEF OwnerRelight, Leave, Unowned, RestoredKept
  <2> QED  BY <1>4, <2>1, <2>2, <2>3
<1>6. ASSUME NEW d \in Crtc, Latch(d) PROVE ScanOf(c)'
  <2>1. RestoredKept /\ Unsettled' = Unsettled
    BY <1>6, OwnerKeptSettled DEF Latch
  <2>2. crtc[d].scan # crtc[d].next /\ behind' = behind \ {d}
    BY <1>6 DEF Latch
  <2>3. /\ OnlyCrtc(d) /\ crtc'[d].scan = crtc[d].next /\ crtc'[d].next = crtc[d].next
        /\ crtc'[d].lit = crtc[d].lit
    BY <1>0, <1>6, LatchEffect
  <2>4. CASE c = d
    BY <1>4, <2>1, <2>2, <2>3, <2>4
  <2>5. CASE c # d
    <3>1. crtc'[c] = crtc[c] /\ (c \in behind => c \in behind')
      BY <2>2, <2>3, <2>5 DEF OnlyCrtc
    <3>2. SameScan(c)
      BY <3>1 DEF SameScan
    <3> QED  BY <1>0, <1>1, <1>2, <2>1, <3>1, <3>2, ScanKept
  <2> QED  BY <2>4, <2>5
<1>7. CASE OwnerDark
  <2>1. SameScan(c) /\ behind' = behind
    BY <1>0, <1>1, <1>7, DarkEffect DEF SameScan, OwnerDark, buffers
  <2>2. owner.stage = "dark" /\ Stage("release") /\ hw' = hw
    BY <1>7 DEF OwnerDark
  <2>3. owner'.stage = "release"
    BY <1>0, <2>2, StageEffect DEF Stages
  <2>4. RestoredKept /\ Unsettled'
    BY <2>3 DEF RestoredKept, Unsettled
  <2>5. crtc[c].lit
    BY <1>0, <2>2 DEF StageInv, OwnerRec, Kind, LightInv, Bright
  <2> QED  BY <1>0, <1>1, <1>2, <2>1, <2>4, <2>5, ScanKept
<1> QED  BY <1>3, <1>5, <1>6, <1>7

\* An owner gives its lock back only when nothing is left to settle, the displays are off,
\* or the device is parked.
LEMMA LeftSettled ==
  ASSUME Inv, OwnerLeaves \/ PublishDrop
  PROVE  RestoredKept /\ (Unsettled => Unsettled' \/ AllDark) /\ UNCHANGED <<crtc, behind>>
<1>0. owner \in OwnerRec /\ StageInv /\ LightInv
  BY DEF Inv, Typed, OwnerInv
<1>1. ASSUME NEW ws, NEW again, Leave(ws, again) PROVE RestoredKept
  BY <1>1 DEF Leave, Unowned, RestoredKept
<1>2. CASE OwnerDrained
  <2>1. owner.stage = "drain" /\ UNCHANGED <<crtc, behind>>
    BY <1>2 DEF OwnerDrained, buffers
  <2>2. CASE hw = "parked"
    <3>1. Leave(work, FALSE) /\ hw' = hw
      BY <1>2, <2>2 DEF OwnerDrained
    <3> QED  BY <1>1, <2>1, <2>2, <3>1 DEF Unsettled
  <2>3. CASE hw # "parked"
    <3>1. \/ owner' = [owner EXCEPT !.stage = "check"] \/ owner' = [owner EXCEPT !.stage = "cancel"]
          \/ owner' = [owner EXCEPT !.stage = "restore"]
      BY <1>0, <1>2, <2>1, <2>3 DEF OwnerDrained, Stage, StageInv, OwnerRec, Kind
    <3>2. owner'.stage \in {"check", "cancel", "restore"}
      BY <1>0, <3>1 DEF OwnerRec
    <3> QED  BY <2>1, <2>3, <3>2 DEF RestoredKept, Unsettled
  <2> QED  BY <2>2, <2>3
<1>3. CASE OwnerCheck
  <2>1. owner.stage = "check" /\ UNCHANGED <<crtc, behind>>
    BY <1>3 DEF OwnerCheck, buffers
  <2>2. CASE hw = "parked"
    <3>1. Leave(work, FALSE) /\ hw' = hw
      BY <1>3, <2>2 DEF OwnerCheck
    <3> QED  BY <1>1, <2>1, <2>2, <3>1 DEF Unsettled
  <2>3. CASE hw # "parked"
    <3>1. Leave(work, FALSE) \/ Stage("cancel")
      BY <1>3, <2>3 DEF OwnerCheck
    <3>2. CASE Stage("cancel")
      <4>1. owner'.stage = "cancel"
        BY <1>0, <3>2, StageEffect DEF Stages
      <4> QED  BY <2>1, <2>3, <4>1 DEF RestoredKept, Unsettled
    <3>3. CASE Leave(work, FALSE)
      BY <1>1, <2>1, <2>3, <3>3 DEF Unsettled
    <3> QED  BY <3>1, <3>2, <3>3
  <2> QED  BY <2>2, <2>3
<1>4. CASE OwnerEnd
  <2>1. /\ owner.stage = "end" /\ hw # "parked" /\ UNCHANGED <<crtc, behind>>
        /\ Leave(work, FALSE) \/ Leave(work, TRUE)
    BY <1>4 DEF OwnerEnd, buffers
  <2> QED  BY <1>1, <2>1 DEF Unsettled
<1>5. CASE OwnerOff
  <2>1. /\ owner.stage = "off" /\ hw # "parked" /\ UNCHANGED <<crtc, behind>>
        /\ Leave(work, FALSE)
    BY <1>5 DEF OwnerOff, buffers
  <2> QED  BY <1>1, <2>1 DEF Unsettled
<1>6. CASE OwnerStays
  <2>1. /\ owner.kind = "resume" /\ owner.stage = "restore" /\ UNCHANGED <<crtc, behind>>
        /\ Leave(work, FALSE)
    BY <1>6 DEF OwnerStays, buffers
  <2> QED  BY <1>0, <1>1, <2>1 DEF LightInv
<1>7. CASE PublishDrop
  <2>1. /\ owner.stage = "drop" /\ hw' = hw /\ UNCHANGED <<crtc, behind>>
        /\ Leave(Finalized({}), FALSE)
    BY <1>7 DEF PublishDrop, buffers
  <2>2. hw = "parked"
    BY <1>0, <2>1 DEF StageInv, OwnerRec, Kind
  <2> QED  BY <1>1, <2>1, <2>2 DEF Unsettled
<1> QED  BY <1>2, <1>3, <1>4, <1>5, <1>6, <1>7 DEF OwnerLeaves

\* An owner that goes on, a latch and a hang settle nothing.
LEMMA OnSettled ==
  ASSUME Inv, OwnerGoesOn \/ QuiesceMark \/ Park \/ Hang
  PROVE  RestoredKept /\ (Unsettled => Unsettled') /\ UNCHANGED <<crtc, behind>>
<1>0. owner \in OwnerRec /\ StageInv
  BY DEF Inv, Typed, OwnerInv
<1>1. ASSUME Advance, owner.stage \in {"quiesce", "flush"}, hw' = hw
      PROVE  RestoredKept /\ (Unsettled => Unsettled')
  <2>1. owner.kind \in {"reset", "suspend", "publish"}
    BY <1>0, <1>1 DEF StageInv, OwnerRec, Kind
  <2>2. /\ owner'.stage \in {"quiesce", "restore", "dark", "drop"}
        /\ owner'.stage = "drop" => owner.kind = "publish"
    BY <1>0, <1>1, <2>1, AdvanceEffect
  <2> QED  BY <1>0, <1>1, <2>2 DEF RestoredKept, Unsettled, StageInv
<1>2. ASSUME NEW s \in {"await", "quiesce", "flush", "off", "relight"}, Stage(s), hw' = hw,
             Unsettled => hw = "parked" \/ s \notin {"await", "off"}
      PROVE  RestoredKept /\ (Unsettled => Unsettled')
  <2>1. owner'.stage = s
    BY <1>0, <1>2, StageEffect DEF Stages
  <2> QED  BY <1>2, <2>1 DEF RestoredKept, Unsettled
<1>3. CASE CancelCleanup
  <2>1. owner.stage = "cancel" /\ Stage("await") /\ UNCHANGED <<hw, crtc, behind>>
    BY <1>3 DEF CancelCleanup, buffers
  <2> QED  BY <1>2, <2>1 DEF Unsettled
<1>4. CASE AwaitCleanup
  <2>1. Stage("quiesce") /\ UNCHANGED <<hw, crtc, behind>>
    BY <1>4 DEF AwaitCleanup, buffers
  <2> QED  BY <1>2, <2>1
<1>5. CASE QuiesceFlush
  BY <1>1, <1>5 DEF QuiesceFlush, buffers
<1>6. CASE OwnerUnpin
  <2>1. /\ owner.stage = "unpin" /\ UNCHANGED <<hw, crtc, behind>>
        /\ Stage("off") \/ Stage("relight")
    BY <1>6 DEF OwnerUnpin
  <2> QED  BY <1>2, <2>1 DEF Unsettled
<1>7. CASE OwnerParks
  <2>1. /\ hw' = "parked" /\ UNCHANGED <<crtc, behind>>
        /\ owner' = [owner EXCEPT !.kind = "publish", !.stage = "quiesce", !.crtc = 1]
    BY <1>7 DEF OwnerParks, buffers
  <2>2. owner'.stage = "quiesce"
    BY <1>0, <2>1 DEF OwnerRec
  <2> QED  BY <2>1, <2>2 DEF RestoredKept, Unsettled
<1>8. CASE PublishBegin
  <2>1. /\ publish /\ hw' = hw /\ UNCHANGED <<crtc, behind>>
        /\ owner' = [Unowned EXCEPT !.who = Publisher, !.kind = "publish", !.stage = "quiesce"]
    BY <1>8 DEF PublishBegin, buffers
  <2>2. owner'.stage = "quiesce"
    BY <2>1 DEF Unowned
  <2> QED  BY <2>1, <2>2 DEF RestoredKept, Unsettled
<1>9. ASSUME NEW who \in Flip \cup {Task}, NEW kind \in Kind, OwnerBegin(who, kind)
      PROVE  RestoredKept /\ (Unsettled => Unsettled') /\ UNCHANGED <<crtc, behind>>
  <2>1. /\ owner.who = Nobody /\ hw \in {"suspended", "running"} /\ UNCHANGED <<hw, crtc, behind>>
        /\ owner' = [Unowned EXCEPT !.who = who, !.kind = kind, !.stage = "drain"]
    BY <1>9 DEF OwnerBegin, buffers
  <2>2. owner'.stage = "drain" /\ owner.stage = "none"
    BY <1>0, <2>1 DEF Unowned, StageInv
  <2> QED  BY <2>1, <2>2 DEF RestoredKept, Unsettled
<1>10. CASE QuiesceMark
  <2>1. owner.stage = "quiesce" /\ UNCHANGED <<hw, crtc, behind>>
    BY <1>10 DEF QuiesceMark, buffers
  <2>2. \/ Stage("flush") \/ Advance
        \/ owner' = [owner EXCEPT !.stage = "sync", !.work = crtc[owner.crtc].work]
    BY <1>10 DEF QuiesceMark
  <2>3. ASSUME owner' = [owner EXCEPT !.stage = "sync", !.work = crtc[owner.crtc].work]
        PROVE  RestoredKept /\ (Unsettled => Unsettled')
    <3>1. owner'.stage = "sync"
      BY <1>0, <2>3 DEF OwnerRec
    <3> QED  BY <3>1 DEF RestoredKept, Unsettled
  <2> QED  BY <1>1, <1>2, <2>1, <2>2, <2>3
<1>11. CASE Park
  BY <1>11 DEF Park, buffers, RestoredKept, Unsettled
<1>12. CASE Hang
  BY <1>12 DEF Hang, buffers, RestoredKept, Unsettled
<1> QED  BY <1>3, <1>4, <1>5, <1>6, <1>7, <1>8, <1>9, <1>10, <1>11, <1>12 DEF OwnerGoesOn

\* The steps that leave the CRTCs alone settle nothing, unless all displays are off.
LEMMA UnsettledKept ==
  ASSUME Inv, \/ \E w \in Flip : WorkGoesOn(w)
              \/ OwnerGoesOn \/ OwnerLeaves \/ QuiesceMark \/ PublishDrop
              \/ CleanupStart \/ CleanupFlush \/ Park \/ Hang
  PROVE  RestoredKept /\ (Unsettled => Unsettled' \/ AllDark) /\ UNCHANGED <<crtc, behind>>
<1>1. ASSUME NEW w \in Flip, WorkGoesOn(w)
      PROVE  UNCHANGED <<owner, hw, crtc, behind>>
  BY <1>1 DEF WorkGoesOn, FlipStart, FlipWaited, FlipHung, FlipNoReset, FlipShut, FlipDecide,
     buffers
<1>2. CASE CleanupStart \/ CleanupFlush
  <2>1. UNCHANGED <<owner, hw, crtc, behind>>
    BY <1>2 DEF CleanupStart, CleanupFlush, buffers
  <2> QED  BY <2>1, OwnerKeptSettled
<1> QED  BY <1>1, <1>2, LeftSettled, OnSettled, OwnerKeptSettled

\* A step of a flip that is not accepted keeps ScanOf(c).
LEMMA OthersScan ==
  ASSUME Inv, NEW w \in Flip, ~Taken(w), Only(w), NEW c \in Crtc,
         UNCHANGED <<owner, hw, crtc, freed, behind>>
  PROVE  ScanOf(c)'
<1>1. ScanOf(c) /\ SameScan(c) /\ RestoredKept /\ Unsettled' = Unsettled
  BY OwnerKeptSettled DEF Inv, ScanInv, ScanOf, SameScan
<1>2. \A v \in Flip : Taken(v) => work'[v] = work[v]
  BY DEF Only
<1>3. \A v \in Flip : Taken(v) => Kept(v) /\ Taken(v)' /\ (Attached(v) => Attached(v)')
  BY <1>2 DEF Kept, Taken, Attached
<1> QED  BY <1>1, <1>3, ScanKept

\* Completing, cancelling and quiescing a flip keep ScanOf(c).
LEMMA LeavesScan ==
  ASSUME Inv, NEW c \in Crtc,
         \/ \E w \in Flip : FlipCancel(w)
         \/ \E d \in Crtc : HandleFlip(d)
         \/ QuiesceSync
  PROVE  ScanOf(c)'
<1>0. /\ work \in Works /\ crtc \in Crtcs /\ owner \in OwnerRec /\ Places /\ ScanInv /\ ScanOf(c)
  BY DEF Inv, Typed, Works, Crtcs, Places, ScanInv, ScanOf
<1>1. ASSUME NEW w \in Flip, FlipCancel(w) PROVE ScanOf(c)'
  <2>1. Attached(w) /\ work[w].pc = "cancel"
    BY <1>0, <1>1 DEF FlipCancel, Places, PlaceInv, Pending
  <2>2. crtc' = Detached(w) /\ UNCHANGED <<freed, behind, owner, hw>>
    BY <1>1, <2>1 DEF FlipCancel
  <2>3. Only(w) /\ Kept(w) /\ work'[w].pc = "decide"
    BY <1>0, <1>1, <2>1, CancelEffect
  <2>4. crtc[work[w].crtc].status # "submitted"
    BY <1>0, <2>1, AttachedFacts DEF Places
  <2> QED  BY <2>1, <2>2, <2>3, <2>4, OwnerKeptSettled, DetachScan DEF Taken
<1>2. ASSUME NEW d \in Crtc, HandleFlip(d) PROVE ScanOf(c)'
  <2> DEFINE w == crtc[d].work
  <2>1. w \in Flip /\ work[w].crtc = d
    BY <1>0, <1>2, WorkTypes DEF HandleFlip, Places, AttachedInv
  <2>2. Attached(w) /\ crtc[work[w].crtc].scan = crtc[work[w].crtc].next
    BY <1>2, <2>1 DEF Attached, HandleFlip
  <2>3. UNCHANGED <<freed, behind, owner, hw>>
    BY <1>2 DEF HandleFlip, buffers
  <2>4. Only(w) /\ Kept(w) /\ work'[w].pc = "unpin" /\ crtc' = Detached(w)
    BY <1>0, <1>2, <2>1, HandleEffect
  <2> HIDE DEF w
  <2> QED  BY <2>1, <2>2, <2>3, <2>4, OwnerKeptSettled, DetachScan DEF Taken
<1>3. CASE QuiesceSync
  <2>0. owner.work \in Flip /\ owner.work \notin Started
    BY <1>0, <1>3 DEF QuiesceSync, Inv, QuietInv, OwnerRec
  <2>1. PICK w \in Flip : w = owner.work /\ w \notin Started
    BY <2>0
  <2>2. /\ Only(w) /\ Kept(w)
        /\ work'[w].pc = IF work[w].pc = "queued" THEN "done" ELSE work[w].pc
        /\ IF Attached(w) THEN crtc' = Detached(w) ELSE crtc' = crtc
        /\ UNCHANGED <<freed, behind, hw>>
    BY <1>0, <1>3, <2>1, SyncEffect DEF QuiesceSync
  <2>3. owner'.stage = "flush"
    BY <1>0, <1>3 DEF QuiesceSync, OwnerRec
  <2>4. RestoredKept /\ Unsettled'
    BY <2>3 DEF RestoredKept, Unsettled
  <2>5. CASE Attached(w)
    <3>1. work[w].pc \in {"queued", "done"}
      BY <1>0, <2>1, <2>5, WorkTypes, ConstantFacts DEF Places, AttachedInv, Attached, Started,
         Pending
    <3>2. Taken(w)'
      BY <2>2, <3>1 DEF Taken
    <3> QED  BY <2>1, <2>2, <2>4, <2>5, <3>2, DetachScan
  <2>6. CASE ~Attached(w)
    <3>1. work'[w].pc = work[w].pc
      BY <1>0, <2>1, <2>2, <2>6 DEF Places, PlaceInv, Pending
    <3>2. \A v \in Flip : Kept(v) /\ work'[v].pc = work[v].pc
      BY <2>2, <3>1 DEF Kept, Only
    <3>3. \A v \in Flip : Kept(v) /\ (Taken(v) => Taken(v)') /\ (Attached(v) => Attached(v)')
      BY <2>2, <2>6, <3>2 DEF Taken, Attached, Kept
    <3>4. SameScan(c) /\ crtc' = crtc
      BY <2>2, <2>6 DEF SameScan
    <3> QED  BY <1>0, <2>2, <2>4, <3>3, <3>4, ScanKept
  <2> QED  BY <2>5, <2>6
<1> QED  BY <1>1, <1>2, <1>3

\* Every step keeps ScanInv.
LEMMA ScanStep == ASSUME Inv, Next PROVE ScanInv'
<1> SUFFICES ASSUME NEW c \in Crtc PROVE ScanOf(c)'
  BY DEF ScanInv, ScanOf
<1>0. Typed /\ OwnerInv /\ work \in Works /\ crtc \in Crtcs
  BY DEF Inv, Typed, Works, Crtcs
<1> DEFINE Settling ==
      \/ \E w \in Flip : WorkGoesOn(w)
      \/ OwnerGoesOn \/ OwnerLeaves \/ QuiesceMark \/ PublishDrop
      \/ CleanupStart \/ CleanupFlush \/ Park \/ Hang
    Shows == OwnerRestore \/ OwnerRelight \/ (\E d \in Crtc : Latch(d)) \/ OwnerDark
<1>1. CASE Settling
  <2>1. Calm
    BY <1>0, <1>1, CalmSteps
  <2>2. RestoredKept /\ (Unsettled => Unsettled' \/ AllDark) /\ UNCHANGED <<crtc, behind>>
    BY <1>1, UnsettledKept
  <2> QED  BY <2>1, <2>2, CalmScan
<1>2. CASE Shows
  <2>1. Calm
    BY <1>0, <1>2, CalmSteps DEF DisplayChanges
  <2> QED  BY <1>2, <2>1, NewScan
<1>3. CASE Releases
  BY <1>3, FreesScan
<1>4. ASSUME NEW w \in Flip, NEW d \in Crtc, NEW b \in Buf, FlipBegin(w, d, b)
      PROVE  ScanOf(c)'
  <2>1. Only(w) /\ ~Taken(w) /\ UNCHANGED <<owner, hw, crtc, freed, behind>>
    BY <1>0, <1>4, BeginEffect DEF FlipBegin, Taken
  <2> QED  BY <2>1, OthersScan
<1>5. ASSUME NEW w \in Flip, FlipRefused(w) PROVE ScanOf(c)'
  <2>1. Only(w) /\ ~Taken(w) /\ UNCHANGED <<owner, hw, crtc, freed, behind>>
    BY <1>0, <1>5, RefuseEffect DEF FlipRefused, Taken
  <2> QED  BY <2>1, OthersScan
<1>6. \/ Settling \/ Shows \/ Releases
      \/ \E w \in Flip, d \in Crtc, b \in Buf : FlipBegin(w, d, b)
      \/ \E w \in Flip : \/ FlipAttach(w) \/ FlipRefused(w) \/ FlipProgram(w)
                         \/ FlipCancel(w) \/ Unpin(w)
      \/ \E d \in Crtc : HandleFlip(d)
      \/ QuiesceSync
  BY DEF Next, FlipWork, Cleanup, OwnerStep, Kind, WorkGoesOn, OwnerGoesOn, OwnerLeaves,
     Releases
<1> HIDE DEF Settling, Shows
<1> QED  BY <1>1, <1>2, <1>3, <1>4, <1>5, <1>6, AttachScan, ProgramScan, UnpinScan, LeavesScan

-----------------------------------------------------------------------------
(* The invariant *)

\* A step that changes nothing keeps the invariant.
LEMMA StutterStep == ASSUME Inv, UNCHANGED vars PROVE Inv'
<1>0. /\ UNCHANGED <<hw, owner, needsReset, publish, crtc, shown, work>>
      /\ UNCHANGED <<retained, freed, pins, behind>>
  BY DEF vars, buffers
<1>1. Typed' /\ OwnerInv'
  BY <1>0 DEF Inv, Typed, OwnerInv, StageInv, Moved, InTransaction
<1>2. AttachedInv' /\ PlaceInv' /\ PinnedInv'
  BY <1>0 DEF Inv, AttachedInv, PlaceInv, PinnedInv, Attached
<1>3. QuietInv' /\ LightInv'
  BY <1>0 DEF Inv, QuietInv, Quiet, OnQueue, Started, Quiesced, LightInv, Bright, AllDark
<1>4. ScanInv'
  <2> SUFFICES ASSUME NEW c \in Crtc PROVE ScanOf(c)'
    BY DEF ScanInv, ScanOf
  <2>1. /\ ScanOf(c) /\ SameScan(c) /\ RestoredKept /\ Unsettled' = Unsettled
        /\ crtc'[c].lit = crtc[c].lit /\ crtc'[c].status = crtc[c].status
        /\ freed' = freed /\ behind' = behind
    BY <1>0, OwnerKeptSettled DEF Inv, ScanInv, ScanOf, SameScan
  <2>2. \A w \in Flip : Taken(w) => Kept(w) /\ Taken(w)' /\ (Attached(w) => Attached(w)')
    BY <1>0 DEF Kept, Taken, Attached
  <2> QED  BY <2>1, <2>2, ScanKept
<1>5. PinsBalance'
  BY <1>0, <1>1, SamePins DEF Inv, Taken
<1> QED  BY <1>1, <1>2, <1>3, <1>4, <1>5 DEF Inv

\* Every step keeps the invariant.
LEMMA InvStep == ASSUME Inv, [Next]_vars PROVE Inv'
<1>1. CASE Next
  <2>1. Places'
    BY <1>1, PlacesStep
  <2> QED  BY <1>1, <2>1, TypedStep, OwnerInvStep, QuietStep, LightStep, ScanStep, PinsStep
           DEF Inv, Places
<1> QED  BY <1>1, StutterStep

\* A device with its modes set and no flip satisfies it.
LEMMA InitInv == Init => Inv
<1> SUFFICES ASSUME Init PROVE Inv
  OBVIOUS
<1>0. /\ 1 \in Crtc /\ First \in Buf /\ Blank \in WorkRec
      /\ owner.who = Nobody /\ owner.kind = "none" /\ owner.stage = "none" /\ owner.crtc = 1
      /\ owner.work = NoFlip /\ owner = Unowned
  BY FlipAssumption, ConstantFacts, BlankIsTyped DEF Init, Unowned
<1>1. \A w \in Flip : /\ work[w] = Blank /\ work[w].pc = "none" /\ ~work[w].submitted
                      /\ work[w].crtc = 1
  BY DEF Init, Blank
<1>2. \A c \in Crtc : /\ crtc[c].status = "none" /\ crtc[c].work = NoFlip /\ crtc[c].fb = First
                      /\ crtc[c].scan = First /\ crtc[c].next = First /\ crtc[c].lit
  BY DEF Init
<1>3. Typed
  <2>1. crtc \in [Crtc -> CrtcRec]
    BY <1>0 DEF Init, CrtcRec
  <2>2. owner \in OwnerRec
    BY <1>0, FlipAssumption DEF Unowned, OwnerRec, Stages, Crtc, Nobody
  <2>3. work \in [Flip -> WorkRec]
    BY <1>0 DEF Init
  <2> QED  BY <2>1, <2>2, <2>3 DEF Init, Typed
<1>4. OwnerInv
  <2>1. StageInv
    BY <1>0 DEF Init, StageInv, Moved, Nobody
  <2>2. owner.who \notin Flip /\ InTransaction = {}
    BY <1>0, <1>1 DEF Flip, Nobody, InTransaction
  <2> QED  BY <2>1, <2>2 DEF OwnerInv
<1>5. AttachedInv /\ PlaceInv /\ PinnedInv
  BY <1>1, <1>2 DEF Init, AttachedInv, PlaceInv, PinnedInv, Pending, Past
<1>6. QuietInv /\ LightInv
  BY <1>0, <1>2 DEF Init, QuietInv, Quiesced, LightInv, Bright
<1>7. ScanInv
  BY <1>0, <1>2 DEF ScanInv, Follows, Feeds, Caught, Programmed, Restored
<1>8. PinsBalance
  <2>1. \A b \in Buf : Leaving(b) = {} /\ Coming(b) = {}
    BY <1>1 DEF Leaving, Coming, Accepted, InTransaction
  <2>2. \A b \in Buf : Showing(b) = IF b = First THEN Crtc ELSE {}
    BY <1>2 DEF Init, Showing
  <2>3. Cardinality(Crtc) = NumCrtc /\ Cardinality({}) = 0
    BY FlipAssumption, FS_Interval, FS_EmptySet DEF Crtc
  <2>4. pins \in [Buf -> Nat]
    BY FlipAssumption DEF Init
  <2>5. TypeOK
    BY <1>3, <2>4 DEF TypeOK, Typed, OwnerRec, WorkRec, CrtcRec
  <2>6. \A b \in Buf : pins[b] = Cardinality(Showing(b)) + Cardinality(Leaving(b))
                                   + Cardinality(Coming(b))
    <3>1. ASSUME NEW b \in Buf
          PROVE  /\ pins[b] = IF b = First THEN NumCrtc ELSE 0
                 /\ Cardinality(Showing(b)) = IF b = First THEN NumCrtc ELSE 0
                 /\ Cardinality(Leaving(b)) = 0 /\ Cardinality(Coming(b)) = 0
      BY <2>1, <2>2, <2>3 DEF Init
    <3> QED  BY <3>1, FlipAssumption
  <2> QED  BY <2>5, <2>6 DEF PinsBalance, Showing, Leaving, Coming
<1> QED  BY <1>3, <1>4, <1>5, <1>6, <1>7, <1>8 DEF Inv

\* The invariant behind the safety of page flips holds in every reachable state, for any
\* number of CRTCs, buffers, flips, transitions and hangs.
THEOREM FlipInvariance == Spec => []Inv
  BY InitInv, InvStep, PTL DEF Spec

\* No pin is leaked or dropped twice, whatever retains, releases, suspends or parks: a
\* buffer has exactly the pins of the CRTCs that show it, the flips away from it and the
\* ioctls that bring it on (radeon_page_flip_finalize_retained, radeon_unpin_work_func,
\* radeon_suspend_release_scanout_pins).
THEOREM PinsAreBalanced == Spec => []PinsBalance
<1>1. Inv => PinsBalance
  BY DEF Inv
<1> QED  BY <1>1, FlipInvariance, PTL

\* Completion, cancel, quiesce, unpin and cleanup hand an accepted flip on without losing it
\* or owning it twice.
THEOREM OnePlaceHolds == Spec => []OnePlace
<1>1. ASSUME Inv PROVE OnePlace
  <2> SUFFICES ASSUME NEW w \in Accepted
               PROVE  Cardinality({p \in {"attached", "unpin", "retained", "freed"} :
                        CASE p = "attached" -> Attached(w) [] p = "unpin" -> work[w].pc = "unpin"
                          [] p = "retained" -> w \in retained [] p = "freed" -> w \in freed}) = 1
    BY DEF OnePlace
  <2> DEFINE P == {p \in {"attached", "unpin", "retained", "freed"} :
                     CASE p = "attached" -> Attached(w) [] p = "unpin" -> work[w].pc = "unpin"
                       [] p = "retained" -> w \in retained [] p = "freed" -> w \in freed}
  <2>1. /\ work \in Works /\ crtc \in Crtcs /\ AttachedInv /\ PlaceInv /\ w \in Flip
        /\ work[w].pc \in Pending \cup Past \cup {"done", "unpin"}
    BY <1>1 DEF Inv, Typed, Works, Crtcs, Accepted, WorkRec, Pc, Pending, Past
  <2>2. Attached(w) => w \notin retained \cup freed /\ work[w].pc \in Pending \cup {"done"}
    BY <2>1, AttachedFacts
  <2>3. /\ work[w].pc \in Pending => Attached(w)
        /\ work[w].pc = "done" => Attached(w) \/ w \in retained \cup freed
        /\ work[w].pc \in Past => w \in retained \cup freed
        /\ work[w].pc = "unpin" => w \notin retained \cup freed
        /\ ~(w \in retained /\ w \in freed)
    BY <2>1 DEF PlaceInv
  <2>4. \/ Attached(w) /\ work[w].pc # "unpin" /\ w \notin retained /\ w \notin freed
        \/ ~Attached(w) /\ work[w].pc = "unpin" /\ w \notin retained /\ w \notin freed
        \/ ~Attached(w) /\ work[w].pc # "unpin" /\ w \in retained /\ w \notin freed
        \/ ~Attached(w) /\ work[w].pc # "unpin" /\ w \notin retained /\ w \in freed
    BY <2>1, <2>2, <2>3 DEF Pending, Past
  <2>5. \A p : p \in P <=> \/ p = "attached" /\ Attached(w)
                           \/ p = "unpin" /\ work[w].pc = "unpin"
                           \/ p = "retained" /\ w \in retained
                           \/ p = "freed" /\ w \in freed
    OBVIOUS
  <2> HIDE DEF P
  <2>6. P = {"attached"} \/ P = {"unpin"} \/ P = {"retained"} \/ P = {"freed"}
    BY <2>4, <2>5
  <2>7. Cardinality(P) = 1
    BY <2>6, FS_Singleton
  <2> QED  BY <2>7 DEF P
<1> QED  BY <1>1, FlipInvariance, PTL

\* The buffer a lit CRTC scans and the one it is about to scan stay pinned, but for a CRTC
\* whose flip was given up before it was programmed.
THEOREM ScanoutPinned == Spec => []ScanoutStaysPinned
<1>1. ASSUME Inv PROVE ScanoutStaysPinned
  <2> SUFFICES ASSUME NEW c \in Crtc \ behind, crtc[c].lit
               PROVE  pins[crtc[c].scan] > 0 /\ pins[crtc[c].next] > 0
    BY DEF ScanoutStaysPinned
  <2>0. /\ crtc \in Crtcs /\ c \in Crtc /\ PinsBalance /\ Follows(c) /\ Feeds(c) /\ shown
        /\ crtc[c].scan \in Buf /\ crtc[c].next \in Buf
    BY <1>1 DEF Inv, Typed, Crtcs, CrtcRec, ScanInv, LightInv, AllDark
  <2>1. ASSUME NEW b \in Buf, Showing(b) # {} \/ Leaving(b) # {} PROVE pins[b] > 0
    <3>1. /\ IsFiniteSet(Showing(b)) /\ IsFiniteSet(Leaving(b))
          /\ {Cardinality(Showing(b)), Cardinality(Leaving(b)), Cardinality(Coming(b))}
               \subseteq Nat
      BY Finite
    <3>2. Cardinality(Showing(b)) # 0 \/ Cardinality(Leaving(b)) # 0
      BY <2>1, <3>1, FS_EmptySet
    <3> QED  BY <2>0, <3>1, <3>2, PinCount
  <2>2. ASSUME NEW w \in Flip, NEW b \in Buf, Keeps(w, c, b) PROVE pins[b] > 0
    BY <2>1, <2>2 DEF Keeps, Leaving
  <2>3. pins[crtc[c].next] > 0
    <3>1. CASE crtc[c].next = crtc[c].fb
      BY <2>0, <2>1, <3>1 DEF Showing
    <3> QED  BY <2>0, <2>2, <3>1 DEF Follows
  <2>4. pins[crtc[c].scan] > 0
    BY <2>0, <2>2, <2>3 DEF Feeds
  <2> QED  BY <2>3, <2>4
<1> QED  BY <1>1, FlipInvariance, PTL

\* Behind radeon_page_flip_quiesce no flip but the owner's is attached, queued or running,
\* and none can come.
THEOREM QuiescingIsComplete == Spec => []QuiesceIsComplete
<1>1. ASSUME Inv PROVE QuiesceIsComplete
  <2> SUFFICES ASSUME Quiesced
               PROVE  /\ \A c \in Crtc : crtc[c].work \in {NoFlip, owner.who}
                      /\ \A c \in Crtc : \A w \in OnQueue(c) \ {owner.who} :
                           /\ work[w].pc \in {"unpin", "decide", "release", "drop"}
                           /\ owner.who \in OnQueue(c)
                      /\ InTransaction = {}
    BY DEF QuiesceIsComplete
  <2>1. \A c \in Crtc : Quiet(c)
    BY <1>1 DEF Inv, QuietInv
  <2>2. InTransaction = {}
    BY <1>1 DEF Inv, OwnerInv, Moved, Quiesced
  <2> QED  BY <2>1, <2>2 DEF Quiet
<1> QED  BY <1>1, FlipInvariance, PTL
===============================================================================
