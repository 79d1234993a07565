---------------------------- MODULE FenceSeqProofs ----------------------------
(***************************************************************************)
(* For any number of pollers and any width of the hardware's half: the     *)
(* published sequence never runs ahead of the hardware nor of the emitter, *)
(* never moves back, and FenceSeq implements FenceTimeline.                *)
(***************************************************************************)
EXTENDS FenceSeq, TLAPS

(***************************************************************************)
(* What one poller holds: its two earlier reads are behind the shared      *)
(* values, and a sequence it is about to publish was emitted, is newer     *)
(* than what it saw published and, on an RS4xx, has been reported.         *)
(***************************************************************************)
Behind(p) ==
    /\ AtMost(frame[p].emitted, sync_seq)
    /\ frame[p].at \in {"publish", "swap"} =>
         /\ AtMost(frame[p].seq, sync_seq)
         /\ Rs4xx => AtMost(frame[p].seq, reported)
    /\ frame[p].at = "swap" => Before(frame[p].observed, frame[p].seq)

\* The lower half of the cell names one sequence at or below the emitted one.
CellNamesOne == Rs4xx /\ ~cleared => Within(cell, sync_seq) /\ AtMost(cell, reported)

InOrder ==
    /\ Within(last_seq, sync_seq)
    /\ AtMost(reported, sync_seq)
    /\ CellNamesOne
    /\ NeverAhead

\* Inside a reset of an RS4xx only its owner may poll, and not while the cell is cleared.
ClosedIsDrained ==
    /\ cleared => closed
    /\ Rs4xx /\ closed => \A p \in Poller \ {Resetter} : ~Polling(p)
    /\ cleared => ~Polling(Resetter)

SeqInv == TypeOK /\ InOrder /\ ClosedIsDrained /\ \A p \in Poller : Behind(p)

------------------------------------------------------------------------------
(* The order of sequences *)

\* The zero sequence and the successor of a sequence are sequences.
LEMMA WordNext == Zero \in Word /\ \A w \in Word : Next64(w) \in Word
BY HalfAssumption DEF Zero, Word, Next64

\* The successor of a sequence is above it and above everything it was above.
LEMMA NextAbove ==
    ASSUME NEW a \in Word, NEW b \in Word, AtMost(a, b)
    PROVE  AtMost(a, Next64(b))
BY HalfAssumption DEF Word, AtMost, Next64

\* A sequence closer to the last emitted one stays within 2^32 of it.
LEMMA WithinCloser ==
    ASSUME NEW a \in Word, NEW b \in Word, NEW c \in Word,
           Within(a, c), AtMost(a, b), AtMost(b, c)
    PROVE  Within(b, c)
BY HalfAssumption DEF Word, Within, AtMost

\* Within 2^32 implies not above.
LEMMA WithinAtMost ==
    ASSUME NEW a \in Word, NEW b \in Word, Within(a, b)
    PROVE  AtMost(a, b)
BY HalfAssumption DEF Word, Within, AtMost

\* The order is transitive.
LEMMA AtMostTrans ==
    ASSUME NEW a \in Word, NEW b \in Word, NEW c \in Word, AtMost(a, b), AtMost(b, c)
    PROVE  AtMost(a, c)
BY DEF Word, AtMost

\* What Between holds.
LEMMA BetweenWord ==
    ASSUME NEW a \in Word, NEW b \in Word, NEW w \in Between(a, b)
    PROVE  w \in Word /\ Before(a, w) /\ AtMost(w, b)
BY HalfAssumption DEF Word, Between

\* and that nothing is missing from it.
LEMMA WordBetween ==
    ASSUME NEW a \in Word, NEW b \in Word, NEW w \in Word, Before(a, w), AtMost(w, b)
    PROVE  w \in Between(a, b)
BY HalfAssumption DEF Word, Between, Before, AtMost

\* The heart of radeon_fence_activity: a number rebuilt from any two upper halves
\* and the cell's lower half, if it is not above the emitted sequence, is not above
\* the cell either, because fewer than 2^32 fences separate the two.
LEMMA ExtendBelow ==
    ASSUME NEW last \in Word, NEW upto \in Word, NEW c \in Word, NEW s \in Word,
           Within(c, s), AtMost(Extend(last, upto, c.lo), s)
    PROVE  AtMost(Extend(last, upto, c.lo), c)
BY HalfAssumption DEF Word, Within, AtMost, Extend, Join, Before

\* What a poller rebuilds is a sequence.
LEMMA ExtendWord ==
    ASSUME NEW last \in Word, NEW upto \in Word, NEW c \in Word
    PROVE  Extend(last, upto, c.lo) \in Word
BY HalfAssumption DEF Word, Extend, Join

\* The subtraction of radeon_fence_count_emitted stays in range, wrapped or not.
LEMMA CountInRange ==
    ASSUME NEW a \in Word, NEW b \in Word
    PROVE  Outstanding(a, b) \in 0 .. CountLimit
<1> DEFINE modulus == Half * Half
           difference == Value(a) + Half * Half - Value(b)
<1>1. modulus \in Nat /\ modulus > 0
  BY HalfAssumption
<1>2. difference \in Int
  <2>1. Value(a) \in Int /\ Value(b) \in Int
    BY HalfAssumption DEF Word, Value
  <2> QED  BY <1>1, <2>1
<1>3. difference % modulus \in 0 .. modulus - 1
  <2> HIDE DEF modulus, difference
  <2> QED  BY <1>1, <1>2
<1> QED  BY <1>1, <1>3, FenceSeqAssumption DEF Outstanding

------------------------------------------------------------------------------
(* Types *)

\* A poller that enters its call, or leaves it, has a typed frame.
LEMMA IdleFrame ==
    ASSUME NEW step \in Step, NEW w \in Word
    PROVE  /\ Idle \in Frame
           /\ [Idle EXCEPT !.at = step] \in Frame
           /\ [Idle EXCEPT !.at = step, !.snap = w] \in Frame
<1>1. Zero \in Word /\ "idle" \in Step /\ 0 \in 0 .. LoopLimit + 2
  BY WordNext, FenceSeqAssumption DEF Step
<1>2. Idle \in Frame
  BY <1>1 DEF Frame, Idle
<1> QED  BY <1>2 DEF Frame

\* The types hold when the ring is set up.
LEMMA InitType == Init => TypeOK
<1>1. Zero \in Word /\ 0 \in 0 .. MaxReset /\ 0 \in 0 .. CountLimit
  BY WordNext, FenceSeqAssumption
<1>2. Idle \in Frame
  BY <1>1, IdleFrame DEF Step
<1> QED  BY <1>1, <1>2 DEF Init, TypeOK

\* A report is the higher of two sequences.
LEMMA ReportWord ==
    ASSUME NEW w \in Word, reported \in Word, Report(w)
    PROVE  reported' \in Word /\ AtMost(reported, reported') /\ AtMost(w, reported')
           /\ (reported' = w \/ reported' = reported)
BY HalfAssumption DEF Report, Word, AtMost, Before

\* What a replay reports is a sequence.
LEMMA OlderWord ==
    ASSUME NEW a \in Word, NEW w \in [hi : 0 .. a.hi, lo : 0 .. Half - 1]
    PROVE  w \in Word
BY HalfAssumption DEF Word

\* Every step of a poller keeps the types.
LEMMA PollType ==
    ASSUME TypeOK, NEW p \in Poller, BeginPoll(p) \/ CountUnpolled(p) \/ Inside(p)
    PROVE  TypeOK'
<1> USE DEF TypeOK
<1>0. frame[p] \in Frame
  OBVIOUS
<1>2. ASSUME BeginPoll(p) PROVE TypeOK'
  <2>1. [Idle EXCEPT !.at = "emitted", !.snap = last_seq] \in Frame
    BY IdleFrame DEF Step
  <2> QED  BY <1>2, <2>1 DEF BeginPoll, Enter, reset
<1>3. ASSUME CountUnpolled(p) PROVE TypeOK'
  BY <1>0, <1>3 DEF CountUnpolled, reset, Frame, Step
<1>4. ASSUME ReadEmitted(p) PROVE TypeOK'
  BY <1>0, <1>4 DEF ReadEmitted, reset, Frame, Step
<1>5. ASSUME ReadCell(p) PROVE TypeOK'
  <2> DEFINE s == Extend(frame[p].snap, frame[p].emitted, cell.lo)
  <2>1. s \in Word
    BY <1>0, ExtendWord DEF Frame
  <2>2. CASE StaleSample(p, s)
    BY <1>0, <1>5, <2>2 DEF ReadCell, reset, Frame, Step
  <2>3. CASE ~StaleSample(p, s)
    <3> HIDE DEF s
    <3>1. frame' = [frame EXCEPT ![p].at = "publish", ![p].seq = s]
      BY <1>5, <2>3 DEF ReadCell, s
    <3> QED  BY <1>0, <1>5, <2>1, <3>1 DEF ReadCell, reset, Frame, Step
  <2> QED  BY <2>2, <2>3
<1>6. ASSUME ReadPublished(p) PROVE TypeOK'
  BY <1>0, <1>6 DEF ReadPublished, Observe, reset, Frame, Step
<1>7. ASSUME SwapWon(p) PROVE TypeOK'
  BY <1>0, <1>7, FenceSeqAssumption DEF SwapWon, reset, Frame, Step
<1>8. ASSUME SwapLost(p) PROVE TypeOK'
  BY <1>0, <1>8 DEF SwapLost, Observe, reset, Frame, Step
<1>9. ASSUME EndPoll(p) PROVE TypeOK'
  <2>1. Idle \in Frame /\ [Idle EXCEPT !.at = "count"] \in Frame
    BY IdleFrame, WordNext DEF Step
  <2> QED  BY <1>9, <2>1 DEF EndPoll, Rearm, reset
<1>10. ASSUME CountFirst(p) PROVE TypeOK'
  BY <1>0, <1>10 DEF CountFirst, reset, Frame, Step
<1>11. ASSUME CountLast(p) PROVE TypeOK'
  <2>1. Idle \in Frame
    BY IdleFrame, WordNext DEF Step
  <2>2. count' \in 0 .. CountLimit
    BY <1>0, <1>11, CountInRange DEF CountLast, Frame
  <2> QED  BY <1>11, <2>1, <2>2 DEF CountLast, reset
<1> QED  BY <1>2, <1>3, <1>4, <1>5, <1>6, <1>7, <1>8, <1>9, <1>10, <1>11 DEF Inside

\* Every step keeps the types.
LEMMA StepType == TypeOK /\ [Next]_vars => TypeOK'
<1> SUFFICES ASSUME TypeOK, [Next]_vars PROVE TypeOK'
  OBVIOUS
<1> USE DEF TypeOK, reset
<1>1. CASE Emit
  BY <1>1, WordNext DEF Emit
<1>2. CASE Execute
  <2>1. PICK w \in Between(cell, sync_seq) : cell' = w /\ Report(w)
    BY <1>2 DEF Execute
  <2>2. w \in Word /\ reported' \in Word
    BY <2>1, BetweenWord, ReportWord
  <2> QED  BY <1>2, <2>1, <2>2 DEF Execute
<1>3. CASE BeginCheck
  <2>1. [Idle EXCEPT !.at = "emitted", !.snap = last_seq] \in Frame
    BY IdleFrame DEF Step
  <2> QED  BY <1>3, <2>1 DEF BeginCheck, Enter
<1>4. CASE CheckRefused
  BY <1>4 DEF CheckRefused
<1>5. CASE \E p \in Poller : BeginPoll(p) \/ CountUnpolled(p) \/ Inside(p)
  BY <1>5, PollType
<1>6. CASE BeginReset
  BY <1>6, FenceSeqAssumption DEF BeginReset
<1>7. CASE ClearFences \/ StartRing
  BY <1>7, WordNext DEF ClearFences, StartRing
<1>8. CASE Replay
  BY <1>8, OlderWord DEF Replay
<1>9. CASE ForceCompletion
  BY <1>9, ReportWord DEF ForceCompletion
<1>10. CASE EndReset \/ EndFailedReset
  BY <1>10 DEF EndReset, EndFailedReset, EndCall
<1>11. CASE UNCHANGED vars
  BY <1>11 DEF vars
<1> QED  BY <1>1, <1>2, <1>3, <1>4, <1>5, <1>6, <1>7, <1>8, <1>9, <1>10, <1>11 DEF Next

\* The sequences, the frames and the count keep their types.
THEOREM FenceSeqTypes == Spec => []TypeOK
<1> QED  BY InitType, StepType, PTL DEF Spec

------------------------------------------------------------------------------
(* The invariant *)

\* The invariant holds when the ring is set up.
LEMMA InitSeqInv == Init => SeqInv
<1> SUFFICES ASSUME Init PROVE SeqInv
  OBVIOUS
<1>1. Within(Zero, Zero) /\ AtMost(Zero, Zero)
  BY DEF Within, AtMost, Zero
<1>2. InOrder
  BY <1>1 DEF Init, InOrder, CellNamesOne, NeverAhead
<1>3. \A p \in Poller : Behind(p)
  BY <1>1 DEF Init, Behind, Idle
<1> QED  BY <1>2, <1>3, InitType DEF SeqInv, Init, ClosedIsDrained

\* A poller whose frame is untouched stays behind growing shared sequences.
LEMMA BehindGrows ==
    ASSUME TypeOK, TypeOK', NEW p \in Poller, Behind(p), frame'[p] = frame[p],
           AtMost(sync_seq, sync_seq'), AtMost(reported, reported')
    PROVE  Behind(p)'
<1>1. /\ frame[p].emitted \in Word /\ frame[p].seq \in Word
      /\ sync_seq \in Word /\ sync_seq' \in Word /\ reported \in Word /\ reported' \in Word
  BY DEF TypeOK, Frame
<1>2. AtMost(frame[p].emitted, sync_seq')
  BY <1>1, AtMostTrans DEF Behind
<1>3. AtMost(frame[p].seq, sync_seq) => AtMost(frame[p].seq, sync_seq')
  BY <1>1, AtMostTrans
<1>4. AtMost(frame[p].seq, reported) => AtMost(frame[p].seq, reported')
  BY <1>1, AtMostTrans
<1> QED  BY <1>2, <1>3, <1>4 DEF Behind

\* The order is reflexive.
LEMMA AtMostSelf == \A a \in Word : AtMost(a, a)
BY DEF Word, AtMost

\* The steps of one poller keep the invariant.
LEMMA PollSeqInv ==
    ASSUME SeqInv, TypeOK', NEW p \in Poller,
           BeginPoll(p) \/ CountUnpolled(p) \/ Inside(p)
    PROVE  SeqInv'
<1> USE DEF SeqInv
<1>0. /\ frame[p] \in Frame
      /\ frame[p].snap \in Word /\ frame[p].emitted \in Word /\ frame[p].seq \in Word
      /\ frame[p].observed \in Word
      /\ sync_seq \in Word /\ last_seq \in Word /\ cell \in Word /\ reported \in Word
  BY DEF TypeOK, Frame
<1>1. UNCHANGED <<sync_seq, cell, reported>> /\ UNCHANGED reset
  BY DEF BeginPoll, CountUnpolled, Inside, ReadEmitted, ReadCell, ReadPublished, SwapWon,
         SwapLost, EndPoll, CountFirst, CountLast
<1>2. \A q \in Poller \ {p} : frame'[q] = frame[q]
  BY DEF BeginPoll, CountUnpolled, Inside, ReadEmitted, ReadCell, ReadPublished, SwapWon,
         SwapLost, EndPoll, CountFirst, CountLast, Enter, Observe, TypeOK
<1>3. AtMost(sync_seq, sync_seq') /\ AtMost(reported, reported')
  BY <1>0, <1>1, AtMostSelf
<1>4. \A q \in Poller \ {p} : Behind(q)'
  BY <1>2, <1>3, BehindGrows
<1>5. AtMost(Zero, sync_seq)
  BY <1>0, HalfAssumption DEF AtMost, Zero, Word
<1>6. Behind(p)'
  <2>1. CASE BeginPoll(p) \/ CountUnpolled(p) \/ EndPoll(p) \/ CountLast(p)
    <3>1. CASE CountUnpolled(p)
      BY <1>0, <1>1, <3>1 DEF CountUnpolled, Behind, TypeOK, Frame
    <3>2. CASE BeginPoll(p) \/ EndPoll(p) \/ CountLast(p)
      <4>1. frame'[p].emitted = Zero /\ frame'[p].at \in {"idle", "emitted", "count"}
        <5>1. CASE BeginPoll(p)
          BY <5>1 DEF BeginPoll, Enter, Idle, TypeOK
        <5>2. CASE EndPoll(p)
          <6>1. frame'[p] = IF p \in Counter THEN [Idle EXCEPT !.at = "count"] ELSE Idle
            BY <5>2 DEF EndPoll, TypeOK
          <6> QED  BY <6>1 DEF Idle
        <5>3. CASE CountLast(p)
          BY <5>3 DEF CountLast, Idle, TypeOK
        <5> QED  BY <3>2, <5>1, <5>2, <5>3
      <4> QED  BY <1>1, <1>5, <4>1 DEF Behind
    <3> QED  BY <2>1, <3>1, <3>2
  <2>2. CASE ReadEmitted(p) \/ CountFirst(p)
    BY <1>0, <1>1, <2>2, AtMostSelf DEF ReadEmitted, CountFirst, Behind, TypeOK, Frame
  <2>3. CASE ReadCell(p)
    <3> DEFINE s == Extend(frame[p].snap, frame[p].emitted, cell.lo)
    <3>1. CASE StaleSample(p, s)
      BY <1>0, <1>1, <2>3, <3>1 DEF ReadCell, Behind, TypeOK, Frame
    <3>2. CASE ~StaleSample(p, s)
      <4>1. s \in Word
        BY <1>0, ExtendWord
      <4>2. AtMost(s, frame[p].emitted)
        <5> HIDE DEF s
        <5> QED  BY <1>0, <3>2, <4>1 DEF StaleSample, AtMost, Before, Word
      <4>3. AtMost(s, sync_seq)
        <5> HIDE DEF s
        <5> QED  BY <1>0, <4>1, <4>2, AtMostTrans DEF Behind
      <4>4. Rs4xx => AtMost(s, reported)
        <5> SUFFICES ASSUME Rs4xx PROVE AtMost(s, reported)
          OBVIOUS
        <5>1. ~cleared
          BY <2>3 DEF ReadCell, At, ClosedIsDrained, Polling
        <5>2. Within(cell, sync_seq) /\ AtMost(cell, reported)
          BY <5>1 DEF InOrder, CellNamesOne
        <5>3. AtMost(s, cell)
          BY <1>0, <4>3, <5>2, ExtendBelow
        <5> HIDE DEF s
        <5> QED  BY <1>0, <4>1, <5>2, <5>3, AtMostTrans
      <4>5. frame' = [frame EXCEPT ![p].at = "publish", ![p].seq = s]
        BY <2>3, <3>2 DEF ReadCell
      <4> HIDE DEF s
      <4> QED  BY <1>0, <1>1, <4>3, <4>4, <4>5 DEF Behind, TypeOK, Frame
    <3> QED  BY <3>1, <3>2
  <2>4. CASE ReadPublished(p) \/ SwapLost(p)
    BY <1>0, <1>1, <2>4 DEF ReadPublished, SwapLost, At, Observe, Behind, TypeOK, Frame
  <2>5. CASE SwapWon(p)
    BY <1>0, <1>1, <2>5 DEF SwapWon, Behind, TypeOK, Frame
  <2> QED  BY <2>1, <2>2, <2>3, <2>4, <2>5 DEF Inside
<1>7. InOrder'
  <2>1. CASE SwapWon(p)
    <3>1. last_seq' = frame[p].seq /\ AtMost(frame[p].seq, sync_seq)
      BY <2>1 DEF SwapWon, At, Behind
    <3>2. Rs4xx => AtMost(last_seq', reported)
      BY <2>1, <3>1 DEF SwapWon, At, Behind
    <3>3. AtMost(last_seq, frame[p].seq)
      BY <1>0, <2>1 DEF SwapWon, At, Unraced, Behind, Before, AtMost, Word
    <3>4. Within(last_seq', sync_seq)
      BY <1>0, <3>1, <3>3, WithinCloser DEF InOrder
    <3> QED  BY <1>1, <3>2, <3>4 DEF InOrder, CellNamesOne, NeverAhead, reset
  <2>2. CASE ~SwapWon(p)
    <3>1. last_seq' = last_seq
      BY <2>2 DEF BeginPoll, CountUnpolled, Inside, ReadEmitted, ReadCell, ReadPublished,
                  SwapLost, EndPoll, CountFirst, CountLast
    <3> QED  BY <1>1, <3>1 DEF InOrder, CellNamesOne, NeverAhead, reset
  <2> QED  BY <2>1, <2>2
<1>8. ClosedIsDrained'
  <2> SUFFICES ASSUME (Rs4xx /\ closed /\ p # Resetter) \/ (cleared /\ p = Resetter)
               PROVE  ~Polling(p)'
    BY <1>1, <1>2, FenceSeqAssumption DEF ClosedIsDrained, reset, Polling
  <2>1. ~Polling(p) /\ ~BeginPoll(p)
    BY FenceSeqAssumption DEF ClosedIsDrained, BeginPoll
  <2> QED  BY <1>0, <2>1 DEF BeginPoll, CountUnpolled, Inside, ReadEmitted, ReadCell,
                   ReadPublished, SwapWon, SwapLost, EndPoll, CountFirst, CountLast,
                   At, Polling, TypeOK, Idle, Frame
<1> QED  BY <1>4, <1>6, <1>7, <1>8

\* A step that leaves the pollers where they are keeps them behind.
LEMMA SharedSeqInv ==
    ASSUME SeqInv, TypeOK', UNCHANGED frame, UNCHANGED last_seq,
           AtMost(sync_seq, sync_seq'), AtMost(reported, reported'),
           Within(last_seq, sync_seq'), AtMost(reported', sync_seq'),
           CellNamesOne', ClosedIsDrained'
    PROVE  SeqInv'
<1>w. /\ sync_seq \in Word /\ sync_seq' \in Word /\ last_seq \in Word
      /\ reported \in Word /\ reported' \in Word
  BY DEF SeqInv, TypeOK
<1>1. InOrder'
  <2>1. Rs4xx => AtMost(last_seq, reported')
    BY <1>w, AtMostTrans DEF SeqInv, InOrder, NeverAhead
  <2> QED  BY <2>1 DEF InOrder, NeverAhead
<1>2. ASSUME NEW p \in Poller PROVE Behind(p)'
  BY BehindGrows DEF SeqInv
<1> QED  BY <1>1, <1>2 DEF SeqInv

\* Every step keeps the invariant.
LEMMA StepSeqInv == SeqInv /\ [Next]_vars => SeqInv'
<1> SUFFICES ASSUME SeqInv, [Next]_vars PROVE SeqInv'
  OBVIOUS
<1>0. TypeOK'
  BY StepType DEF SeqInv
<1>w. sync_seq \in Word /\ last_seq \in Word /\ cell \in Word /\ reported \in Word
  BY DEF SeqInv, TypeOK
<1>i. /\ Within(last_seq, sync_seq) /\ AtMost(reported, sync_seq)
      /\ CellNamesOne /\ NeverAhead /\ ClosedIsDrained
      /\ AtMost(sync_seq, sync_seq) /\ AtMost(reported, reported)
  BY <1>w, AtMostSelf DEF SeqInv, InOrder
<1>1. CASE Emit
  <2>1. AtMost(sync_seq, sync_seq') /\ AtMost(reported, sync_seq') /\ Within(last_seq, sync_seq')
    BY <1>w, <1>i, <1>1, NextAbove DEF Emit
  <2>2. CellNamesOne' /\ ClosedIsDrained'
    BY <1>i, <1>1 DEF Emit, CellNamesOne, ClosedIsDrained, Polling
  <2> QED  BY <1>0, <1>i, <1>1, <2>1, <2>2, SharedSeqInv DEF Emit
<1>2. CASE Execute
  <2>1. PICK w \in Between(cell, sync_seq) : cell' = w /\ Report(w)
    BY <1>2 DEF Execute
  <2>2. w \in Word /\ Before(cell, w) /\ AtMost(w, sync_seq)
    BY <1>w, BetweenWord
  <2>3. AtMost(reported, reported') /\ AtMost(w, reported') /\ AtMost(reported', sync_seq)
    BY <1>w, <1>i, <2>1, <2>2, ReportWord
  <2>4. Rs4xx => Within(w, sync_seq)
    <3>1. AtMost(cell, w)
      BY <1>w, <2>2 DEF AtMost, Before, Word
    <3> QED  BY <1>w, <1>i, <1>2, <2>2, <3>1, WithinCloser DEF Execute, CellNamesOne
  <2>5. CellNamesOne' /\ ClosedIsDrained'
    BY <1>i, <1>2, <2>1, <2>3, <2>4 DEF Execute, reset, CellNamesOne, ClosedIsDrained, Polling
  <2> QED  BY <1>0, <1>i, <1>2, <2>3, <2>5, SharedSeqInv DEF Execute
<1>3. CASE BeginCheck
  <2>1. UNCHANGED <<sync_seq, last_seq, cell, reset, reported>> /\ ~closed
    BY <1>3 DEF BeginCheck
  <2>2. \A p \in Poller \ {Worker} : frame'[p] = frame[p]
    BY <1>3 DEF BeginCheck, Enter, SeqInv, TypeOK
  <2>3. frame'[Worker].emitted = Zero /\ frame'[Worker].at = "emitted"
    BY <1>3, FenceSeqAssumption DEF BeginCheck, Enter, Idle, SeqInv, TypeOK
  <2>4. AtMost(Zero, sync_seq)
    BY <1>w, HalfAssumption DEF AtMost, Zero, Word
  <2>5. Behind(Worker)'
    BY <2>1, <2>3, <2>4 DEF Behind
  <2>6. ASSUME NEW p \in Poller \ {Worker} PROVE Behind(p)'
    BY <1>0, <1>i, <2>1, <2>2, BehindGrows DEF SeqInv
  <2>7. InOrder' /\ ClosedIsDrained'
    BY <1>i, <2>1 DEF InOrder, CellNamesOne, NeverAhead, ClosedIsDrained, reset
  <2> QED  BY <1>0, <2>5, <2>6, <2>7 DEF SeqInv
<1>4. CASE CheckRefused
  <2>1. CellNamesOne' /\ ClosedIsDrained'
    BY <1>i, <1>4 DEF CheckRefused, reset, CellNamesOne, ClosedIsDrained, Polling
  <2> QED  BY <1>0, <1>i, <1>4, <2>1, SharedSeqInv DEF CheckRefused
<1>5. CASE \E p \in Poller : BeginPoll(p) \/ CountUnpolled(p) \/ Inside(p)
  BY <1>0, <1>5, PollSeqInv
<1>6. CASE BeginReset
  <2>1. CellNamesOne' /\ ClosedIsDrained'
    BY <1>i, <1>6 DEF BeginReset, Drained, CellNamesOne, ClosedIsDrained, Polling
  <2> QED  BY <1>0, <1>i, <1>6, <2>1, SharedSeqInv DEF BeginReset
<1>7. CASE ClearFences
  <2>1. CellNamesOne' /\ ClosedIsDrained'
    BY <1>i, <1>7 DEF ClearFences, InReset, CellNamesOne, ClosedIsDrained, Polling
  <2> QED  BY <1>0, <1>i, <1>7, <2>1, SharedSeqInv DEF ClearFences
<1>8. CASE StartRing
  <2>1. CellNamesOne' /\ ClosedIsDrained'
    BY <1>i, <1>8 DEF StartRing, InReset, CellNamesOne, NeverAhead, ClosedIsDrained, Polling
  <2> QED  BY <1>0, <1>i, <1>8, <2>1, SharedSeqInv DEF StartRing
<1>9. CASE Replay
  <2>1. PICK w \in [hi : 0 .. last_seq.hi, lo : 0 .. Half - 1] :
            cell' = w /\ Before(w, last_seq) /\ Within(w, sync_seq)
    BY <1>9 DEF Replay
  <2>2. w \in Word
    BY <1>w, OlderWord
  <2>3. AtMost(w, last_seq)
    BY <1>w, <2>1, <2>2 DEF AtMost, Before, Word
  <2>4. Rs4xx => AtMost(w, reported)
    BY <1>w, <1>i, <2>2, <2>3, AtMostTrans DEF NeverAhead
  <2>5. CellNamesOne' /\ ClosedIsDrained'
    BY <1>i, <1>9, <2>1, <2>4 DEF Replay, reset, CellNamesOne, ClosedIsDrained, Polling
  <2> QED  BY <1>0, <1>i, <1>9, <2>5, SharedSeqInv DEF Replay
<1>10. CASE ForceCompletion
  <2>1. AtMost(reported, reported') /\ AtMost(sync_seq, reported') /\ AtMost(reported', sync_seq)
    BY <1>w, <1>i, <1>10, ReportWord DEF ForceCompletion
  <2>2. Within(sync_seq, sync_seq)
    BY <1>w, HalfAssumption DEF Within, Word
  <2>3. CellNamesOne' /\ ClosedIsDrained'
    BY <1>i, <1>10, <2>1, <2>2 DEF ForceCompletion, InReset, CellNamesOne, ClosedIsDrained, Polling
  <2> QED  BY <1>0, <1>i, <1>10, <2>1, <2>3, SharedSeqInv DEF ForceCompletion
<1>11. CASE EndReset \/ EndFailedReset
  <2>1. CellNamesOne' /\ ClosedIsDrained'
    BY <1>i, <1>11 DEF EndReset, EndFailedReset, EndCall, CellNamesOne, ClosedIsDrained
  <2> QED  BY <1>0, <1>i, <1>11, <2>1, SharedSeqInv DEF EndReset, EndFailedReset, EndCall
<1>12. CASE UNCHANGED vars
  <2>1. CellNamesOne' /\ ClosedIsDrained'
    BY <1>i, <1>12 DEF vars, reset, CellNamesOne, ClosedIsDrained, Polling
  <2> QED  BY <1>0, <1>i, <1>12, <2>1, SharedSeqInv DEF vars
<1> QED  BY <1>1, <1>2, <1>3, <1>4, <1>5, <1>6, <1>7, <1>8, <1>9, <1>10, <1>11, <1>12 DEF Next

------------------------------------------------------------------------------
(* Theorems *)

\* SeqInv is inductive.
THEOREM SeqInvariant == Spec => []SeqInv
<1> QED  BY InitSeqInv, StepSeqInv, PTL DEF Spec

\* No fence is reported complete before the hardware reported it.
THEOREM NeverAheadHolds == Spec => []NeverAhead
<1>1. SeqInv => NeverAhead
  BY DEF SeqInv, InOrder
<1> QED  BY <1>1, SeqInvariant, PTL

\* No sequence beyond the last emitted fence is published, on any family.
THEOREM PublishedWasEmittedHolds == Spec => []PublishedWasEmitted
<1>1. SeqInv => PublishedWasEmitted
  BY WithinAtMost DEF SeqInv, InOrder, TypeOK, PublishedWasEmitted
<1> QED  BY <1>1, SeqInvariant, PTL

\* A step either leaves the published sequence alone or is a won compare-exchange.
LEMMA OnlySwapPublishes ==
    ASSUME [Next]_vars, last_seq' # last_seq
    PROVE  \E p \in Poller : SwapWon(p)
BY DEF Next, vars, reset, Emit, Execute, BeginCheck, CheckRefused, BeginPoll, CountUnpolled,
       Inside, ReadEmitted, ReadCell, ReadPublished, SwapLost, EndPoll, CountFirst,
       CountLast, BeginReset, ClearFences, StartRing, Replay, ForceCompletion, EndReset,
       EndFailedReset, EndCall

\* A won compare-exchange publishes something newer, emitted and reported.
LEMMA SwapPublishes ==
    ASSUME SeqInv, NEW p \in Poller, SwapWon(p)
    PROVE  /\ last_seq' = frame[p].seq
           /\ frame[p].seq \in Word
           /\ Before(last_seq, frame[p].seq)
           /\ Rs4xx => AtMost(frame[p].seq, reported)
BY DEF SeqInv, TypeOK, Frame, SwapWon, At, Unraced, Behind

\* The published sequence never moves back.
THEOREM MonotoneHolds == Spec => Monotone
<1>1. SeqInv /\ [Next]_vars => AtMost(last_seq, last_seq')
  <2> SUFFICES ASSUME SeqInv, [Next]_vars PROVE AtMost(last_seq, last_seq')
    OBVIOUS
  <2>1. last_seq \in Word
    BY DEF SeqInv, TypeOK
  <2>2. CASE last_seq' = last_seq
    BY <2>1, <2>2, AtMostSelf
  <2>3. CASE last_seq' # last_seq
    <3>1. PICK p \in Poller : SwapWon(p)
      BY <2>3, OnlySwapPublishes
    <3> QED  BY <2>1, <3>1, SwapPublishes DEF Before, AtMost, Word
  <2> QED  BY <2>2, <2>3
<1> QED  BY <1>1, SeqInvariant, PTL DEF Spec, Monotone

\* The abstract timeline is built from the same words.
LEMMA TimelineWords ==
    /\ Zero = Timeline!Zero
    /\ \A a : Next64(a) = Timeline!Next64(a)
    /\ \A a, b : Between(a, b) = Timeline!Between(a, b)
BY DEF Zero, Timeline!Zero, Next64, Timeline!Next64, Between, Timeline!Between,
       Before, Timeline!Before, AtMost, Timeline!AtMost

\* With the pollers drained by every reset, as on an RS4xx, the pollers together
\* implement the timeline: each publication is one step from behind the hardware.
THEOREM Refinement == ASSUME Rs4xx PROVE Spec => ImplementsTimeline
<1>1. Init => Timeline!Init
  BY TimelineWords DEF Init, Timeline!Init
<1>2. SeqInv /\ [Next]_vars => [Timeline!Next]_(Timeline!timelineVars)
  <2> SUFFICES ASSUME SeqInv, [Next]_vars
               PROVE  Timeline!Next \/ UNCHANGED <<sync_seq, reported, last_seq>>
    BY DEF Timeline!timelineVars
  <2> USE DEF Timeline!Next
  <2>0. sync_seq \in Word /\ last_seq \in Word /\ cell \in Word /\ reported \in Word
    BY DEF SeqInv, TypeOK
  <2>1. CASE Emit
    BY <2>1, TimelineWords DEF Emit, Timeline!Emit
  <2>2. ASSUME NEW w \in Word, AtMost(w, sync_seq), Report(w), UNCHANGED <<sync_seq, last_seq>>
        PROVE  Timeline!Next \/ UNCHANGED <<sync_seq, reported, last_seq>>
    <3>1. CASE ~Before(reported, w)
      BY <2>2, <3>1 DEF Report
    <3>2. CASE Before(reported, w)
      <4>1. w \in Between(reported, sync_seq)
        BY <2>0, <2>2, <3>2, WordBetween
      <4> QED  BY <2>2, <3>2, <4>1, TimelineWords DEF Report, Timeline!Finish
    <3> QED  BY <3>1, <3>2
  <2>3. CASE Execute
    <3>1. PICK w \in Between(cell, sync_seq) : Report(w)
      BY <2>3 DEF Execute
    <3>2. w \in Word /\ AtMost(w, sync_seq)
      BY <2>0, BetweenWord
    <3> QED  BY <2>2, <2>3, <3>1, <3>2 DEF Execute
  <2>4. CASE ForceCompletion
    BY <2>0, <2>2, <2>4, AtMostSelf DEF ForceCompletion
  <2>5. ASSUME NEW p \in Poller, SwapWon(p) PROVE Timeline!Next
    <3>1. frame[p].seq \in Between(last_seq, reported)
      BY <2>0, <2>5, SwapPublishes, WordBetween
    <3> QED  BY <2>5, <3>1, TimelineWords DEF SwapWon, Timeline!Publish
  <2>6. CASE ~(Emit \/ Execute \/ ForceCompletion \/ \E p \in Poller : SwapWon(p))
    BY <2>6 DEF Next, vars, reset, BeginCheck, CheckRefused, BeginPoll, CountUnpolled, Inside,
                ReadEmitted, ReadCell, ReadPublished, SwapLost, EndPoll, CountFirst,
                CountLast, BeginReset, ClearFences, StartRing, Replay, EndReset, EndFailedReset,
                EndCall
  <2> QED  BY <2>1, <2>2, <2>3, <2>4, <2>5, <2>6
<1> QED  BY <1>1, <1>2, SeqInvariant, PTL DEF Spec, ImplementsTimeline, Timeline!Spec
------------------------------------------------------------------------------
(* The lockup work *)

\* With the hardware open and the work not queued, either nothing is outstanding
\* or the work is running and has not yet missed an emission: what it read as
\* emitted is what it compares with when it ends.
Watched ==
    /\ closed => ~Polling(Worker)
    /\ frame[Worker].at \notin {"count", "count_last"}
    /\ ~closed /\ ~check_queued =>
         /\ At(Worker, "idle") => last_seq = sync_seq
         /\ frame[Worker].at \in {"read", "publish", "swap", "end"}
              => frame[Worker].emitted = sync_seq

\* Nothing is above the last emitted sequence, so a won compare-exchange finds
\* something outstanding.
LEMMA SwapOutstanding ==
    ASSUME SeqInv, NEW p \in Poller, SwapWon(p)
    PROVE  last_seq # sync_seq
<1>1. /\ last_seq \in Word /\ sync_seq \in Word /\ frame[p].seq \in Word
      /\ Before(last_seq, frame[p].seq)
  BY SwapPublishes DEF SeqInv, TypeOK
<1>2. AtMost(frame[p].seq, sync_seq)
  BY DEF SeqInv, Behind, SwapWon, At
<1> QED  BY <1>1, <1>2 DEF Before, AtMost, Word

\* A poller other than the lockup work that publishes leaves the work's frame alone.
LEMMA WatchedPoll ==
    ASSUME SeqInv, Watched, NEW p \in Poller,
           BeginPoll(p) \/ CountUnpolled(p) \/ Inside(p)
    PROVE  Watched'
<1> USE DEF Watched
<1>0. /\ Worker \in Poller /\ Worker \notin Counter
      /\ frame \in [Poller -> Frame] /\ frame[Worker] \in Frame
      /\ last_seq \in Word /\ sync_seq \in Word
      /\ AtMost(last_seq, sync_seq)
  BY FenceSeqAssumption, WithinAtMost DEF SeqInv, TypeOK, InOrder
<1>1. UNCHANGED <<sync_seq, closed>>
  BY DEF BeginPoll, CountUnpolled, Inside, ReadEmitted, ReadCell, ReadPublished, SwapWon,
         SwapLost, EndPoll, CountFirst, CountLast, reset
<1>2. ASSUME p # Worker PROVE Watched'
  <2>1. frame'[Worker] = frame[Worker]
    BY <1>0, <1>2 DEF BeginPoll, CountUnpolled, Inside, ReadEmitted, ReadCell, ReadPublished,
       SwapWon, SwapLost, EndPoll, CountFirst, CountLast, Enter, Observe
  <2>2. CASE SwapWon(p)
    BY <1>1, <2>1, <2>2, SwapOutstanding DEF SwapWon, At, Polling
  <2>3. CASE EndPoll(p)
    BY <1>1, <2>1, <2>3 DEF EndPoll, At, Polling
  <2>4. CASE ~(SwapWon(p) \/ EndPoll(p))
    <3>1. UNCHANGED <<last_seq, check_queued>>
      BY <2>4 DEF BeginPoll, CountUnpolled, Inside, ReadEmitted, ReadCell, ReadPublished,
         SwapLost, CountFirst, CountLast
    <3> QED  BY <1>1, <2>1, <3>1 DEF At, Polling
  <2> QED  BY <2>2, <2>3, <2>4
<1>3. ASSUME p = Worker PROVE Watched'
  <2> USE <1>0, <1>1, <1>3
  <2>1. ~BeginPoll(p) /\ ~CountUnpolled(p)
    BY DEF BeginPoll, CountUnpolled
  <2>2. CASE ReadEmitted(p)
    BY <2>2 DEF ReadEmitted, At, Polling, Frame
  <2>3. CASE ReadCell(p)
    <3>1. /\ frame'[p].at \in {"end", "publish"} /\ frame'[p].emitted = frame[p].emitted
          /\ UNCHANGED check_queued
      BY <2>3 DEF ReadCell, Frame
    <3> QED  BY <2>3, <3>1 DEF ReadCell, At, Polling
  <2>4. CASE ReadPublished(p) \/ SwapLost(p)
    <3>1. /\ frame'[p].at \in {"end", "swap"} /\ frame'[p].emitted = frame[p].emitted
          /\ frame[p].at \in {"publish", "swap"} /\ UNCHANGED check_queued
      BY <2>4 DEF ReadPublished, SwapLost, Observe, At, Frame
    <3> QED  BY <3>1 DEF At, Polling
  <2>5. CASE SwapWon(p)
    <3>1. /\ frame'[p].at \in {"end", "emitted"} /\ frame'[p].emitted = frame[p].emitted
          /\ frame[p].at = "swap" /\ UNCHANGED check_queued
      BY <2>5 DEF SwapWon, At, Frame
    <3> QED  BY <3>1 DEF At, Polling
  <2>6. CASE EndPoll(p)
    <3>1. frame'[p].at = "idle" /\ UNCHANGED last_seq /\ frame[p].at = "end"
      BY <2>6 DEF EndPoll, Idle, At
    <3>2. check_queued' = (check_queued \/ Before(last_seq, frame[p].emitted))
      BY <2>6 DEF EndPoll, Rearm
    <3>3. ~Before(last_seq, sync_seq) => last_seq = sync_seq
      BY DEF Before, AtMost, Word
    <3> QED  BY <3>1, <3>2, <3>3 DEF At, Polling
  <2>7. ~CountFirst(p) /\ ~CountLast(p)
    BY DEF CountFirst, CountLast, At
  <2> QED  BY <2>1, <2>2, <2>3, <2>4, <2>5, <2>6, <2>7 DEF Inside
<1> QED  BY <1>2, <1>3

\* Where a failed reset parks, nothing outstanding is ever left without a poll to
\* come: radeon_fence_activity may read the emitted sequence too early, but then the
\* emission that followed has queued the work itself (radeon_fence.c:248, 361).
THEOREM OutstandingWatched == ASSUME Rs4xx PROVE Spec => []OutstandingIsWatched
<1>1. Init => Watched
  BY FenceSeqAssumption DEF Init, Watched, Idle, At, Polling
<1>2. SeqInv /\ Watched /\ [Next]_vars => Watched'
  <2> SUFFICES ASSUME SeqInv, Watched, [Next]_vars PROVE Watched'
    OBVIOUS
  <2> USE DEF Watched, At, Polling
  <2>0. Worker \in Poller /\ frame \in [Poller -> Frame]
    BY FenceSeqAssumption DEF SeqInv, TypeOK
  <2>1. CASE Emit
    BY <2>1 DEF Emit
  <2>2. CASE Execute \/ Replay
    BY <2>2 DEF Execute, Replay, reset
  <2>3. CASE BeginCheck
    BY <2>0, <2>3 DEF BeginCheck, Enter, Idle, reset
  <2>4. CASE CheckRefused
    BY <2>4 DEF CheckRefused, reset
  <2>5. CASE \E p \in Poller : BeginPoll(p) \/ CountUnpolled(p) \/ Inside(p)
    BY <2>5, WatchedPoll
  <2>6. CASE BeginReset
    BY <2>0, <2>6 DEF BeginReset, Drained
  <2>7. CASE ClearFences \/ StartRing \/ ForceCompletion
    BY <2>7 DEF ClearFences, StartRing, ForceCompletion, InReset
  <2>8. CASE EndReset \/ EndFailedReset
    BY <2>0, <2>8 DEF EndReset, EndFailedReset, EndCall, InReset
  <2>9. CASE UNCHANGED vars
    BY <2>9 DEF vars, reset
  <2> QED  BY <2>1, <2>2, <2>3, <2>4, <2>5, <2>6, <2>7, <2>8, <2>9 DEF Next
<1>3. Watched => OutstandingIsWatched
  BY DEF Watched, OutstandingIsWatched
<1> QED  BY <1>1, <1>2, <1>3, SeqInvariant, PTL DEF Spec
==============================================================================
