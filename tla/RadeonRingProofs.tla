-------------------------- MODULE RadeonRingProofs --------------------------
(***************************************************************************)
(* Proofs about RadeonRing for every ring size, alignment, layout of the   *)
(* packets and number of fences.                                           *)
(***************************************************************************)
EXTENDS RadeonRing, TLAPS

\* A word that names no fence after seq.
NamesUpTo(w, seq) == w[1] = "fence" => w[2] <= seq

\* Every fence in the buffer, committed or not, and in the saved copy was emitted:
\* whatever the command processor reads, it never reports a fence of the future.
FencesWereEmitted ==
  /\ \A p \in DOMAIN ring : NamesUpTo(ring[p], sync_seq)
  /\ \A i \in DOMAIN data : NamesUpTo(data[i], sync_seq)

RingInv == TypeOK /\ FencesWereEmitted

-----------------------------------------------------------------------------
(* Positions *)

\* A masked position is inside the ring.
LEMMA Masked ==
  ASSUME NEW p \in Int
  PROVE  At(p) \in 0 .. (Size - 1)
BY RingAssumption DEF At, RingAssumption

\* The padding of a commit is shorter than the fetch size.
LEMMA Padding ==
  ASSUME NEW p \in Int
  PROVE  p % Align \in 0 .. (Align - 1)
BY RingAssumption DEF RingAssumption

\* The start block ends inside the ring.
LEMMA StartInside == Start \in 0 .. (Size - 1)
<1>1. Size >= Block
  <2>1. SUFFICES ASSUME Size < Block PROVE FALSE
    BY RingAssumption DEF RingAssumption
  <2>2. Size % Block = Size
    BY <2>1, RingAssumption DEF RingAssumption
  <2>. QED
    BY <2>2, RingAssumption DEF RingAssumption
<1>. QED
  BY <1>1, RingAssumption DEF RingAssumption

-----------------------------------------------------------------------------
(* Words *)

\* What is written into the ring, of which the positions outside keep their word.
LEMMA WrittenWords ==
  ASSUME TypeOK, NEW seq \in Nat,
         \A p \in DOMAIN ring : NamesUpTo(ring[p], seq),
         NEW words,
         \A i \in DOMAIN words : words[i] \in Word /\ NamesUpTo(words[i], seq)
  PROVE  /\ Written(words) \in [0 .. (Size - 1) -> Word]
         /\ \A p \in 0 .. (Size - 1) : NamesUpTo(Written(words)[p], seq)
BY DEF Written, TypeOK

\* A job names its own fence and nothing later.
LEMMA JobNames ==
  ASSUME TypeOK, NEW seq \in Nat
  PROVE  /\ JobWords(seq) \in Seq(Word)
         /\ \A i \in DOMAIN JobWords(seq) : NamesUpTo(JobWords(seq)[i], seq)
<1>1. ASSUME NEW i \in 1 .. Len(Layout)
      PROVE  <<Layout[i], seq, IF Layout[i] = "save" THEN wptr + i - 1 + Resume ELSE 0>> \in Word
  <2>1. Layout[i] \in Kind
    BY RingAssumption DEF RingAssumption
  <2>2. (IF Layout[i] = "save" THEN wptr + i - 1 + Resume ELSE 0) \in Nat
    BY RingAssumption DEF RingAssumption, TypeOK
  <2>. QED
    BY <2>1, <2>2 DEF Word
<1>2. JobWords(seq) \in [1 .. Len(Layout) -> Word]
  BY <1>1, RingAssumption DEF JobWords, RingAssumption
<1>. QED
  BY <1>2, RingAssumption DEF JobWords, NamesUpTo, RingAssumption

\* radeon_ring_commit: padding adds no fence, and the pointer stays masked.
LEMMA CommitWords ==
  ASSUME TypeOK, NEW seq \in Nat,
         \A p \in DOMAIN ring : NamesUpTo(ring[p], seq),
         NEW words \in Seq(Word),
         \A i \in DOMAIN words : NamesUpTo(words[i], seq),
         Commit(words)
  PROVE  /\ ring' \in [0 .. (Size - 1) -> Word]
         /\ \A p \in 0 .. (Size - 1) : NamesUpTo(ring'[p], seq)
         /\ wptr' \in 0 .. (Size - 1)
<1>. DEFINE n == (-(wptr + Len(words))) % Align
            nops == [i \in 1 .. n |-> Nop]
            padded == words \o nops
<1>1. n \in Nat
  BY Padding, RingAssumption DEF TypeOK, RingAssumption
<1>2. Nop \in Word /\ NamesUpTo(Nop, seq)
  BY DEF Nop, Word, Kind, NamesUpTo
<1>3. nops \in Seq(Word) /\ Len(nops) = n
  BY <1>1, <1>2
<1>4. /\ padded \in Seq(Word)
      /\ \A i \in DOMAIN padded : padded[i] \in Word /\ NamesUpTo(padded[i], seq)
  BY <1>1, <1>2, <1>3
<1>5. ring' = Written(padded) /\ wptr' = At(wptr + Len(padded))
  BY DEF Commit
<1>. HIDE DEF padded
<1>6. wptr + Len(padded) \in Int
  BY <1>4 DEF TypeOK
<1>7. wptr' \in 0 .. (Size - 1)
  BY <1>5, <1>6, Masked
<1>. QED
  BY <1>4, <1>5, <1>7, WrittenWords

-----------------------------------------------------------------------------
(* The invariant *)

\* The variables that are read as conditions.
Flags == /\ rs4xx \in BOOLEAN /\ hung \in BOOLEAN /\ needs_reset \in BOOLEAN
         /\ ready \in BOOLEAN /\ saved \in BOOLEAN

\* The copy that backup failed to make, or that has been replayed or dropped.
LEMMA NothingCopied ==
  /\ <<>> \in Seq(Word) /\ Len(<<>>) < Size
  /\ \A i \in DOMAIN <<>> : NamesUpTo(<<>>[i], sync_seq)
BY RingAssumption DEF RingAssumption

\* The ring as the probe left it, its start block read: no fence in it at all.
LEMMA InitInv == Init => RingInv
<1>. SUFFICES ASSUME Init PROVE RingInv
  OBVIOUS
<1>1. /\ <<"start", 0, 0>> \in Word /\ NamesUpTo(<<"start", 0, 0>>, 0)
      /\ Nop \in Word /\ NamesUpTo(Nop, 0)
  BY DEF Word, Kind, Nop, NamesUpTo
<1>2. /\ ring \in [0 .. (Size - 1) -> Word]
      /\ \A p \in DOMAIN ring : NamesUpTo(ring[p], 0)
  BY <1>1 DEF Init
<1>3. Flags
  BY RingAssumption DEF Init, Flags, RingAssumption
<1>4. MaxUpset \in Nat
  BY RingAssumption DEF RingAssumption
<1>5. TypeOK
  BY <1>2, <1>3, <1>4, NothingCopied, StartInside DEF Init, TypeOK, Flags, Phase
<1>. QED
  BY <1>2, <1>5 DEF Init, RingInv, FencesWereEmitted

\* The steps that change neither the buffer nor the copy.
LEMMA PointerSteps ==
  ASSUME RingInv,
         Fetch \/ Hang \/ Process \/ CheckLockup \/ AskReset \/ ClientLock \/ RestoreLock
           \/ TestLock \/ Allocated \/ WaitNext \/ WaitDone \/ BeginReset \/ SkipTest
           \/ TestDone \/ Suspend \/ DrainDone
  PROVE  RingInv'
<1>. USE DEF RingInv, FencesWereEmitted, TypeOK, Phase
<1>1. CASE Fetch
  <2>1. ring[rptr] \in Word /\ NamesUpTo(ring[rptr], sync_seq)
    OBVIOUS
  <2>2. cell' \in 0 .. sync_seq /\ rptr_save' \in Nat
    BY <1>1, <2>1 DEF Fetch, Word, NamesUpTo
  <2>3. rptr' \in 0 .. (Size - 1)
    BY <1>1, Masked DEF Fetch
  <2>. QED
    BY <1>1, <2>2, <2>3 DEF Fetch, holder
<1>2. CASE Hang
  BY <1>2, RingAssumption DEF Hang, fences, holder, RingAssumption
<1>3. CASE Process
  BY <1>3 DEF Process, Poll, Polled, gpu, holder
<1>4. CASE CheckLockup
  BY <1>4 DEF CheckLockup, gpu, fences, holder
<1>5. CASE AskReset
  BY <1>5, RingAssumption DEF AskReset, gpu, fences, holder, RingAssumption
<1>6. CASE ClientLock
  BY <1>6 DEF ClientLock, Lock, gpu, fences
<1>7. CASE RestoreLock
  BY <1>7 DEF RestoreLock, Lock, gpu, fences
<1>8. CASE TestLock
  BY <1>8 DEF TestLock, Lock, gpu, fences
<1>9. CASE Allocated
  BY <1>9 DEF Allocated, gpu, fences
<1>10. CASE WaitNext
  BY <1>10 DEF WaitNext, Poll, Polled, gpu
<1>11. CASE WaitDone
  BY <1>11 DEF WaitDone, Poll, Polled, gpu
<1>12. CASE BeginReset
  BY <1>12 DEF BeginReset, gpu, fences, holder
<1>13. CASE SkipTest
  BY <1>13 DEF SkipTest, TestPassed, gpu, fences
<1>14. CASE TestDone
  BY <1>14 DEF TestDone, TestPassed, Poll, Polled, gpu
<1>15. CASE Suspend
  BY <1>15, RingAssumption DEF Suspend, gpu, fences, RingAssumption
<1>16. CASE DrainDone
  BY <1>16 DEF DrainDone, Poll, Polled, gpu
<1>. QED
  BY <1>1, <1>2, <1>3, <1>4, <1>5, <1>6, <1>7, <1>8, <1>9, <1>10, <1>11, <1>12, <1>13,
     <1>14, <1>15, <1>16

\* What an error path may do: keep or drop the copy, keep or force the cell.
GivesUp ==
  /\ UNCHANGED <<rs4xx, ring, wptr, rptr, rptr_save, sync_seq, last_seq, who, target>>
  /\ cell' \in {cell, sync_seq} /\ data' \in {data, <<>>}
  /\ phase' \in Phase /\ pc' \in {pc, "idle"}
  /\ upsets' \in 0 .. MaxUpset

\* Whichever of them it does, the buffer stays and no fence of the future appears.
LEMMA GivingUp ==
  ASSUME RingInv, GivesUp, Flags'
  PROVE  RingInv'
<1>1. CASE data' = data
  BY <1>1 DEF RingInv, FencesWereEmitted, TypeOK, GivesUp, Flags
<1>2. CASE data' = <<>>
  BY <1>2, NothingCopied DEF RingInv, FencesWereEmitted, TypeOK, GivesUp, Flags
<1>. QED
  BY <1>1, <1>2 DEF GivesUp

\* The steps that end a wait, a test, a reset or the device with an error.
LEMMA FailureSteps ==
  ASSUME RingInv,
         NothingToWaitFor \/ WaitDeadlock \/ ResetFails \/ RestartFails \/ RestoreNothing
           \/ TestFails \/ DrainDeadlock
  PROVE  RingInv'
<1>. USE DEF GivesUp, Dead, ForceCompletion, gpu
<1>1. TypeOK /\ Flags
  BY DEF RingInv, TypeOK, Flags
<1>2. phase \in Phase /\ upsets \in 0 .. MaxUpset /\ MaxUpset \in Nat
  BY <1>1, RingAssumption DEF TypeOK, RingAssumption
<1>3. /\ {"dead", "run", "restore", "resume", "test", "off"} \subseteq Phase
      /\ \A n \in 0 .. MaxUpset : n < MaxUpset => n + 1 \in 0 .. MaxUpset
  BY <1>2 DEF Phase
<1>4. ASSUME Refused, UNCHANGED <<rs4xx, ring, wptr, gpu, sync_seq, last_seq, who, target,
                                  saved, upsets>>
      PROVE  GivesUp /\ Flags'
  <2>1. CASE who = "client"
    BY <1>1, <1>2, <1>4, <2>1 DEF Refused, Flags
  <2>2. CASE who = "restore"
    BY <1>1, <1>2, <1>3, <1>4, <2>2 DEF Refused, RestoreFailed, Flags
  <2>3. CASE who = "test"
    <3>1. TestFailed
      BY <1>4, <2>3 DEF Refused
    <3>2. Flags'
      BY <1>1, <1>4, <3>1, Zenon DEF TestFailed, Flags
    <3>3. GivesUp
      BY <1>2, <1>3, <1>4, <3>1 DEF TestFailed
    <3>. QED
      BY <3>2, <3>3
  <2>. QED
    BY <1>1, <2>1, <2>2, <2>3 DEF TypeOK
<1>5. CASE NothingToWaitFor
  BY <1>4, <1>5, GivingUp DEF NothingToWaitFor
<1>6. CASE WaitDeadlock
  BY <1>4, <1>6, GivingUp DEF WaitDeadlock
<1>7. CASE ResetFails
  BY <1>1, <1>2, <1>3, <1>7, GivingUp DEF ResetFails, Flags
<1>8. CASE RestartFails
  BY <1>1, <1>2, <1>3, <1>8, GivingUp DEF RestartFails, fences, Flags
<1>9. CASE RestoreNothing
  BY <1>1, <1>2, <1>3, <1>9, GivingUp DEF RestoreNothing, holder, Flags
<1>10. CASE TestFails
  <2>1. Flags'
    BY <1>1, <1>10, Zenon DEF TestFails, TestFailed, Flags
  <2>2. GivesUp
    BY <1>2, <1>3, <1>10 DEF TestFails, TestFailed
  <2>. QED
    BY <2>1, <2>2, GivingUp
<1>11. CASE DrainDeadlock
  BY <1>1, <1>2, <1>3, <1>11, GivingUp DEF DrainDeadlock, Flags
<1>. QED
  BY <1>5, <1>6, <1>7, <1>8, <1>9, <1>10, <1>11

\* A job names the fence emitted with it; one that is undone leaves no fence behind.
LEMMA JobSteps ==
  ASSUME RingInv, Schedule \/ Undo
  PROVE  RingInv'
<1>. USE DEF RingInv, FencesWereEmitted
<1>1. CASE Schedule
  <2>1. /\ sync_seq + 1 \in Nat
        /\ \A p \in DOMAIN ring : NamesUpTo(ring[p], sync_seq + 1)
        /\ \A i \in DOMAIN data : NamesUpTo(data[i], sync_seq + 1)
    <3>1. sync_seq \in Nat
      BY DEF TypeOK
    <3>2. ASSUME NEW w, NamesUpTo(w, sync_seq), w \in Word
          PROVE  NamesUpTo(w, sync_seq + 1)
      BY <3>1, <3>2 DEF NamesUpTo, Word
    <3>3. ASSUME NEW p \in DOMAIN ring
          PROVE  NamesUpTo(ring[p], sync_seq + 1)
      <4>1. NamesUpTo(ring[p], sync_seq) /\ ring[p] \in Word
        BY <3>3 DEF TypeOK
      <4>. QED
        BY <3>2, <4>1
    <3>4. ASSUME NEW i \in DOMAIN data
          PROVE  NamesUpTo(data[i], sync_seq + 1)
      <4>1. NamesUpTo(data[i], sync_seq) /\ data[i] \in Word
        BY <3>4 DEF TypeOK
      <4>. QED
        BY <3>2, <4>1
    <3>. QED
      BY <3>1, <3>3, <3>4
  <2>2. /\ ring' \in [0 .. (Size - 1) -> Word]
        /\ \A p \in 0 .. (Size - 1) : NamesUpTo(ring'[p], sync_seq + 1)
        /\ wptr' \in 0 .. (Size - 1)
    BY <1>1, <2>1, JobNames, CommitWords DEF Schedule
  <2>3. TypeOK'
    BY <1>1, <2>2 DEF Schedule, TypeOK, gpu
  <2>. QED
    BY <1>1, <2>1, <2>2, <2>3 DEF Schedule
<1>2. CASE Undo
  <2>. DEFINE words == Unfenced(JobWords(sync_seq + 1))
  <2>1. JobWords(sync_seq + 1) \in Seq(Word)
    <3>1. TypeOK /\ sync_seq + 1 \in Nat
      BY DEF TypeOK
    <3>. HIDE DEF words, RingInv, FencesWereEmitted
    <3>. QED
      BY ONLY <3>1, JobNames
  <2>2. \A i \in DOMAIN words : words[i] \in Word /\ NamesUpTo(words[i], sync_seq)
    BY <2>1 DEF Unfenced, NamesUpTo
  <2>. HIDE DEF words
  <2>3. /\ Written(words) \in [0 .. (Size - 1) -> Word]
        /\ \A p \in 0 .. (Size - 1) : NamesUpTo(Written(words)[p], sync_seq)
    BY <2>2, WrittenWords DEF TypeOK
  <2>4. ring' = Written(words)
    BY <1>2 DEF Undo, words
  <2>5. TypeOK'
    BY <1>2, <2>3, <2>4 DEF Undo, TypeOK, gpu, fences
  <2>. QED
    BY <1>2, <2>3, <2>4, <2>5 DEF Undo, fences
<1>. QED
  BY <1>1, <1>2

\* The backup copies words of the ring, or the one word beyond it that is no fence.
LEMMA BackupStep ==
  ASSUME RingInv, NEW copied \in BOOLEAN, Backup(copied)
  PROVE  RingInv'
<1>. USE DEF RingInv, FencesWereEmitted
<1>. DEFINE size == At(wptr + Size - rptr_save)
            word(i) == IF i = 1 /\ rptr_save >= Size THEN Stray
                       ELSE ring[At(rptr_save + i - 1)]
            copy == [i \in 1 .. size |-> word(i)]
<1>1. size \in 0 .. (Size - 1)
  <2>1. wptr + Size - rptr_save \in Int
    BY RingAssumption DEF TypeOK, RingAssumption
  <2>. QED
    BY <2>1, Masked
<1>2. ASSUME NEW i \in 1 .. size
      PROVE  word(i) \in Word /\ NamesUpTo(word(i), sync_seq)
  <2>1. Stray \in Word /\ NamesUpTo(Stray, sync_seq)
    BY DEF Stray, Word, Kind, NamesUpTo
  <2>2. rptr_save + i - 1 \in Int
    BY <1>1 DEF TypeOK
  <2>3. At(rptr_save + i - 1) \in 0 .. (Size - 1)
    BY <2>2, Masked
  <2>. QED
    BY <2>1, <2>3 DEF TypeOK
<1>3. copy \in Seq(Word) /\ Len(copy) = size /\ DOMAIN copy = 1 .. size
  BY <1>1, <1>2
<1>4. \A i \in DOMAIN copy : NamesUpTo(copy[i], sync_seq)
  BY <1>2, <1>3
<1>5. data' \in {<<>>, copy}
  BY DEF Backup
<1>. HIDE DEF size, word, copy
<1>6. /\ data' \in Seq(Word) /\ Len(data') < Size
      /\ \A i \in DOMAIN data' : NamesUpTo(data'[i], sync_seq)
  <2>1. CASE data' = <<>>
    BY <2>1, RingAssumption DEF RingAssumption
  <2>2. CASE data' = copy
    BY <2>2, <1>1, <1>3, <1>4, RingAssumption DEF RingAssumption
  <2>. QED
    BY <2>1, <2>2, <1>5
<1>7. last_seq' \in 0 .. sync_seq
  BY DEF Backup, Poll, Polled, TypeOK
<1>8. TypeOK'
  BY <1>6, <1>7 DEF Backup, TypeOK, Phase, gpu, holder
<1>. QED
  BY <1>6, <1>8 DEF Backup

\* The start block of a restarted ring names no fence.
LEMMA RestartStep ==
  ASSUME RingInv, Restart
  PROVE  RingInv'
<1>. USE DEF RingInv, FencesWereEmitted
<1>1. <<"start", 0, 0>> \in Word /\ NamesUpTo(<<"start", 0, 0>>, sync_seq)
  BY DEF Word, Kind, NamesUpTo
<1>2. /\ ring' \in [0 .. (Size - 1) -> Word]
      /\ \A p \in DOMAIN ring' : NamesUpTo(ring'[p], sync_seq)
  BY <1>1 DEF Restart, TypeOK
<1>3. Flags'
  BY DEF Restart, RingInv, TypeOK, Flags
<1>4. cell' \in 0 .. sync_seq /\ rptr_save' \in Nat /\ phase' \in Phase
  BY DEF Restart, RingInv, TypeOK, Phase
<1>5. TypeOK'
  BY <1>2, <1>3, <1>4, StartInside DEF Restart, TypeOK, Flags, holder
<1>. QED
  BY <1>2, <1>5 DEF Restart

\* The replay writes what was copied.
LEMMA RestoreStep ==
  ASSUME RingInv, Restore
  PROVE  RingInv'
<1>. USE DEF RingInv, FencesWereEmitted
<1>1. /\ ring' \in [0 .. (Size - 1) -> Word]
      /\ \A p \in 0 .. (Size - 1) : NamesUpTo(ring'[p], sync_seq)
      /\ wptr' \in 0 .. (Size - 1)
  BY CommitWords DEF Restore, TypeOK
<1>2. TypeOK'
  BY <1>1, NothingCopied DEF Restore, TypeOK, Phase, gpu, fences
<1>. QED
  BY <1>1, <1>2, NothingCopied DEF Restore, fences

\* The invariant of the ring: types, and no fence of the future in the buffer or in
\* the copy of a reset.
THEOREM RingInvariance == Spec => []RingInv
<1>1. RingInv /\ [Next]_vars => RingInv'
  <2>. SUFFICES ASSUME RingInv, [Next]_vars PROVE RingInv'
    OBVIOUS
  <2>1. CASE Next
    BY <2>1, PointerSteps, FailureSteps, JobSteps, BackupStep, RestartStep, RestoreStep
    DEF Next, Wait, Test, Drain
  <2>2. CASE UNCHANGED vars
    BY <2>2 DEF vars, gpu, fences, holder, RingInv, FencesWereEmitted, TypeOK
  <2>. QED
    BY <2>1, <2>2
<1>. QED
  BY <1>1, InitInv, PTL DEF Spec

\* Every variable keeps its type: pointers stay masked, the driver sees no fence
\* signalled that was not emitted, and a copy is shorter than the ring.
THEOREM RingTypes == Spec => []TypeOK
<1>1. RingInv => TypeOK
  BY DEF RingInv
<1>. QED
  BY <1>1, RingInvariance, PTL

-----------------------------------------------------------------------------
(* Positions and distances *)

\* Masking a position next to the ring brings it in.
LEMMA AtNear ==
  ASSUME NEW x \in (-Size) .. (2 * Size - 1)
  PROVE  At(x) = IF x < 0 THEN x + Size ELSE IF x < Size THEN x ELSE x - Size
<1>1. Size \in Nat \ {0}
  BY RingAssumption DEF RingAssumption
<1>. QED
  BY <1>1 DEF At

\* The division that masks and rounds.
LEMMA Quotient ==
  ASSUME NEW d \in Nat \ {0}, NEW x \in Int
  PROVE  x = d * (x \div d) + (x % d) /\ x \div d \in Int /\ x % d \in 0 .. (d - 1)
OBVIOUS

\* The quotient and the remainder are the only ones.
LEMMA Remainder ==
  ASSUME NEW d \in Nat \ {0}, NEW k \in Int, NEW r \in 0 .. (d - 1)
  PROVE  (d * k + r) % d = r /\ (d * k + r) \div d = k
OBVIOUS

\* Of a multiple nothing remains.
LEMMA Multiples ==
  ASSUME NEW k \in Int
  PROVE  (Align * k) % Align = 0
<1>1. Align \in Nat \ {0} /\ Align * k \in Int
  BY RingAssumption DEF RingAssumption
<1>2. 0 \in 0 .. (Align - 1)
  BY <1>1
<1>3. (Align * k + 0) % Align = 0
  BY <1>1, <1>2, Remainder
<1>4. Align * k + 0 = Align * k
  BY <1>1
<1>. QED
  BY <1>3, <1>4

\* The words the command processor has still to read, and those it has read since it
\* last wrote its copy of the read pointer.
Backlog == At(wptr - rptr)
Lag == rptr % Block

\* The backlog is the way from the read pointer to the write pointer.
LEMMA Distances ==
  ASSUME TypeOK
  PROVE  /\ Backlog \in 0 .. (Size - 1)
         /\ wptr >= rptr => Backlog = wptr - rptr
         /\ wptr < rptr => Backlog = wptr - rptr + Size
         /\ Lag \in 0 .. (Block - 1) /\ Lag <= rptr
<1>1. Size \in Nat \ {0} /\ Block \in Nat \ {0}
  BY RingAssumption DEF RingAssumption
<1>2. wptr \in 0 .. (Size - 1) /\ rptr \in 0 .. (Size - 1)
  BY DEF TypeOK
<1>3. wptr - rptr \in (-Size) .. (2 * Size - 1)
  BY <1>1, <1>2
<1>4. Lag \in 0 .. (Block - 1) /\ Lag <= rptr
  BY <1>1, <1>2 DEF Lag
<1>. QED
  BY <1>1, <1>2, <1>3, <1>4, AtNear DEF Backlog

\* radeon_ring_free_size: unless backlog and lag fill the ring, the free space is the rest.
LEMMA FreeSpace ==
  ASSUME TypeOK, Backlog + Lag < Size
  PROVE  Free = Size - Backlog - Lag
<1>1. Size \in Nat \ {0}
  BY RingAssumption DEF RingAssumption
<1>2. wptr \in 0 .. (Size - 1) /\ rptr \in 0 .. (Size - 1)
  BY DEF TypeOK
<1>3. PICK x : x = Rptr_copy + Size - wptr
  OBVIOUS
<1>4. x = rptr - Lag + Size - wptr
  BY <1>3 DEF Rptr_copy, Lag
<1>5. Free = IF At(x) = 0 THEN Size ELSE At(x)
  BY <1>3 DEF Free
<1>6. CASE wptr >= rptr
  <2>1. x \in 1 .. Size /\ x = Size - Backlog - Lag
    BY <1>1, <1>2, <1>4, <1>6, Distances
  <2>. QED
    BY <1>1, <1>5, <2>1, AtNear
<1>7. CASE wptr < rptr
  <2>1. x \in (Size + 1) .. (2 * Size - 1) /\ x = 2 * Size - Backlog - Lag
    BY <1>1, <1>2, <1>4, <1>7, Distances
  <2>2. At(x) = x - Size
    BY <1>1, <2>1, AtNear
  <2>. QED
    BY <1>1, <1>5, <2>1, <2>2, Distances
<1>. QED
  BY <1>2, <1>6, <1>7

\* The same of the next state.
LEMMA FreeSpaceNext ==
  (TypeOK /\ Backlog + Lag < Size => Free = Size - Backlog - Lag)'
<1>1. TypeOK /\ Backlog + Lag < Size => Free = Size - Backlog - Lag
  BY FreeSpace
<1>. QED
  BY <1>1, PTL

\* Rounding up to the fetch size: the least multiple that is not below.
LEMMA RoundsUp ==
  ASSUME NEW n \in Nat, NEW k \in Int, n <= Align * k, Align * k < n + Align
  PROVE  AlignUp(n) = Align * k
<1>1. Align \in Nat \ {0}
  BY RingAssumption DEF RingAssumption
<1>2. PICK r : r = n + Align - 1 - Align * k
  OBVIOUS
<1>3. Align * k \in Int
  BY <1>1
<1>4. r \in 0 .. (Align - 1) /\ n + Align - 1 = Align * k + r
  BY <1>1, <1>2, <1>3
<1>5. (n + Align - 1) \div Align = k
  BY <1>1, <1>4, Remainder
<1>. QED
  BY <1>5 DEF AlignUp

\* A rounded number is a multiple, next to the number.
LEMMA RoundedUp ==
  ASSUME NEW n \in Nat
  PROVE  /\ AlignUp(n) \in Nat /\ n <= AlignUp(n) /\ AlignUp(n) < n + Align
         /\ AlignUp(n) % Align = 0
<1>1. Align \in Nat \ {0}
  BY RingAssumption DEF RingAssumption
<1>2. PICK k : k = (n + Align - 1) \div Align
  OBVIOUS
<1>3. k \in Int /\ n + Align - 1 \in Int
  BY <1>1, <1>2
<1>4. n + Align - 1 = Align * k + ((n + Align - 1) % Align)
      /\ (n + Align - 1) % Align \in 0 .. (Align - 1)
  BY <1>1, <1>2, <1>3, Quotient
<1>5. PICK r \in 0 .. (Align - 1) : n + Align - 1 = Align * k + r
  BY <1>4
<1>6. Align * k \in Int
  BY <1>1, <1>3
<1>7. AlignUp(n) = Align * k
  BY <1>2 DEF AlignUp
<1>8. (Align * k) % Align = 0
  BY <1>3, Multiples
<1>. QED
  BY <1>1, <1>5, <1>6, <1>7, <1>8

\* Asking for more gives no less.
LEMMA RoundingGrows ==
  ASSUME NEW m \in Nat, NEW n \in Nat, m <= n
  PROVE  AlignUp(m) <= AlignUp(n)
<1>1. Align \in Nat \ {0}
  BY RingAssumption DEF RingAssumption
<1>2. PICK a : a = (m + Align - 1) \div Align
  OBVIOUS
<1>3. PICK b : b = (n + Align - 1) \div Align
  OBVIOUS
<1>4. a \in Int /\ b \in Int /\ AlignUp(m) = Align * a /\ AlignUp(n) = Align * b
  BY <1>1, <1>2, <1>3 DEF AlignUp
<1>5. a <= b
  <2>1. SUFFICES ASSUME a >= b + 1 PROVE FALSE
    BY <1>4
  <2>2. Align * a >= Align * b + Align
    BY <1>1, <1>4, <2>1
  <2>3. AlignUp(m) < m + Align /\ n <= AlignUp(n) /\ AlignUp(m) \in Nat /\ AlignUp(n) \in Nat
    BY RoundedUp
  <2>. QED
    BY <1>1, <1>4, <2>2, <2>3
<1>. QED
  BY <1>1, <1>4, <1>5

\* radeon_ring_commit pads as radeon_ring_alloc has rounded: from a multiple of the fetch
\* size it goes to the next one past the words.
LEMMA Pads ==
  ASSUME NEW w \in Nat, w % Align = 0, NEW n \in Nat
  PROVE  /\ n + ((-(w + n)) % Align) = AlignUp(n)
         /\ (w + AlignUp(n)) % Align = 0
<1>1. Align \in Nat \ {0}
  BY RingAssumption DEF RingAssumption
<1>2. PICK a \in Int : w = Align * a
  <2>1. w = Align * (w \div Align) + (w % Align) /\ w \div Align \in Int
    BY <1>1, Quotient
  <2>. QED
    BY <1>1, <2>1
<1>3. PICK m : m = (-(w + n)) % Align
  OBVIOUS
<1>4. PICK q \in Int : -(w + n) = Align * q + m
  <2>1. -(w + n) \in Int
    OBVIOUS
  <2>2. -(w + n) = Align * ((-(w + n)) \div Align) + m /\ (-(w + n)) \div Align \in Int
    BY <1>1, <1>3, <2>1, Quotient
  <2>. QED
    BY <2>2
<1>5. m \in 0 .. (Align - 1)
  BY <1>1, <1>3, Padding
<1>6. PICK k \in Int : k = -q - a
  <2>1. -q - a \in Int
    OBVIOUS
  <2>. QED
    BY <2>1
<1>7. Align * k = -(Align * q) - Align * a /\ Align * k \in Int
  BY <1>1, <1>6
<1>8. n + m = Align * k
  BY <1>1, <1>2, <1>4, <1>5, <1>7
<1>9. AlignUp(n) = Align * k
  <2>1. n <= Align * k /\ Align * k < n + Align
    BY <1>1, <1>5, <1>7, <1>8
  <2>. QED
    BY <2>1, RoundsUp
<1>10. w + AlignUp(n) = Align * (a + k) /\ a + k \in Int
  BY <1>1, <1>2, <1>9
<1>11. (w + AlignUp(n)) % Align = 0
  BY <1>10, Multiples
<1>. QED
  BY <1>3, <1>8, <1>9, <1>11

\* A ring is a whole number of fetches: masking keeps a multiple.
LEMMA MaskAligned ==
  ASSUME NEW x \in 0 .. (2 * Size - 1), x % Align = 0
  PROVE  At(x) % Align = 0
<1>1. Align \in Nat \ {0} /\ Size \in Nat \ {0} /\ Size % Align = 0
  BY RingAssumption DEF RingAssumption
<1>2. CASE x < Size
  BY <1>1, <1>2, AtNear
<1>3. CASE x >= Size
  <2>1. At(x) = x - Size
    BY <1>1, <1>3, AtNear
  <2>2. PICK a \in Int : x = Align * a
    <3>1. x = Align * (x \div Align) + (x % Align) /\ x \div Align \in Int
      BY <1>1, Quotient
    <3>. QED
      BY <1>1, <3>1
  <2>3. PICK b \in Int : Size = Align * b
    <3>1. Size = Align * (Size \div Align) + (Size % Align) /\ Size \div Align \in Int
      BY <1>1, Quotient
    <3>. QED
      BY <1>1, <3>1
  <2>4. x - Size = Align * (a - b) /\ a - b \in Int
    BY <1>1, <2>2, <2>3
  <2>5. (x - Size) % Align = 0
    BY <2>4, Multiples
  <2>. QED
    BY <2>1, <2>5
<1>. QED
  BY <1>1, <1>2, <1>3

-----------------------------------------------------------------------------
(* The ring as a queue *)

\* Which phase each holder of ring_lock is in. A reset, a parked or a suspended device
\* has ring_lock free: BeginReset waits for it, and the ways out give it back.
HolderAllowed ==
  /\ phase \in {"reset", "asic", "off", "dead"} => pc = "idle"
  /\ pc \in {"full", "wait", "write"} =>
       /\ who = "client" => phase = "run" /\ ready
       /\ who = "restore" => phase = "restore"
       /\ who = "test" => phase \in {"test", "resume"}
  /\ pc = "test" => phase \in {"test", "resume"} /\ who = "test"
  /\ pc = "drain" => phase = "suspend"

\* What has been written and not read does not come round to the copy of the read pointer,
\* and what has been allocated is still there when it is written.
RoomIsKept ==
  /\ Backlog + Lag < Size
  /\ pc = "write" => Fits(Need)

\* Every commit ends at a multiple of the fetch size.
WptrAligned == wptr % Align = 0

\* The invariant behind the queue.
QueueInv == RingInv /\ HolderAllowed /\ RoomIsKept /\ WptrAligned

\* The GPU may read.
On == phase \notin {"reset", "asic", "off", "dead"}

\* Some words are written at the write pointer, which moves past them.
Appended(n) ==
  /\ wptr' = At(wptr + n) /\ rptr' = rptr
  /\ ring' \in [0 .. (Size - 1) -> Word]
  /\ \A p \in 0 .. (Size - 1) : At(p - wptr) >= n => ring'[p] = ring[p]

\* The words to read are words of the ring, and there are as many as the backlog.
LEMMA UnreadWords ==
  ASSUME TypeOK
  PROVE  /\ Unread \in Seq(Word) /\ Len(Unread) = Backlog
         /\ \A i \in 1 .. Backlog : Unread[i] = ring[At(rptr + i - 1)]
<1>1. Backlog \in Nat /\ rptr \in Nat
  BY Distances, RingAssumption DEF RingAssumption, TypeOK
<1>2. ASSUME NEW i \in 1 .. Backlog PROVE ring[At(rptr + i - 1)] \in Word
  <2>1. At(rptr + i - 1) \in 0 .. (Size - 1)
    BY <1>1, Masked
  <2>. QED
    BY <2>1 DEF TypeOK
<1>3. Unread = [i \in 1 .. Backlog |-> ring[At(rptr + i - 1)]]
  BY DEF Unread, Backlog
<1>. QED
  BY <1>1, <1>2, <1>3

\* The same of the next state.
LEMMA UnreadNext == (TypeOK => Unread \in Seq(Word) /\ Len(Unread) = Backlog)'
<1>1. TypeOK => Unread \in Seq(Word) /\ Len(Unread) = Backlog
  BY UnreadWords
<1>. QED
  BY <1>1, PTL

\* The place of the i-th word to read, and how far past the write pointer it is.
LEMMA UnreadPlace ==
  ASSUME TypeOK, NEW i \in 1 .. Backlog
  PROVE  /\ At(rptr + i - 1) \in 0 .. (Size - 1)
         /\ At(At(rptr + i - 1) - wptr) = Size - Backlog + i - 1
<1>1. Size \in Nat \ {0}
  BY RingAssumption DEF RingAssumption
<1>2. wptr \in 0 .. (Size - 1) /\ rptr \in 0 .. (Size - 1)
  BY DEF TypeOK
<1>3. Backlog \in 0 .. (Size - 1)
  BY Distances
<1>4. PICK p : p = At(rptr + i - 1)
  OBVIOUS
<1>5. p = IF rptr + i - 1 < Size THEN rptr + i - 1 ELSE rptr + i - 1 - Size
  <2>1. rptr + i - 1 \in (-Size) .. (2 * Size - 1) /\ rptr + i - 1 >= 0
    BY <1>1, <1>2, <1>3
  <2>. QED
    BY <1>1, <1>2, <1>4, <2>1, AtNear
<1>6. p \in 0 .. (Size - 1)
  BY <1>1, <1>2, <1>3, <1>5
<1>7. p - wptr \in (-Size) .. (2 * Size - 1)
  BY <1>1, <1>2, <1>6
<1>8. At(p - wptr) = IF p < wptr THEN p - wptr + Size ELSE p - wptr
  BY <1>1, <1>2, <1>6, <1>7, AtNear
<1>9. At(p - wptr) = Size - Backlog + i - 1
  BY <1>1, <1>2, <1>3, <1>5, <1>6, <1>8, Distances
<1>. QED
  BY <1>4, <1>6, <1>9

\* Appending as much as there is room for leaves every word to read where it was, and
\* nothing but the new words is read after them.
LEMMA Appends ==
  ASSUME TypeOK, NEW n \in Nat, Backlog + n < Size, Appended(n)
  PROVE  /\ Backlog' = Backlog + n
         /\ \A i \in 1 .. Backlog : Unread'[i] = Unread[i]
<1>1. Size \in Nat \ {0}
  BY RingAssumption DEF RingAssumption
<1>2. wptr \in 0 .. (Size - 1) /\ rptr \in 0 .. (Size - 1) /\ Backlog \in 0 .. (Size - 1)
  BY Distances DEF TypeOK
<1>3. wptr' = IF wptr + n < Size THEN wptr + n ELSE wptr + n - Size
  <2>1. wptr + n \in (-Size) .. (2 * Size - 1)
    BY <1>1, <1>2
  <2>. QED
    BY <1>1, <1>2, <2>1, AtNear DEF Appended
<1>4. wptr' \in 0 .. (Size - 1) /\ rptr' = rptr
  BY <1>1, <1>2, <1>3 DEF Appended
<1>5. Backlog' = Backlog + n
  <2>1. PICK w \in 0 .. (Size - 1) : w = wptr'
    BY <1>4
  <2>2. Backlog' = At(w - rptr)
    BY <1>4, <2>1 DEF Backlog, At
  <2>3. w - rptr \in (-Size) .. (2 * Size - 1)
    BY <1>1, <1>2
  <2>4. At(w - rptr) = IF w < rptr THEN w - rptr + Size ELSE w - rptr
    BY <1>1, <1>2, <2>3, AtNear
  <2>. QED
    BY <1>1, <1>2, <1>3, <2>1, <2>2, <2>4, Distances
<1>6. Unread' = [i \in 1 .. Backlog' |-> ring'[At(rptr + i - 1)]]
  BY <1>4 DEF Unread, Backlog, At
<1>7. ASSUME NEW i \in 1 .. Backlog PROVE Unread'[i] = Unread[i]
  <2>1. At(rptr + i - 1) \in 0 .. (Size - 1) /\ At(At(rptr + i - 1) - wptr) >= n
    BY <1>1, <1>2, UnreadPlace
  <2>2. ring'[At(rptr + i - 1)] = ring[At(rptr + i - 1)]
    BY <2>1 DEF Appended
  <2>3. i \in 1 .. Backlog'
    BY <1>2, <1>5
  <2>. QED
    BY <1>6, <2>2, <2>3, UnreadWords
<1>. QED
  BY <1>5, <1>7

\* radeon_ring_commit writes its words and padding up to the next fetch, and nothing else.
LEMMA CommitAppends ==
  ASSUME TypeOK, TypeOK', WptrAligned, NEW words \in Seq(Word), Commit(words), rptr' = rptr,
         AlignUp(Len(words)) < Size
  PROVE  Appended(AlignUp(Len(words))) /\ WptrAligned'
<1>1. Size \in Nat \ {0} /\ wptr \in 0 .. (Size - 1)
  BY RingAssumption DEF RingAssumption, TypeOK
<1>2. PICK l \in Nat : l = Len(words)
  OBVIOUS
<1>3. PICK n \in Nat : n = AlignUp(l)
  BY RoundedUp
<1>4. PICK m : m = (-(wptr + l)) % Align
  OBVIOUS
<1>5. m \in Nat
  BY <1>1, <1>4, Padding, RingAssumption DEF RingAssumption
<1>6. l + m = n /\ (wptr + n) % Align = 0
  BY <1>1, <1>3, <1>4, Pads DEF WptrAligned
<1>7. PICK padded : padded = words \o [i \in 1 .. m |-> Nop]
  OBVIOUS
<1>8. ring' = Written(padded) /\ wptr' = At(wptr + Len(padded))
  BY <1>2, <1>4, <1>7 DEF Commit
<1>9. Nop \in Word
  BY DEF Nop, Word, Kind
<1>10. padded \in Seq(Word) /\ Len(padded) = n
  <2>1. PICK nops : nops = [i \in 1 .. m |-> Nop]
    OBVIOUS
  <2>2. nops \in Seq(Word) /\ Len(nops) = m
    BY <1>5, <1>9, <2>1
  <2>3. padded = words \o nops
    BY <1>7, <2>1
  <2>4. words \o nops \in Seq(Word) /\ Len(words \o nops) = Len(words) + Len(nops)
    BY <2>2
  <2>. QED
    BY <1>2, <1>6, <2>2, <2>3, <2>4
<1>11. wptr' = At(wptr + n)
  BY <1>8, <1>10
<1>12. ASSUME NEW p \in 0 .. (Size - 1), At(p - wptr) >= n PROVE ring'[p] = ring[p]
  <2>1. At(p - wptr) \in 0 .. (Size - 1)
    <3>1. p - wptr \in Int
      BY <1>1
    <3>. QED
      BY <3>1, Masked
  <2>2. At(p - wptr) + 1 \notin DOMAIN padded
    BY <1>10, <1>12, <2>1
  <2>3. DOMAIN ring = 0 .. (Size - 1)
    BY DEF TypeOK
  <2>. QED
    BY <1>8, <2>2, <2>3 DEF Written
<1>13. ring' \in [0 .. (Size - 1) -> Word]
  BY DEF TypeOK
<1>14. WptrAligned'
  <2>1. wptr + n \in 0 .. (2 * Size - 1)
    BY <1>1, <1>2, <1>3
  <2>. QED
    BY <1>6, <1>11, <2>1, MaskAligned DEF WptrAligned
<1>. QED
  BY <1>2, <1>3, <1>11, <1>12, <1>13, <1>14 DEF Appended

\* A step of the queue, or none.
QueueStep == Queue!Next \/ UNCHANGED <<Unread, On>>

\* Appending is a submission to the queue, unless nothing is appended.
LEMMA AppendSubmits ==
  ASSUME TypeOK, TypeOK', NEW n \in Nat, Backlog + n < Size, Appended(n), On' = On
  PROVE  QueueStep
<1>1. Backlog' = Backlog + n /\ \A i \in 1 .. Backlog : Unread'[i] = Unread[i]
  BY Appends
<1>2. PICK u : u = Unread
  OBVIOUS
<1>3. PICK v : v = Unread'
  OBVIOUS
<1>4. PICK b \in Nat : b = Backlog
  BY Distances, RingAssumption DEF RingAssumption
<1>5. u \in Seq(Word) /\ Len(u) = b
  BY <1>2, <1>4, UnreadWords
<1>6. v \in Seq(Word) /\ Len(v) = b + n
  <2>1. PICK r \in 0 .. (Size - 1) : r = rptr'
    BY DEF TypeOK
  <2>2. v = [i \in 1 .. b + n |-> ring'[At(r + i - 1)]]
    BY <1>1, <1>3, <1>4, <2>1 DEF Unread, Backlog, At
  <2>3. ASSUME NEW i \in 1 .. b + n PROVE ring'[At(r + i - 1)] \in Word
    <3>1. r + i - 1 \in Int
      BY <1>4
    <3>. QED
      BY <3>1, Masked DEF TypeOK
  <2>. QED
    BY <1>4, <2>2, <2>3
<1>7. \A i \in 1 .. b : v[i] = u[i]
  BY <1>1, <1>2, <1>3, <1>4
<1>8. CASE n = 0
  <2>1. v = u
    BY <1>4, <1>5, <1>6, <1>7, <1>8
  <2>. QED
    BY <1>2, <1>3, <2>1 DEF QueueStep
<1>9. CASE n > 0
  <2>1. SubSeq(v, 1, b) = u
    BY <1>4, <1>5, <1>6, <1>7
  <2>2. Len(u) < Len(v) /\ Len(v) < Size
    BY <1>4, <1>5, <1>6, <1>9
  <2>3. SubSeq(v, 1, Len(u)) = u
    BY <1>5, <2>1
  <2>. QED
    BY <1>2, <1>3, <2>2, <2>3 DEF QueueStep, Queue!Next, Queue!Submit, On
<1>. QED
  BY <1>8, <1>9

\* A read takes the first word, and the copy of the read pointer follows.
LEMMA FetchTakes ==
  ASSUME TypeOK, TypeOK', Fetch
  PROVE  /\ Backlog > 0 /\ Backlog' = Backlog - 1 /\ Backlog' + Lag' <= Backlog + Lag
         /\ \A i \in 1 .. Backlog - 1 : Unread'[i] = Unread[i + 1]
<1>1. Size \in Nat \ {0} /\ Block \in Nat \ {0} /\ Size % Block = 0
  BY RingAssumption DEF RingAssumption
<1>2. wptr \in 0 .. (Size - 1) /\ rptr \in 0 .. (Size - 1) /\ Backlog \in 0 .. (Size - 1)
  BY Distances DEF TypeOK
<1>3. rptr # wptr /\ wptr' = wptr /\ ring' = ring /\ rptr' = At(rptr + 1)
  BY DEF Fetch
<1>4. PICK r \in 0 .. (Size - 1) : r = rptr'
  BY DEF TypeOK
<1>5. r = IF rptr + 1 < Size THEN rptr + 1 ELSE 0
  <2>1. rptr + 1 \in (-Size) .. (2 * Size - 1)
    BY <1>1, <1>2
  <2>. QED
    BY <1>1, <1>2, <1>3, <1>4, <2>1, AtNear
<1>6. Backlog > 0
  BY <1>1, <1>2, <1>3, Distances
<1>7. Backlog' = Backlog - 1
  <2>1. Backlog' = At(wptr - r)
    BY <1>3, <1>4 DEF Backlog, At
  <2>2. wptr - r \in (-Size) .. (2 * Size - 1)
    BY <1>1, <1>2
  <2>3. At(wptr - r) = IF wptr < r THEN wptr - r + Size ELSE wptr - r
    BY <1>1, <1>2, <2>2, AtNear
  <2>. QED
    BY <1>1, <1>2, <1>3, <1>5, <1>6, <2>1, <2>3, Distances
<1>8. Lag' <= Lag + 1
  <2>1. Lag' = r % Block /\ Lag = rptr % Block
    BY <1>4 DEF Lag
  <2>4. Lag' \in 0 .. (Block - 1)
    BY <1>1, <2>1, Quotient
  <2>2. CASE r = 0
    BY <1>1, <1>2, <2>1, <2>2
  <2>3. CASE r = rptr + 1
    <3>1. PICK q \in Int : rptr = Block * q + Lag
      <4>1. rptr = Block * (rptr \div Block) + (rptr % Block) /\ rptr \div Block \in Int
        BY <1>1, <1>2, Quotient
      <4>. QED
        BY <2>1, <4>1
    <3>2. Lag \in 0 .. (Block - 1)
      BY Distances
    <3>3. CASE Lag + 1 < Block
      <4>1. r = Block * q + (Lag + 1)
        BY <1>1, <2>3, <3>1, <3>2
      <4>2. Lag + 1 \in 0 .. (Block - 1)
        BY <1>1, <3>2, <3>3
      <4>3. r % Block = Lag + 1
        BY <1>1, <4>1, <4>2, Remainder
      <4>. QED
        BY <2>1, <3>2, <4>3
    <3>4. CASE Lag + 1 >= Block
      BY <1>1, <2>4, <3>2, <3>4
    <3>. QED
      BY <1>1, <3>2, <3>3, <3>4
  <2>. QED
    BY <1>1, <1>5, <2>2, <2>3
<1>9. Unread' = [i \in 1 .. Backlog' |-> ring[At(r + i - 1)]]
  BY <1>3, <1>4 DEF Unread, Backlog, At
<1>10. ASSUME NEW i \in 1 .. Backlog - 1 PROVE Unread'[i] = Unread[i + 1]
  <2>1. At(r + i - 1) = At(rptr + (i + 1) - 1)
    <3>1. r + i - 1 \in (-Size) .. (2 * Size - 1) /\ rptr + i \in (-Size) .. (2 * Size - 1)
      BY <1>1, <1>2
    <3>2. At(r + i - 1) = IF r + i - 1 < Size THEN r + i - 1 ELSE r + i - 1 - Size
      BY <1>1, <1>2, <3>1, AtNear
    <3>3. At(rptr + i) = IF rptr + i < Size THEN rptr + i ELSE rptr + i - Size
      BY <1>1, <1>2, <3>1, AtNear
    <3>4. rptr + (i + 1) - 1 = rptr + i
      BY <1>2
    <3>. QED
      BY <1>1, <1>2, <1>5, <3>2, <3>3, <3>4
  <2>2. i \in 1 .. Backlog' /\ i + 1 \in 1 .. Backlog
    BY <1>2, <1>7
  <2>. QED
    BY <1>9, <2>1, <2>2, UnreadWords
<1>11. Backlog' + Lag' <= Backlog + Lag
  <2>1. Lag' = r % Block
    BY <1>4 DEF Lag
  <2>2. Lag \in Nat /\ Lag' \in Nat
    BY <1>1, <2>1, Distances, Quotient
  <2>3. PICK b \in Nat : b = Backlog
    BY <1>1, <1>2
  <2>4. PICK l \in Nat : l = Lag
    BY <2>2
  <2>5. PICK m \in Nat : m = Lag'
    BY <2>2
  <2>6. m <= l + 1 /\ Backlog' = b - 1
    BY <1>7, <1>8, <2>3, <2>4, <2>5
  <2>7. (b - 1) + m <= b + l
    BY <2>6
  <2>. QED
    BY <2>3, <2>4, <2>5, <2>6, <2>7
<1>. QED
  BY <1>6, <1>7, <1>10, <1>11

\* The steps that write to the ring or move a pointer, and those that do not.
LEMMA SortedSteps ==
  ASSUME Next
  PROVE  Fetch \/ Schedule \/ Undo \/ Restart \/ Restore \/ UNCHANGED <<ring, wptr, rptr>>
<1>. USE DEF gpu
<1>1. ASSUME Hang \/ Process \/ CheckLockup \/ AskReset \/ ClientLock \/ RestoreLock \/ TestLock
             \/ Allocated
      PROVE  UNCHANGED <<ring, wptr, rptr>>
  BY <1>1 DEF Hang, Process, CheckLockup, AskReset, ClientLock, RestoreLock, TestLock, Lock,
              Allocated
<1>2. ASSUME Wait PROVE UNCHANGED <<ring, wptr, rptr>>
  BY <1>2 DEF Wait, WaitNext, NothingToWaitFor, WaitDone, WaitDeadlock
<1>3. ASSUME Test \/ Drain PROVE UNCHANGED <<ring, wptr, rptr>>
  BY <1>3 DEF Test, SkipTest, TestDone, TestFails, Drain, DrainDone, DrainDeadlock
<1>4. ASSUME BeginReset \/ (\E copied \in BOOLEAN : Backup(copied)) \/ ResetFails
             \/ RestartFails \/ RestoreNothing \/ Suspend
      PROVE  UNCHANGED <<ring, wptr, rptr>>
  BY <1>4 DEF BeginReset, Backup, ResetFails, RestartFails, RestoreNothing, Suspend
<1>. QED
  BY <1>1, <1>2, <1>3, <1>4 DEF Next

\* A step that leaves the ring alone only stops or starts the queue.
LEMMA QuietSteps ==
  ASSUME UNCHANGED <<ring, wptr, rptr>>
  PROVE  QueueStep
<1>1. Unread' = Unread
  BY DEF Unread, At
<1>2. On \in BOOLEAN /\ On' \in BOOLEAN
  BY DEF On
<1>. QED
  BY <1>1, <1>2 DEF QueueStep, Queue!Next, Queue!Stop, Queue!Continue, On

\* There is room in the ring for what has been allocated.
LEMMA RoomToWrite ==
  ASSUME QueueInv, pc = "write"
  PROVE  /\ Backlog \in Nat /\ Lag \in Nat /\ AlignUp(Need) \in Nat /\ Need \in Nat
         /\ Backlog + Lag + AlignUp(Need) < Size
<1>1. TypeOK /\ Backlog + Lag < Size /\ Fits(Need)
  BY DEF QueueInv, RingInv, RoomIsKept
<1>2. Size \in Nat /\ Request \in Nat
  BY RingAssumption DEF RingAssumption
<1>3. Need \in Nat
  BY <1>1, <1>2 DEF Need, TypeOK
<1>4. AlignUp(Need) \in Nat
  BY <1>3, RoundedUp
<1>5. Backlog \in Nat /\ Lag \in Nat
  BY <1>1, Distances, RingAssumption DEF RingAssumption
<1>6. AlignUp(Need) < Size - Backlog - Lag
  BY <1>1, FreeSpace DEF Fits
<1>. QED
  BY <1>2, <1>3, <1>4, <1>5, <1>6

\* What a holder commits that has allocated its space: the copy, or a job.
Commits(words) ==
  /\ pc = "write" /\ words \in Seq(Word) /\ Len(words) <= Need /\ Commit(words)
  /\ UNCHANGED rptr /\ On' = On /\ pc' # "write"

\* A job and a replay commit no more than was allocated.
LEMMA CommitsFit ==
  ASSUME QueueInv, Schedule \/ Restore
  PROVE  \E words : Commits(words)
<1>1. TypeOK /\ HolderAllowed
  BY DEF QueueInv, RingInv
<1>2. CASE Schedule
  <2>1. PICK words : words = JobWords(sync_seq + 1)
    OBVIOUS
  <2>2. sync_seq + 1 \in Nat
    BY <1>1 DEF TypeOK
  <2>3. words \in Seq(Word)
    BY <1>1, <2>1, <2>2, JobNames
  <2>4. Len(words) = Len(Layout)
    BY <2>1, RingAssumption DEF JobWords, RingAssumption
  <2>5. Need = Request
    BY <1>2 DEF Schedule, Need
  <2>6. Len(words) <= Need
    BY <2>4, <2>5, RingAssumption DEF RingAssumption
  <2>. QED
    BY <1>2, <2>1, <2>3, <2>6 DEF Schedule, Commits, gpu, On
<1>3. CASE Restore
  <2>1. data \in Seq(Word) /\ Len(data) <= Need
    BY <1>1, <1>3 DEF Restore, Need, TypeOK
  <2>2. phase = "restore"
    BY <1>1, <1>3 DEF Restore, HolderAllowed
  <2>3. On /\ On'
    BY <1>3, <2>2 DEF Restore, On
  <2>. QED
    BY <1>3, <2>1, <2>3 DEF Restore, Commits, gpu, On
<1>. QED
  BY <1>2, <1>3

\* What is committed is appended to the queue, and the room is kept.
LEMMA CommittingSteps ==
  ASSUME QueueInv, TypeOK', NEW words, Commits(words)
  PROVE  QueueStep /\ RoomIsKept' /\ WptrAligned'
<1>1. TypeOK /\ WptrAligned
  BY DEF QueueInv, RingInv
<1>2. /\ Backlog \in Nat /\ Lag \in Nat /\ AlignUp(Need) \in Nat /\ Need \in Nat
      /\ Backlog + Lag + AlignUp(Need) < Size
  BY RoomToWrite DEF Commits
<1>3. words \in Seq(Word) /\ Len(words) <= Need /\ Commit(words) /\ rptr' = rptr
  BY DEF Commits
<1>4. PICK l \in Nat : l = Len(words)
  BY <1>3
<1>5. PICK n \in Nat : n = AlignUp(l)
  BY RoundedUp
<1>6. n <= AlignUp(Need)
  BY <1>2, <1>3, <1>4, <1>5, RoundingGrows
<1>7. Size \in Nat
  BY RingAssumption DEF RingAssumption
<1>8. Backlog + n < Size /\ n < Size /\ Backlog + n + Lag < Size
  BY <1>2, <1>6, <1>7
<1>9. Appended(n) /\ WptrAligned'
  BY <1>1, <1>3, <1>4, <1>5, <1>8, CommitAppends
<1>10. QueueStep
  BY <1>1, <1>8, <1>9, AppendSubmits DEF Commits
<1>11. Backlog' = Backlog + n
  BY <1>1, <1>8, <1>9, Appends
<1>12. Lag' = Lag
  BY <1>3 DEF Lag
<1>13. RoomIsKept'
  BY <1>2, <1>8, <1>11, <1>12 DEF RoomIsKept, Commits
<1>. QED
  BY <1>9, <1>10, <1>13

\* radeon_ring_unlock_undo leaves words behind, but none where one is still to be read.
LEMMA UndoKeeps ==
  ASSUME QueueInv, Undo
  PROVE  Unread' = Unread /\ UNCHANGED <<wptr, rptr>>
<1>1. TypeOK /\ WptrAligned /\ RoomIsKept /\ pc = "write"
  BY DEF QueueInv, RingInv, Undo
<1>2. /\ Backlog \in Nat /\ Lag \in Nat /\ AlignUp(Need) \in Nat /\ Need \in Nat
      /\ Backlog + Lag + AlignUp(Need) < Size
  BY <1>1, RoomToWrite
<1>3. Need = Request /\ Len(Layout) <= Request /\ Len(Layout) \in Nat /\ Size \in Nat
  BY RingAssumption DEF RingAssumption, Need, Undo
<1>4. Backlog + Len(Layout) < Size
  <2>1. Need <= AlignUp(Need)
    BY <1>2, RoundedUp
  <2>. QED
    BY <1>2, <1>3, <2>1
<1>5. PICK words : words = Unfenced(JobWords(sync_seq + 1))
  OBVIOUS
<1>6. ring' = Written(words) /\ rptr' = rptr /\ wptr' = wptr
  BY <1>5 DEF Undo, gpu
<1>7. DOMAIN words \subseteq 1 .. Len(Layout)
  BY <1>5, RingAssumption DEF Unfenced, JobWords, RingAssumption
<1>8. ASSUME NEW p \in 0 .. (Size - 1), At(p - wptr) >= Len(Layout) PROVE ring'[p] = ring[p]
  <2>1. At(p - wptr) \in 0 .. (Size - 1)
    <3>1. p - wptr \in Int
      BY <1>1 DEF TypeOK
    <3>. QED
      BY <3>1, Masked
  <2>2. At(p - wptr) + 1 \notin DOMAIN words
    BY <1>3, <1>7, <1>8, <2>1
  <2>3. DOMAIN ring = 0 .. (Size - 1)
    BY <1>1 DEF TypeOK
  <2>. QED
    BY <1>6, <2>2, <2>3 DEF Written
<1>9. ASSUME NEW i \in 1 .. Backlog PROVE ring'[At(rptr + i - 1)] = ring[At(rptr + i - 1)]
  <2>1. /\ At(rptr + i - 1) \in 0 .. (Size - 1)
        /\ At(At(rptr + i - 1) - wptr) = Size - Backlog + i - 1
    BY <1>1, UnreadPlace
  <2>2. At(At(rptr + i - 1) - wptr) >= Len(Layout)
    BY <1>2, <1>3, <1>4, <2>1
  <2>. QED
    BY <1>8, <2>1, <2>2
<1>10. Unread' = Unread
  <2>1. Unread = [i \in 1 .. Backlog |-> ring[At(rptr + i - 1)]]
    BY DEF Unread, Backlog
  <2>2. Unread' = [i \in 1 .. Backlog |-> ring'[At(rptr + i - 1)]]
    BY <1>6 DEF Unread, Backlog, At
  <2>. QED
    BY <1>9, <2>1, <2>2
<1>. QED
  BY <1>6, <1>10

\* So it is no step of the queue.
LEMMA UndoSteps ==
  ASSUME QueueInv, Undo
  PROVE  QueueStep /\ RoomIsKept' /\ WptrAligned'
<1>1. RoomIsKept /\ WptrAligned
  BY DEF QueueInv
<1>2. Unread' = Unread /\ wptr' = wptr /\ rptr' = rptr
  BY UndoKeeps
<1>3. QueueStep
  BY <1>2 DEF QueueStep, Undo, On
<1>4. RoomIsKept' /\ WptrAligned'
  BY <1>1, <1>2 DEF RoomIsKept, Backlog, Lag, At, WptrAligned, Undo
<1>. QED
  BY <1>3, <1>4

\* A restarted ring is empty: what had not been read is dropped or in the copy.
LEMMA RestartSteps ==
  ASSUME QueueInv, Restart
  PROVE  QueueStep /\ RoomIsKept' /\ WptrAligned'
<1>1. Size \in Nat \ {0} /\ Block \in Nat \ {0} /\ Start \in 0 .. (Block - 1)
      /\ Start % Align = 0 /\ Start \in 0 .. (Size - 1)
  BY StartInside, RingAssumption DEF RingAssumption
<1>2. wptr' = Start /\ rptr' = Start /\ ~On /\ On'
  BY DEF Restart, On
<1>3. At(Start - Start) = 0
  BY <1>1 DEF At
<1>4. Backlog' = 0
  BY <1>2, <1>3 DEF Backlog, At
<1>5. Unread' = <<>>
  <2>1. Unread' = [i \in 1 .. 0 |-> ring'[At(Start + i - 1)]]
    BY <1>2, <1>3 DEF Unread, At
  <2>. QED
    BY <2>1
<1>6. QueueStep
  BY <1>2, <1>5 DEF QueueStep, Queue!Next, Queue!Continue, On
<1>7. Lag' = Start
  BY <1>1, <1>2 DEF Lag
<1>8. Start < Size /\ 0 + Start < Size
  BY <1>1
<1>9. pc' = "idle"
  BY DEF Restart, QueueInv, HolderAllowed, holder
<1>. QED
  BY <1>1, <1>2, <1>4, <1>6, <1>7, <1>8, <1>9 DEF RoomIsKept, WptrAligned

\* Taking a word keeps the room, and is a step of the queue.
LEMMA FetchSteps ==
  ASSUME QueueInv, TypeOK', Fetch
  PROVE  QueueStep /\ RoomIsKept' /\ WptrAligned'
<1>1. TypeOK /\ WptrAligned /\ RoomIsKept
  BY DEF QueueInv, RingInv
<1>2. /\ Backlog > 0 /\ Backlog' = Backlog - 1 /\ Backlog' + Lag' <= Backlog + Lag
      /\ \A i \in 1 .. Backlog - 1 : Unread'[i] = Unread[i + 1]
  BY <1>1, FetchTakes
<1>3. Size \in Nat /\ Block \in Nat \ {0}
  BY RingAssumption DEF RingAssumption
<1>4. PICK b \in Nat : b = Backlog /\ b < Size
  BY <1>1, <1>3, Distances
<1>5. PICK l \in Nat : l = Lag
  BY <1>1, <1>3, Distances
<1>6. PICK m \in Nat : m = Lag'
  <2>1. PICK r \in 0 .. (Size - 1) : r = rptr'
    BY DEF TypeOK
  <2>2. Lag' = r % Block
    BY <2>1 DEF Lag
  <2>3. r % Block \in Nat
    <3>1. r \in Int /\ Block \in Nat \ {0}
      BY <1>3, <2>1
    <3>. QED
      BY <3>1, Quotient
  <2>. QED
    BY <2>2, <2>3
<1>7. Backlog' = b - 1 /\ b - 1 + m <= b + l /\ b + l < Size /\ b > 0
  BY <1>1, <1>2, <1>4, <1>5, <1>6 DEF RoomIsKept
<1>8. Backlog' + Lag' < Size
  <2>1. (b - 1) + m < Size
    BY <1>3, <1>7
  <2>. QED
    BY <1>6, <1>7, <2>1
<1>9. pc' = pc /\ who' = who /\ data' = data /\ wptr' = wptr /\ ring' = ring /\ phase' = phase
  BY DEF Fetch, holder
<1>10. RoomIsKept'
  <2>1. ASSUME pc = "write" PROVE Fits(Need)'
    <3>1. Free = Size - b - l
      BY <1>1, <1>4, <1>5, FreeSpace DEF RoomIsKept
    <3>2. Free' = Size - (b - 1) - m
      BY <1>6, <1>7, <1>8, FreeSpaceNext
    <3>3. Need' = Need /\ AlignUp(Need)' = AlignUp(Need)
      BY <1>9 DEF Need, AlignUp
    <3>4. PICK n \in Nat : n = AlignUp(Need)
      BY <2>1, RoomToWrite
    <3>5. n < Size - b - l
      BY <1>1, <2>1, <3>1, <3>4 DEF RoomIsKept, Fits
    <3>6. n < Size - (b - 1) - m
      BY <1>3, <1>7, <3>5
    <3>. QED
      BY <3>2, <3>3, <3>4, <3>6 DEF Fits
  <2>. QED
    BY <1>8, <1>9, <2>1 DEF RoomIsKept
<1>11. Unread' = Tail(Unread) /\ Unread # <<>>
  <2>1. PICK u \in Seq(Word) : u = Unread /\ Len(u) = b
    BY <1>1, <1>4, UnreadWords
  <2>2. PICK v : v = Unread'
    OBVIOUS
  <2>3. v \in Seq(Word) /\ Len(v) = b - 1
    BY <1>7, <2>2, UnreadNext
  <2>4. \A i \in 1 .. b - 1 : v[i] = u[i + 1]
    BY <1>2, <1>4, <2>1, <2>2
  <2>5. Tail(u) \in Seq(Word) /\ Len(Tail(u)) = b - 1 /\ u # <<>>
    BY <1>7, <2>1
  <2>6. \A i \in 1 .. b - 1 : Tail(u)[i] = u[i + 1]
    BY <1>7, <2>1
  <2>7. v = Tail(u)
    BY <2>3, <2>4, <2>5, <2>6
  <2>. QED
    BY <2>1, <2>2, <2>5, <2>7
<1>12. On /\ On' = On
  BY <1>9 DEF Fetch, Running, On
<1>13. QueueStep
  BY <1>11, <1>12 DEF QueueStep, Queue!Next, Queue!Execute, On
<1>. QED
  BY <1>1, <1>9, <1>10, <1>13 DEF WptrAligned

\* ring_lock is taken and given back in the phases its holders belong to, and a ring that
\* clients use is ready.
LEMMA HolderSteps ==
  ASSUME TypeOK, HolderAllowed, Next
  PROVE  HolderAllowed'
<1>. USE DEF HolderAllowed
<1>1. who \in {"client", "restore", "test"}
  BY DEF TypeOK
<1>2. ASSUME UNCHANGED <<phase, pc, who, ready>> PROVE HolderAllowed'
  BY <1>2
<1>3. ASSUME Fetch \/ Hang \/ Process \/ CheckLockup \/ AskReset PROVE HolderAllowed'
  <2>1. UNCHANGED <<phase, pc, who, ready>>
    BY <1>3 DEF Fetch, Hang, Process, CheckLockup, AskReset, holder
  <2>. QED
    BY <2>1, <1>2
<1>4. ASSUME NEW w \in {"client", "restore", "test"}, Lock(w),
             w = "client" => phase = "run" /\ ready, w = "restore" => phase = "restore",
             w = "test" => phase \in {"test", "resume"}
      PROVE  HolderAllowed'
  BY <1>4 DEF Lock
<1>5. CASE ClientLock
  BY <1>4, <1>5 DEF ClientLock
<1>6. CASE RestoreLock
  BY <1>4, <1>6 DEF RestoreLock
<1>7. CASE TestLock
  BY <1>4, <1>7 DEF TestLock
<1>8. ASSUME Allocated \/ WaitNext \/ WaitDone PROVE HolderAllowed'
  <2>1. /\ pc \in {"full", "wait"} /\ pc' \in {"full", "wait", "write"}
        /\ UNCHANGED <<phase, who, ready>>
    BY <1>8 DEF Allocated, WaitNext, WaitDone
  <2>. QED
    BY <2>1
<1>9. ASSUME pc' = "idle" PROVE HolderAllowed'
  BY <1>9
<1>10. ASSUME NothingToWaitFor \/ WaitDeadlock PROVE HolderAllowed'
  <2>1. Refused
    BY <1>10 DEF NothingToWaitFor, WaitDeadlock
  <2>2. pc' = "idle"
    BY <1>1, <2>1 DEF Refused, RestoreFailed, TestFailed, Dead
  <2>. QED
    BY <1>9, <2>2
<1>11. CASE Schedule
  <2>1. /\ pc' \in {"idle", "test"} /\ UNCHANGED <<phase, who, ready>>
        /\ pc' = "test" => who = "test" /\ pc = "write"
    BY <1>11 DEF Schedule
  <2>. QED
    BY <2>1
<1>12. CASE Undo \/ Restore
  BY <1>9, <1>12 DEF Undo, Restore
<1>13. ASSUME BeginReset \/ (\E copied \in BOOLEAN : Backup(copied)) \/ Restart
              \/ RestoreNothing
       PROVE  HolderAllowed'
  <2>1. pc' = "idle"
    BY <1>13 DEF BeginReset, Backup, Restart, RestoreNothing, holder
  <2>. QED
    BY <1>9, <2>1
<1>14. ASSUME ResetFails \/ RestartFails PROVE HolderAllowed'
  <2>1. pc' = "idle"
    BY <1>14 DEF ResetFails, RestartFails, Dead
  <2>. QED
    BY <1>9, <2>1
<1>15. CASE Test
  <2>1. pc' = "idle"
    BY <1>15 DEF Test, SkipTest, TestDone, TestFails, TestPassed, TestFailed, Dead
  <2>. QED
    BY <1>9, <2>1
<1>16. CASE Suspend
  BY <1>16 DEF Suspend
<1>17. CASE Drain
  <2>1. pc' = "idle"
    BY <1>17 DEF Drain, DrainDone, DrainDeadlock, Dead
  <2>. QED
    BY <1>9, <2>1
<1>. QED
  BY <1>3, <1>5, <1>6, <1>7, <1>8, <1>10, <1>11, <1>12, <1>13, <1>14, <1>15, <1>16, <1>17
  DEF Next, Wait

\* Between allocation and writing the need stays what it was.
LEMMA StillWriting ==
  ASSUME HolderAllowed, Next, pc = "write", pc' = "write"
  PROVE  UNCHANGED <<who, data>>
<1>1. phase \notin {"reset", "asic", "off"}
  BY DEF HolderAllowed
<1>2. ASSUME Fetch \/ Hang \/ Process \/ CheckLockup \/ AskReset PROVE UNCHANGED <<who, data>>
  BY <1>2 DEF Fetch, Hang, Process, CheckLockup, AskReset, holder
<1>3. ~(ClientLock \/ RestoreLock \/ TestLock \/ Allocated \/ Wait)
  BY DEF ClientLock, RestoreLock, TestLock, Lock, Allocated, Wait, WaitNext,
         NothingToWaitFor, WaitDone, WaitDeadlock
<1>4. ~(Schedule \/ Undo \/ Restore \/ BeginReset \/ RestoreNothing \/ Suspend)
  BY DEF Schedule, Undo, Restore, BeginReset, RestoreNothing, Suspend
<1>5. ~((\E copied \in BOOLEAN : Backup(copied)) \/ ResetFails \/ Restart \/ RestartFails)
  BY <1>1 DEF Backup, ResetFails, Restart, RestartFails
<1>6. ~(Test \/ Drain)
  BY DEF Test, SkipTest, TestDone, TestFails, Drain, DrainDone, DrainDeadlock
<1>. QED
  BY <1>2, <1>3, <1>4, <1>5, <1>6 DEF Next

\* The room does not change while the ring is left alone.
LEMMA QuietRoom ==
  ASSUME QueueInv, Next, UNCHANGED <<ring, wptr, rptr>>
  PROVE  RoomIsKept' /\ WptrAligned'
<1>1. Backlog' = Backlog /\ Lag' = Lag /\ Free' = Free
  BY DEF Backlog, Lag, Free, Rptr_copy, At
<1>2. ASSUME pc' = "write" PROVE Fits(Need)'
  <2>1. Fits(Need) /\ UNCHANGED <<who, data>>
    <3>1. CASE pc = "write"
      BY <1>2, <3>1, StillWriting DEF QueueInv, RoomIsKept
    <3>2. CASE pc # "write"
      <4>1. Allocated
        <5>1. ~(Hang \/ Process \/ CheckLockup \/ AskReset \/ Fetch)
          BY <1>2, <3>2 DEF Hang, Process, CheckLockup, AskReset, Fetch, holder
        <5>2. ~(ClientLock \/ RestoreLock \/ TestLock \/ Schedule \/ Undo \/ Restore \/ Suspend)
          BY <1>2 DEF ClientLock, RestoreLock, TestLock, Lock, Schedule, Undo, Restore, Suspend
        <5>3. ~(BeginReset \/ (\E copied \in BOOLEAN : Backup(copied)) \/ Restart
                \/ RestoreNothing)
          BY <1>2, <3>2 DEF BeginReset, Backup, Restart, RestoreNothing, holder
        <5>4. ~(ResetFails \/ RestartFails \/ Test \/ Drain)
          BY <1>2, <3>2 DEF ResetFails, RestartFails, Test, SkipTest, TestDone, TestFails,
                            TestPassed, TestFailed, Drain, DrainDone, DrainDeadlock, Dead
        <5>5. ~Wait
          <6>1. ~(WaitNext \/ WaitDone)
            BY <1>2 DEF WaitNext, WaitDone
          <6>2. ~Refused
            BY <1>2 DEF Refused, RestoreFailed, TestFailed, Dead, QueueInv, RingInv, TypeOK
          <6>. QED
            BY <6>1, <6>2 DEF Wait, NothingToWaitFor, WaitDeadlock
        <5>. QED
          BY <5>1, <5>2, <5>3, <5>4, <5>5 DEF Next
      <4>. QED
        BY <4>1 DEF Allocated
    <3>. QED
      BY <3>1, <3>2
  <2>2. Need' = Need
    BY <2>1 DEF Need
  <2>. QED
    BY <1>1, <2>1, <2>2 DEF Fits, AlignUp
<1>. QED
  BY <1>1, <1>2 DEF QueueInv, RoomIsKept, WptrAligned

\* Every step of the ring is a step of the queue and keeps its invariant.
LEMMA QueueSteps ==
  ASSUME QueueInv, RingInv', Next
  PROVE  QueueStep /\ QueueInv'
<1>1. TypeOK' /\ HolderAllowed'
  BY HolderSteps DEF QueueInv, RingInv
<1>2. QueueStep /\ RoomIsKept' /\ WptrAligned'
  <2>1. CASE Fetch
    BY <1>1, <2>1, FetchSteps
  <2>2. CASE Schedule \/ Restore
    BY <1>1, <2>2, CommitsFit, CommittingSteps
  <2>3. CASE Undo
    BY <1>1, <2>3, UndoSteps
  <2>4. CASE Restart
    BY <2>4, RestartSteps
  <2>5. CASE UNCHANGED <<ring, wptr, rptr>>
    BY <2>5, QuietSteps, QuietRoom
  <2>. QED
    BY <2>1, <2>2, <2>3, <2>4, <2>5, SortedSteps
<1>. QED
  BY <1>1, <1>2 DEF QueueInv

\* The probe leaves an empty ring whose start block has been read.
LEMMA InitQueue ==
  ASSUME Init
  PROVE  QueueInv /\ Queue!Init
<1>1. RingInv /\ TypeOK
  BY InitInv DEF RingInv
<1>2. Size \in Nat \ {0} /\ Block \in Nat \ {0} /\ Start \in 0 .. (Block - 1)
      /\ Start % Align = 0 /\ Start \in 0 .. (Size - 1)
  BY StartInside, RingAssumption DEF RingAssumption
<1>3. wptr = Start /\ rptr = Start /\ pc = "idle" /\ phase = "run"
  BY DEF Init
<1>4. Backlog = 0
  BY <1>1, <1>2, <1>3, Distances
<1>5. Lag = Start
  BY <1>2, <1>3 DEF Lag
<1>6. RoomIsKept /\ WptrAligned /\ HolderAllowed
  BY <1>2, <1>3, <1>4, <1>5 DEF RoomIsKept, WptrAligned, HolderAllowed
<1>7. Unread = <<>>
  <2>1. Unread \in Seq(Word) /\ Len(Unread) = 0
    BY <1>1, <1>4, UnreadWords
  <2>. QED
    BY <2>1
<1>. QED
  BY <1>1, <1>3, <1>6, <1>7 DEF QueueInv, Queue!Init

\* The invariant of the queue.
THEOREM QueueInvariance == Spec => []QueueInv
<1>1. Init => QueueInv
  BY InitQueue
<1>2. QueueInv /\ RingInv' /\ [Next]_vars => QueueInv'
  <2>. SUFFICES ASSUME QueueInv, RingInv', [Next]_vars PROVE QueueInv'
    OBVIOUS
  <2>1. CASE Next
    BY <2>1, QueueSteps
  <2>2. CASE UNCHANGED vars
    BY <2>2 DEF vars, gpu, fences, holder, QueueInv, HolderAllowed, RoomIsKept, WptrAligned,
                Backlog, Lag, At, Fits, AlignUp, Need, Free, Rptr_copy
  <2>. QED
    BY <2>1, <2>2
<1>. QED
  BY <1>1, <1>2, RingInvariance, PTL DEF Spec

\* The ring implements its queue: whatever the lag of the read pointer's copy and the
\* padding, no command that has not been read is overwritten or skipped, and what has
\* not been read is lost only when the GPU is stopped.
THEOREM QueueHolds == Spec => RingIsAQueue
<1>1. Init => Queue!Init
  BY InitQueue
<1>2. QueueInv /\ RingInv' /\ [Next]_vars => [Queue!Next]_Queue!vars
  <2>. SUFFICES ASSUME QueueInv, RingInv', [Next]_vars PROVE [Queue!Next]_Queue!vars
    OBVIOUS
  <2>1. QueueStep
    <3>1. CASE Next
      BY <3>1, QueueSteps
    <3>2. CASE UNCHANGED vars
      BY <3>2, QuietSteps DEF vars, gpu
    <3>. QED
      BY <3>1, <3>2
  <2>. QED
    BY <2>1 DEF QueueStep, Queue!vars, On
<1>. QED
  BY <1>1, <1>2, RingInvariance, QueueInvariance, PTL DEF Spec, RingIsAQueue, Queue!Spec

\* What is committed is in the ring from the write pointer on.
LEMMA CommittedAt ==
  ASSUME TypeOK, WptrAligned, NEW words \in Seq(Word), Commit(words),
         NEW k \in 1 .. AlignUp(Len(words)),
         NEW p \in 0 .. (Size - 1), At(p - wptr) = k - 1
  PROVE  ring'[p] = IF k <= Len(words) THEN words[k] ELSE Nop
<1>1. Size \in Nat \ {0} /\ wptr \in 0 .. (Size - 1)
  BY RingAssumption DEF RingAssumption, TypeOK
<1>2. PICK l \in Nat : l = Len(words)
  OBVIOUS
<1>3. PICK n \in Nat : n = AlignUp(l)
  BY RoundedUp
<1>4. PICK m : m = (-(wptr + l)) % Align
  OBVIOUS
<1>5. m \in Nat
  BY <1>1, <1>4, Padding, RingAssumption DEF RingAssumption
<1>6. l + m = n
  BY <1>1, <1>3, <1>4, Pads DEF WptrAligned
<1>7. PICK nops : nops = [i \in 1 .. m |-> Nop]
  OBVIOUS
<1>8. nops \in Seq(Word) /\ Len(nops) = m
  BY <1>5, <1>7 DEF Nop, Word, Kind
<1>9. PICK padded : padded = words \o nops
  OBVIOUS
<1>10. ring' = Written(padded)
  BY <1>2, <1>4, <1>7, <1>9 DEF Commit
<1>11. /\ padded \in Seq(Word) /\ Len(padded) = n
       /\ padded[k] = IF k <= l THEN words[k] ELSE Nop
  <2>1. k \in 1 .. l + m
    BY <1>2, <1>3, <1>6
  <2>2. words \o nops \in Seq(Word) /\ Len(words \o nops) = Len(words) + Len(nops)
    BY <1>8
  <2>3. CASE k <= l
    <3>1. padded[k] = words[k]
      BY <1>2, <1>8, <1>9, <2>1, <2>3
    <3>. QED
      BY <1>2, <1>6, <1>8, <1>9, <2>2, <2>3, <3>1
  <2>4. CASE k > l
    <3>1. padded[k] = nops[k - l] /\ k - l \in 1 .. m
      BY <1>2, <1>5, <1>8, <1>9, <2>1, <2>4
    <3>2. nops[k - l] = Nop
      BY <1>7, <3>1
    <3>. QED
      BY <1>2, <1>6, <1>8, <1>9, <2>2, <2>4, <3>1, <3>2
  <2>. QED
    BY <1>2, <2>1, <2>3, <2>4
<1>12. k \in 1 .. n
  BY <1>2, <1>3
<1>13. ring'[p] = padded[k]
  <2>1. p \in DOMAIN ring
    BY DEF TypeOK
  <2>2. At(p - wptr) + 1 = k /\ k \in DOMAIN padded
    BY <1>11, <1>12
  <2>. QED
    BY <1>10, <2>1, <2>2 DEF Written
<1>. QED
  BY <1>2, <1>11, <1>13

\* It is what will be read after the backlog.
LEMMA CommittedWords ==
  ASSUME TypeOK, TypeOK', WptrAligned, NEW words \in Seq(Word), Commit(words), rptr' = rptr,
         Backlog + AlignUp(Len(words)) < Size,
         NEW k \in 1 .. AlignUp(Len(words))
  PROVE  Unread'[Backlog + k] = IF k <= Len(words) THEN words[k] ELSE Nop
<1>1. Size \in Nat \ {0} /\ wptr \in 0 .. (Size - 1) /\ rptr \in 0 .. (Size - 1)
  BY RingAssumption DEF RingAssumption, TypeOK
<1>2. PICK n \in Nat : n = AlignUp(Len(words))
  BY RoundedUp
<1>3. PICK b \in Nat : b = Backlog /\ b + n < Size
  BY <1>1, <1>2, Distances
<1>4. k \in 1 .. n
  BY <1>2
<1>5. PICK p : p = At(rptr + (b + k) - 1)
  OBVIOUS
<1>6. p \in 0 .. (Size - 1) /\ At(p - wptr) = k - 1
  <2>1. rptr + (b + k) - 1 \in (-Size) .. (2 * Size - 1)
    BY <1>1, <1>3, <1>4
  <2>2. p = IF rptr + (b + k) - 1 < Size THEN rptr + (b + k) - 1
            ELSE rptr + (b + k) - 1 - Size
    BY <1>1, <1>3, <1>4, <1>5, <2>1, AtNear
  <2>3. p \in 0 .. (Size - 1)
    BY <1>1, <1>3, <1>4, <2>2
  <2>4. p - wptr \in (-Size) .. (2 * Size - 1)
    BY <1>1, <2>3
  <2>5. At(p - wptr) = IF p < wptr THEN p - wptr + Size ELSE p - wptr
    BY <1>1, <2>3, <2>4, AtNear
  <2>6. /\ wptr >= rptr => b = wptr - rptr
        /\ wptr < rptr => b = wptr - rptr + Size
    BY <1>3, Distances
  <2>. QED
    BY <1>1, <1>3, <1>4, <2>2, <2>3, <2>5, <2>6
<1>7. ring'[p] = IF k <= Len(words) THEN words[k] ELSE Nop
  BY <1>6, CommittedAt
<1>8. Backlog' = b + n
  <2>1. Appended(n)
    BY <1>1, <1>2, <1>3, CommitAppends
  <2>. QED
    BY <1>3, <2>1, Appends
<1>9. Unread'[b + k] = ring'[At(rptr + (b + k) - 1)]
  <2>1. Unread' = [i \in 1 .. Backlog' |-> ring'[At(rptr + i - 1)]]
    BY DEF Unread, Backlog, At
  <2>2. b + k \in 1 .. Backlog'
    BY <1>3, <1>4, <1>8
  <2>. QED
    BY <2>1, <2>2
<1>. QED
  BY <1>3, <1>5, <1>7, <1>9

-----------------------------------------------------------------------------
(* Space to wait for *)

\* A job's words and padding.
JobSize == AlignUp(Len(Layout))

\* The first fence of a job is its n-th word.
FirstFence(n) == n \in DOMAIN Layout /\ \A i \in 1 .. (n - 1) : Layout[i] # "fence"

\* The ring has room for two jobs, up to the fence of the second, beside what a job asks
\* for and the lag of the read pointer's copy.
RoomForTwoJobs(n) == AlignUp(Request) + Block + 2 * JobSize <= Size + n

\* Until the word d places before the write pointer has been read, the last fence but k
\* has not been signalled, and no word before it signals it.
Ahead(k, d) ==
  /\ Backlog >= d => cell + k < sync_seq /\ last_seq + k < sync_seq
  /\ \A i \in 1 .. (Backlog - d) : Unread[i][1] = "fence" => Unread[i][2] + k < sync_seq

\* Of a ring that clients use, the last two fences, d and e places before the write
\* pointer, are signalled by the jobs that were given them; so is the fence of an IB test.
FencesAhead(d, e) ==
  /\ phase = "run" /\ ready => Ahead(0, d) /\ Ahead(1, e)
  /\ pc = "test" => target = sync_seq /\ Ahead(0, d)
  /\ phase \in {"reset", "asic", "off"} => ~ready

\* A job is as long as its layout, or longer.
LEMMA JobSizes ==
  ASSUME NEW n \in DOMAIN Layout
  PROVE  JobSize \in Nat /\ n \in Nat /\ 1 <= n /\ n <= Len(Layout) /\ Len(Layout) <= JobSize
<1>1. Len(Layout) \in Nat /\ n \in 1 .. Len(Layout)
  BY RingAssumption DEF RingAssumption
<1>. QED
  BY <1>1, RoundedUp DEF JobSize

\* The types of the words to read.
LEMMA UnreadTypes ==
  ASSUME RingInv
  PROVE  /\ Backlog \in Nat /\ cell \in Nat /\ last_seq \in Nat /\ sync_seq \in Nat
         /\ cell <= sync_seq /\ last_seq <= sync_seq
         /\ \A i \in 1 .. Backlog : /\ Unread[i] \in Word /\ Unread[i][2] \in Nat
                                    /\ Unread[i][1] = "fence" => Unread[i][2] <= sync_seq
<1>1. TypeOK /\ \A p \in DOMAIN ring : NamesUpTo(ring[p], sync_seq)
  BY DEF RingInv, FencesWereEmitted
<1>2. Backlog \in Nat
  BY <1>1, Distances, RingAssumption DEF RingAssumption
<1>3. /\ cell \in Nat /\ last_seq \in Nat /\ sync_seq \in Nat
      /\ cell <= sync_seq /\ last_seq <= sync_seq
  BY <1>1 DEF TypeOK
<1>4. ASSUME NEW i \in 1 .. Backlog
      PROVE  /\ Unread[i] \in Word /\ Unread[i][2] \in Nat
             /\ Unread[i][1] = "fence" => Unread[i][2] <= sync_seq
  <2>1. At(rptr + i - 1) \in 0 .. (Size - 1) /\ Unread[i] = ring[At(rptr + i - 1)]
    BY <1>1, UnreadPlace, UnreadWords
  <2>2. At(rptr + i - 1) \in DOMAIN ring /\ Unread[i] \in Word
    BY <1>1, <2>1 DEF TypeOK
  <2>. QED
    BY <1>1, <2>1, <2>2 DEF NamesUpTo, Word
<1>. QED
  BY <1>2, <1>3, <1>4

\* Reading signals no fence early.
LEMMA FetchAhead ==
  ASSUME RingInv, RingInv', Fetch, NEW k \in Nat, NEW d \in Nat \ {0}, Ahead(k, d)
  PROVE  Ahead(k, d)'
<1>1. TypeOK /\ TypeOK'
  BY DEF RingInv
<1>2. /\ Backlog > 0 /\ Backlog' = Backlog - 1
      /\ \A i \in 1 .. Backlog - 1 : Unread'[i] = Unread[i + 1]
  BY <1>1, FetchTakes
<1>3. PICK b \in Nat : b = Backlog
  BY UnreadTypes
<1>4. /\ cell \in Nat /\ last_seq \in Nat /\ sync_seq \in Nat
      /\ sync_seq' = sync_seq /\ last_seq' = last_seq
  BY UnreadTypes DEF Fetch
<1>5. cell' = IF Unread[1][1] = "fence" THEN Unread[1][2] ELSE cell
  <2>1. Unread[1] = ring[At(rptr + 1 - 1)]
    BY <1>1, <1>2, <1>3, UnreadWords
  <2>2. rptr + 1 - 1 = rptr /\ At(rptr) = rptr
    <3>1. Size \in Nat \ {0} /\ rptr \in 0 .. (Size - 1)
      BY <1>1, RingAssumption DEF TypeOK, RingAssumption
    <3>2. rptr \in (-Size) .. (2 * Size - 1)
      BY <3>1
    <3>. QED
      BY <3>1, <3>2, AtNear
  <2>. QED
    BY <2>1, <2>2 DEF Fetch
<1>6. b >= d => cell + k < sync_seq /\ last_seq + k < sync_seq
  BY <1>3 DEF Ahead
<1>7. \A i \in 1 .. (b - d) : Unread[i][1] = "fence" => Unread[i][2] + k < sync_seq
  BY <1>3 DEF Ahead
<1>8. ASSUME b - 1 >= d PROVE cell' + k < sync_seq /\ last_seq + k < sync_seq
  <2>1. 1 \in 1 .. (b - d) /\ b >= d
    BY <1>8
  <2>. QED
    BY <1>5, <1>6, <1>7, <2>1
<1>9. ASSUME NEW i \in 1 .. (b - 1 - d), Unread'[i][1] = "fence"
      PROVE  Unread'[i][2] + k < sync_seq
  <2>1. i + 1 \in 1 .. (b - d) /\ i \in 1 .. (b - 1)
    OBVIOUS
  <2>2. Unread'[i] = Unread[i + 1]
    BY <1>2, <1>3, <2>1
  <2>. QED
    BY <1>7, <1>9, <2>1, <2>2
<1>10. Backlog' = b - 1
  BY <1>2, <1>3
<1>. QED
  BY <1>4, <1>8, <1>9, <1>10 DEF Ahead

\* Nor does a step that writes nothing to be read.
LEMMA QuietAhead ==
  ASSUME RingInv, UNCHANGED <<Unread, Backlog, cell, sync_seq>>, last_seq' \in {last_seq, Polled},
         NEW k \in Nat, NEW d \in Nat, Ahead(k, d)
  PROVE  Ahead(k, d)'
<1>1. cell \in Nat /\ last_seq \in Nat /\ sync_seq \in Nat
  BY UnreadTypes
<1>. QED
  BY <1>1 DEF Ahead, Polled

\* A job comes after the backlog, its fence in its place; what was the last fence is now
\* the last but one.
LEMMA ScheduleAhead ==
  ASSUME QueueInv, RingInv', Schedule, NEW n \in DOMAIN Layout, FirstFence(n),
         NEW d, d = JobSize - n + 1
  PROVE  Ahead(0, d)' /\ (Ahead(0, d) => Ahead(1, JobSize + d)')
<1>1. TypeOK /\ TypeOK' /\ WptrAligned /\ RingInv
  BY DEF QueueInv, RingInv
<1>2. PICK words : words = JobWords(sync_seq + 1)
  OBVIOUS
<1>3. words \in Seq(Word) /\ Len(words) = Len(Layout)
  <2>1. sync_seq + 1 \in Nat
    BY <1>1 DEF TypeOK
  <2>2. words \in Seq(Word)
    BY <1>1, <1>2, <2>1, JobNames
  <2>3. Len(words) = Len(Layout)
    BY <1>2, RingAssumption DEF JobWords, RingAssumption
  <2>. QED
    BY <2>2, <2>3
<1>4. PICK p \in Nat : p = JobSize
  BY JobSizes
<1>5. n \in Nat /\ 1 <= n /\ n <= Len(Layout) /\ Len(Layout) <= p /\ Len(Layout) \in Nat
  BY <1>4, JobSizes, RingAssumption DEF RingAssumption
<1>6. Commit(words) /\ rptr' = rptr /\ sync_seq' = sync_seq + 1 /\ cell' = cell
      /\ last_seq' = last_seq
  BY <1>2 DEF Schedule, gpu
<1>7. p = AlignUp(Len(words))
  BY <1>3, <1>4 DEF JobSize
<1>8. PICK b \in Nat : b = Backlog /\ b + p < Size
  <2>1. /\ Backlog \in Nat /\ Lag \in Nat /\ AlignUp(Need) \in Nat /\ Need \in Nat
        /\ Backlog + Lag + AlignUp(Need) < Size
    BY RoomToWrite DEF Schedule
  <2>2. Need = Request /\ Len(Layout) <= Request
    BY RingAssumption DEF Schedule, Need, RingAssumption
  <2>3. p <= AlignUp(Need)
    BY <1>3, <1>5, <1>7, <2>1, <2>2, RoundingGrows
  <2>. QED
    BY <1>4, <2>1, <2>3, RingAssumption DEF RingAssumption
<1>9. Backlog' = b + p /\ \A i \in 1 .. b : Unread'[i] = Unread[i]
  <2>1. p < Size
    BY <1>8, RingAssumption DEF RingAssumption
  <2>2. Appended(p)
    BY <1>1, <1>3, <1>6, <1>7, <2>1, CommitAppends
  <2>. QED
    BY <1>1, <1>8, <2>2, Appends
<1>10. ASSUME NEW k \in 1 .. n - 1 PROVE Unread'[b + k][1] # "fence"
  <2>1. k \in 1 .. AlignUp(Len(words)) /\ k <= Len(words)
    BY <1>3, <1>5, <1>7
  <2>2. Backlog + AlignUp(Len(words)) < Size
    BY <1>7, <1>8
  <2>3. Unread'[b + k] = words[k]
    BY <1>1, <1>3, <1>6, <1>8, <2>1, <2>2, CommittedWords
  <2>4. words[k][1] = Layout[k]
    BY <1>2, <1>3, <2>1, RingAssumption DEF JobWords, RingAssumption
  <2>. QED
    BY <2>3, <2>4 DEF FirstFence
<1>11. /\ cell \in Nat /\ last_seq \in Nat /\ sync_seq \in Nat
       /\ cell <= sync_seq /\ last_seq <= sync_seq
       /\ \A i \in 1 .. b : /\ Unread[i][2] \in Nat
                            /\ Unread[i][1] = "fence" => Unread[i][2] <= sync_seq
  BY <1>1, <1>8, UnreadTypes
<1>12. d \in Nat /\ d = p - n + 1
  BY <1>4, <1>5
<1>13. Ahead(0, d)'
  <2>1. cell' + 0 < sync_seq' /\ last_seq' + 0 < sync_seq'
    BY <1>6, <1>11
  <2>2. ASSUME NEW i \in 1 .. (b + p - d), Unread'[i][1] = "fence"
        PROVE  Unread'[i][2] + 0 < sync_seq'
    <3>1. CASE i <= b
      BY <1>6, <1>9, <1>11, <2>2, <3>1
    <3>2. CASE i > b
      <4>1. i - b \in 1 .. n - 1 /\ b + (i - b) = i
        BY <1>5, <1>12, <3>2
      <4>. QED
        BY <1>10, <2>2, <4>1
    <3>. QED
      BY <3>1, <3>2
  <2>3. /\ Backlog' >= d => cell' + 0 < sync_seq' /\ last_seq' + 0 < sync_seq'
        /\ \A i \in 1 .. (Backlog' - d) :
             Unread'[i][1] = "fence" => Unread'[i][2] + 0 < sync_seq'
    BY <1>9, <2>1, <2>2
  <2>. QED
    BY <2>3 DEF Ahead
<1>14. ASSUME Ahead(0, d) PROVE Ahead(1, JobSize + d)'
  <2>1. PICK e \in Nat : e = p + d
    BY <1>12
  <2>2. /\ b >= d => cell < sync_seq /\ last_seq < sync_seq
        /\ \A i \in 1 .. (b - d) : Unread[i][1] = "fence" => Unread[i][2] < sync_seq
    <3>1. b >= d => cell + 0 < sync_seq /\ last_seq + 0 < sync_seq
      BY <1>8, <1>14 DEF Ahead
    <3>2. \A i \in 1 .. (b - d) : Unread[i][1] = "fence" => Unread[i][2] + 0 < sync_seq
      BY <1>8, <1>14 DEF Ahead
    <3>3. \A i \in 1 .. (b - d) : i \in 1 .. b
      BY <1>12
    <3>. QED
      BY <1>11, <3>1, <3>2, <3>3
  <2>3. b + p >= e => cell' + 1 < sync_seq' /\ last_seq' + 1 < sync_seq'
    BY <1>6, <1>11, <1>12, <2>1, <2>2
  <2>4. ASSUME NEW i \in 1 .. (b + p - e), Unread'[i][1] = "fence"
        PROVE  Unread'[i][2] + 1 < sync_seq'
    <3>1. i \in 1 .. (b - d) /\ i \in 1 .. b
      BY <1>12, <2>1
    <3>. QED
      BY <1>6, <1>9, <1>11, <2>2, <2>4, <3>1
  <2>5. Ahead(1, e)'
    BY <1>9, <2>3, <2>4 DEF Ahead
  <2>6. (JobSize + d)' = e
    BY <1>4, <2>1 DEF JobSize, AlignUp
  <2>. QED
    BY <1>9, <2>3, <2>4, <2>6 DEF Ahead
<1>. QED
  BY <1>13, <1>14

\* A signalled test has been read to its fence: nothing of before is left to signal.
LEMMA TestedAhead ==
  ASSUME RingInv, NEW d \in Nat, NEW e \in Nat, FencesAhead(d, e), TestDone, d <= e
  PROVE  Ahead(0, d)' /\ Ahead(1, e)'
<1>1. /\ Backlog \in Nat /\ cell \in Nat /\ last_seq \in Nat /\ sync_seq \in Nat
  BY UnreadTypes
<1>2. target = sync_seq /\ Ahead(0, d) /\ Polled >= target
  BY DEF FencesAhead, TestDone
<1>3. ~(cell < sync_seq /\ last_seq < sync_seq)
  BY <1>1, <1>2 DEF Polled
<1>4. Backlog < d
  BY <1>1, <1>2, <1>3 DEF Ahead
<1>5. Backlog' = Backlog
  BY DEF TestDone, gpu, Backlog, At
<1>. QED
  BY <1>1, <1>4, <1>5 DEF Ahead

\* A step that neither reads nor writes nor gives a ring to clients.
LEMMA StaysAhead ==
  ASSUME RingInv, NEW d \in Nat, NEW e \in Nat, FencesAhead(d, e),
         UNCHANGED <<Unread, Backlog, cell, sync_seq, phase, ready>>,
         last_seq' \in {last_seq, Polled},
         pc' = "test" => pc = "test" /\ target' = target
  PROVE  FencesAhead(d, e)'
<1>1. \A k \in Nat, f \in Nat : Ahead(k, f) => Ahead(k, f)'
  BY QuietAhead
<1>2. /\ phase = "run" /\ ready => Ahead(0, d)' /\ Ahead(1, e)'
      /\ pc = "test" => target = sync_seq /\ Ahead(0, d)'
  BY <1>1 DEF FencesAhead
<1>3. phase \in {"reset", "asic", "off"} => ~ready
  BY DEF FencesAhead
<1>. QED
  BY <1>2, <1>3 DEF FencesAhead

\* A step after which clients do not use the ring, nor a test.
LEMMA Elsewhere ==
  ASSUME NEW d, NEW e, pc' # "test", phase' = "run" => ~ready',
         phase' \in {"reset", "asic", "off"} => ~ready'
  PROVE  FencesAhead(d, e)'
BY DEF FencesAhead

\* Every step keeps the fences ahead.
LEMMA AheadSteps ==
  ASSUME QueueInv, RingInv', NEW n \in DOMAIN Layout, FirstFence(n),
         NEW d, d = JobSize - n + 1, NEW e, e = JobSize + d, FencesAhead(d, e), Next
  PROVE  FencesAhead(d, e)'
<1>1. RingInv /\ TypeOK /\ HolderAllowed
  BY DEF QueueInv, RingInv
<1>2. d \in Nat \ {0} /\ e \in Nat \ {0} /\ d <= e
  BY JobSizes
<1>3. ASSUME UNCHANGED <<ring, wptr, rptr>> PROVE UNCHANGED <<Unread, Backlog>>
  BY <1>3 DEF Unread, Backlog, At
<1>4. CASE Fetch
  <2>1. \A k \in Nat, f \in Nat \ {0} : Ahead(k, f) => Ahead(k, f)'
    BY <1>1, <1>4, FetchAhead
  <2>2. UNCHANGED <<phase, ready, pc, target, sync_seq>>
    BY <1>4 DEF Fetch, holder
  <2>3. /\ phase = "run" /\ ready => Ahead(0, d)' /\ Ahead(1, e)'
        /\ pc = "test" => target = sync_seq /\ Ahead(0, d)'
        /\ phase \in {"reset", "asic", "off"} => ~ready
    BY <1>2, <2>1 DEF FencesAhead
  <2>. QED
    BY <2>2, <2>3 DEF FencesAhead
<1>5. CASE Hang \/ Process \/ CheckLockup \/ AskReset
  <2>1. /\ UNCHANGED <<ring, wptr, rptr, cell, sync_seq, phase, ready, pc, target>>
        /\ last_seq' \in {last_seq, Polled}
    BY <1>5 DEF Hang, Process, Poll, CheckLockup, AskReset, gpu, fences, holder
  <2>. QED
    BY <1>1, <1>2, <1>3, <2>1, StaysAhead
<1>6. CASE ClientLock \/ RestoreLock \/ TestLock \/ Allocated \/ WaitNext \/ WaitDone
  <2>1. /\ UNCHANGED <<ring, wptr, rptr, cell, sync_seq, phase, ready>> /\ pc' # "test"
        /\ last_seq' \in {last_seq, Polled}
    BY <1>6 DEF ClientLock, RestoreLock, TestLock, Lock, Allocated, WaitNext, WaitDone, Poll,
                gpu, fences
  <2>. QED
    BY <1>1, <1>2, <1>3, <2>1, StaysAhead
<1>7. CASE NothingToWaitFor \/ WaitDeadlock
  <2>1. Refused /\ UNCHANGED <<ring, wptr, rptr, sync_seq, last_seq>>
    BY <1>7 DEF NothingToWaitFor, WaitDeadlock, gpu
  <2>2. CASE who = "client"
    <3>1. UNCHANGED <<cell, phase, ready>> /\ pc' # "test"
      BY <2>1, <2>2 DEF Refused
    <3>. QED
      BY <1>1, <1>2, <1>3, <2>1, <3>1, StaysAhead
  <2>3. CASE who # "client"
    <3>1. pc' # "test" /\ phase' \in {"dead", "run", "test"} /\ (phase' = "run" => ~ready')
      BY <1>1, <2>1, <2>3 DEF Refused, RestoreFailed, TestFailed, Dead, TypeOK
    <3>. QED
      BY <3>1, Elsewhere
  <2>. QED
    BY <2>2, <2>3
<1>8. CASE Schedule
  <2>1. Ahead(0, d)' /\ (Ahead(0, d) => Ahead(1, e)')
    <3>1. Ahead(0, d)' /\ (Ahead(0, d) => Ahead(1, JobSize + d)')
      BY <1>8, ScheduleAhead
    <3>2. (JobSize + d)' = JobSize + d
      BY DEF JobSize, AlignUp
    <3>. QED
      BY <3>1, <3>2 DEF Ahead
  <2>2. /\ UNCHANGED <<phase, ready>>
        /\ pc' = "test" => target' = sync_seq'
    BY <1>8 DEF Schedule
  <2>. QED
    BY <2>1, <2>2 DEF FencesAhead
<1>9. CASE Undo
  <2>1. Unread' = Unread /\ Backlog' = Backlog
    BY <1>9, UndoKeeps DEF Backlog, At
  <2>2. UNCHANGED <<cell, sync_seq, last_seq, phase, ready>> /\ pc' # "test"
    BY <1>9 DEF Undo, fences
  <2>. QED
    BY <1>1, <1>2, <2>1, <2>2, StaysAhead
<1>10. CASE BeginReset \/ (\E copied \in BOOLEAN : Backup(copied)) \/ RestoreNothing
  <2>1. /\ pc = "idle" /\ pc' = pc /\ phase' \in {"reset", "asic", "test"}
        /\ phase' # "test" => ~ready'
    BY <1>1, <1>10 DEF BeginReset, Backup, RestoreNothing, holder, HolderAllowed, FencesAhead
  <2>. QED
    BY <2>1, Elsewhere
<1>11. CASE ResetFails \/ RestartFails
  <2>1. pc' = "idle" /\ phase' \in {"dead", "run", "restore", "resume"} /\ ~ready'
    BY <1>1, <1>11 DEF ResetFails, RestartFails, Dead, HolderAllowed, FencesAhead
  <2>. QED
    BY <2>1, Elsewhere
<1>12. CASE Restart \/ Restore
  <2>1. pc' = "idle" /\ phase' \in {"restore", "resume", "test"}
    BY <1>1, <1>12 DEF Restart, Restore, holder, HolderAllowed
  <2>. QED
    BY <2>1, Elsewhere
<1>13. CASE SkipTest \/ TestFails
  <2>1. pc' = "idle" /\ phase' \in {"dead", "run"} /\ ~ready'
    BY <1>13 DEF SkipTest, TestFails, TestPassed, TestFailed, Dead
  <2>. QED
    BY <2>1, Elsewhere
<1>14. CASE TestDone
  <2>1. Ahead(0, d)' /\ Ahead(1, e)'
    BY <1>1, <1>2, <1>14, TestedAhead
  <2>2. pc' = "idle" /\ phase' = "run"
    BY <1>14 DEF TestDone, TestPassed
  <2>. QED
    BY <2>1, <2>2 DEF FencesAhead
<1>15. CASE Suspend \/ Drain
  <2>1. /\ pc' \in {"drain", "idle"} /\ phase' \in {"suspend", "off", "dead"}
        /\ phase' = "off" => ~ready'
    BY <1>15 DEF Suspend, Drain, DrainDone, DrainDeadlock, Dead
  <2>. QED
    BY <2>1, Elsewhere
<1>. QED
  BY <1>4, <1>5, <1>6, <1>7, <1>8, <1>9, <1>10, <1>11, <1>12, <1>13, <1>14, <1>15
  DEF Next, Wait, Test

\* The last two fences of a ring, whichever word of the jobs is before or is their first
\* fence.
JobsAhead ==
  \A n \in DOMAIN Layout :
    FirstFence(n) => FencesAhead(JobSize - n + 1, JobSize + (JobSize - n + 1))

\* The invariant behind waiting for space.
LEMMA AheadInvariance == Spec => []JobsAhead
<1>1. Init => JobsAhead
  <2>. SUFFICES ASSUME Init, NEW n \in DOMAIN Layout, FirstFence(n)
                PROVE  FencesAhead(JobSize - n + 1, JobSize + (JobSize - n + 1))
    BY DEF JobsAhead
  <2>1. Backlog = 0
    <3>1. TypeOK /\ wptr = rptr
      BY InitQueue DEF QueueInv, RingInv, Init
    <3>. QED
      BY <3>1, Distances DEF TypeOK
  <2>2. JobSize - n + 1 \in Nat \ {0} /\ JobSize + (JobSize - n + 1) \in Nat \ {0}
    BY JobSizes
  <2>. QED
    BY <2>1, <2>2 DEF Init, FencesAhead, Ahead
<1>2. QueueInv /\ RingInv' /\ JobsAhead /\ [Next]_vars => JobsAhead'
  <2>. SUFFICES ASSUME QueueInv, RingInv', JobsAhead, [Next]_vars,
                       NEW n \in DOMAIN Layout, FirstFence(n)
                PROVE  FencesAhead(JobSize - n + 1, JobSize + (JobSize - n + 1))'
    BY DEF JobsAhead, FirstFence
  <2>1. PICK d : d = JobSize - n + 1
    OBVIOUS
  <2>2. PICK e : e = JobSize + d
    OBVIOUS
  <2>3. FencesAhead(d, e)
    BY <2>1, <2>2 DEF JobsAhead
  <2>4. FencesAhead(d, e)'
    <3>1. CASE Next
      BY <2>1, <2>2, <2>3, <3>1, AheadSteps
    <3>2. CASE UNCHANGED vars
      BY <2>3, <3>2 DEF vars, gpu, fences, holder, FencesAhead, Ahead, Unread, Backlog, At
    <3>. QED
      BY <3>1, <3>2
  <2>5. (JobSize - n + 1)' = d /\ (JobSize + (JobSize - n + 1))' = e
    BY <2>1, <2>2 DEF JobSize, AlignUp
  <2>. QED
    BY <2>4, <2>5 DEF FencesAhead, Ahead
<1>. QED
  BY <1>1, <1>2, RingInvariance, QueueInvariance, PTL DEF Spec

\* A job that finds no room finds two fences before it: between its request and the lag
\* of the copy, two jobs of the ring have not been read.
LEMMA FullRing ==
  ASSUME QueueInv, NEW n \in DOMAIN Layout, RoomForTwoJobs(n),
         FencesAhead(JobSize - n + 1, JobSize + (JobSize - n + 1))
  PROVE  FullRingHasFences
<1>1. SUFFICES ASSUME pc = "full", who = "client", ~Fits(Need) PROVE last_seq + 1 < sync_seq
  BY DEF FullRingHasFences
<1>2. phase = "run" /\ ready /\ TypeOK /\ RingInv /\ Backlog + Lag < Size
  BY <1>1 DEF QueueInv, RingInv, HolderAllowed, RoomIsKept
<1>3. PICK e : e = JobSize + (JobSize - n + 1)
  OBVIOUS
<1>4. Ahead(1, e)
  BY <1>2, <1>3 DEF FencesAhead
<1>5. PICK a \in Nat : a = AlignUp(Request)
  BY RoundedUp, RingAssumption DEF RingAssumption
<1>6. PICK b \in Nat : b = Backlog
  BY <1>2, UnreadTypes
<1>7. Lag \in 0 .. (Block - 1) /\ Size \in Nat /\ Block \in Nat
  BY <1>2, Distances, RingAssumption DEF RingAssumption
<1>8. ~(a < Size - b - Lag)
  BY <1>1, <1>2, <1>5, <1>6, FreeSpace DEF Fits, Need
<1>9. a + Block + 2 * JobSize <= Size + n /\ JobSize \in Nat /\ n \in Nat
  BY <1>5, JobSizes DEF RoomForTwoJobs
<1>10. b >= e
  BY <1>3, <1>7, <1>8, <1>9
<1>11. last_seq \in Nat /\ sync_seq \in Nat
  BY <1>2, UnreadTypes
<1>. QED
  BY <1>4, <1>6, <1>10, <1>11 DEF Ahead

\* radeon_fence_wait_next refuses to wait with one fence outstanding: a job that finds no
\* room always finds two, whatever has hung, been reset, replayed, suspended or undone
\* before, in every ring with room for two jobs beside the request and the lag.
THEOREM FullRingHolds ==
  ASSUME NEW n \in DOMAIN Layout, FirstFence(n), RoomForTwoJobs(n)
  PROVE  Spec => []FullRingHasFences
<1>1. QueueInv /\ JobsAhead => FullRingHasFences
  BY FullRing DEF JobsAhead
<1>. QED
  BY <1>1, QueueInvariance, AheadInvariance, PTL

-----------------------------------------------------------------------------
(* What the flags of a reset, of a suspend and of a test say of the ring *)

\* All fences are signalled, or seen to be.
Done == cell = sync_seq \/ last_seq = sync_seq

\* Whatever fence is still read, it is the last one.
LastOnly == \A i \in 1 .. Backlog : Unread[i][1] = "fence" => Unread[i][2] = sync_seq

\* The copy of the last reset has been replayed on a board that goes on without its ring.
Replayed == ~rs4xx /\ saved

\* What the flags say of the ring: one that is not ready in a device that runs has nothing
\* left to copy, unless it is lost after a replay. The ring of a test is empty before it,
\* or replayed.
SpentInv ==
  /\ phase = "run" /\ ~ready => Replayed \/ (Done /\ (hung \/ LastOnly))
  /\ phase = "off" => Done
  /\ pc = "drain" => target = sync_seq
  /\ phase = "restore" => IF ready THEN Backlog = 0 ELSE hung /\ ~rs4xx
  /\ phase \in {"asic", "restore"} => saved \/ data = <<>>
  /\ phase = "restore" /\ pc # "idle" => saved
  /\ phase \in {"test", "resume"} =>
       IF ready
       THEN \/ phase = "test" /\ saved
            \/ IF pc = "test" THEN LastOnly ELSE Backlog = 0
       ELSE /\ pc = "idle" /\ hung
            /\ (phase = "test" /\ Replayed) \/ Done
  /\ phase \in {"reset", "asic", "off"} => ~ready

\* Reading the fence that is the last leaves all fences signalled.
LEMMA FetchLast ==
  ASSUME RingInv, RingInv', Fetch, LastOnly
  PROVE  LastOnly' /\ (Done => Done')
<1>1. TypeOK /\ TypeOK'
  BY DEF RingInv
<1>2. /\ Backlog > 0 /\ Backlog' = Backlog - 1
      /\ \A i \in 1 .. Backlog - 1 : Unread'[i] = Unread[i + 1]
  BY <1>1, FetchTakes
<1>3. PICK b \in Nat : b = Backlog
  BY UnreadTypes
<1>4. sync_seq' = sync_seq /\ last_seq' = last_seq
  BY DEF Fetch
<1>5. LastOnly'
  <2>1. ASSUME NEW i \in 1 .. b - 1, Unread'[i][1] = "fence" PROVE Unread'[i][2] = sync_seq'
    <3>1. i + 1 \in 1 .. b /\ Unread'[i] = Unread[i + 1]
      BY <1>2, <1>3
    <3>. QED
      BY <1>3, <1>4, <2>1, <3>1 DEF LastOnly
  <2>2. Backlog' = b - 1
    BY <1>2, <1>3
  <2>. QED
    BY <2>1, <2>2 DEF LastOnly
<1>6. cell' = IF Unread[1][1] = "fence" THEN Unread[1][2] ELSE cell
  <2>1. Unread[1] = ring[At(rptr + 1 - 1)]
    BY <1>1, <1>2, <1>3, UnreadWords
  <2>2. rptr + 1 - 1 = rptr /\ rptr \in 0 .. (Size - 1)
    BY <1>1 DEF TypeOK
  <2>3. At(rptr) = rptr
    BY <2>2, RingAssumption DEF At, RingAssumption
  <2>. QED
    BY <2>1, <2>2, <2>3 DEF Fetch
<1>7. 1 \in 1 .. Backlog
  BY <1>2, <1>3
<1>8. Done => Done'
  BY <1>4, <1>6, <1>7 DEF Done, LastOnly
<1>. QED
  BY <1>5, <1>8

\* A job after which nothing else is read ends with the last fence.
LEMMA ScheduleLast ==
  ASSUME QueueInv, RingInv', Schedule, Backlog = 0
  PROVE  LastOnly'
<1>1. TypeOK /\ TypeOK' /\ WptrAligned
  BY DEF QueueInv, RingInv
<1>2. PICK words : words = JobWords(sync_seq + 1)
  OBVIOUS
<1>3. /\ words \in Seq(Word) /\ Len(words) = Len(Layout)
      /\ \A i \in 1 .. Len(Layout) : words[i][2] = sync_seq + 1
  <2>1. sync_seq + 1 \in Nat
    BY <1>1 DEF TypeOK
  <2>2. words \in Seq(Word)
    BY <1>1, <1>2, <2>1, JobNames
  <2>3. /\ Len(words) = Len(Layout)
        /\ \A i \in 1 .. Len(Layout) : words[i][2] = sync_seq + 1
    BY <1>2, RingAssumption DEF JobWords, RingAssumption
  <2>. QED
    BY <2>2, <2>3
<1>4. Commit(words) /\ rptr' = rptr /\ sync_seq' = sync_seq + 1
  BY <1>2 DEF Schedule, gpu
<1>5. PICK n \in Nat : n = AlignUp(Len(words)) /\ n < Size
  <2>1. /\ Backlog + Lag + AlignUp(Need) < Size /\ AlignUp(Need) \in Nat /\ Need \in Nat
        /\ Lag \in Nat
    BY RoomToWrite DEF Schedule
  <2>2. Need = Request /\ Len(Layout) <= Request /\ Len(Layout) \in Nat
    BY RingAssumption DEF Schedule, Need, RingAssumption
  <2>3. AlignUp(Len(words)) <= AlignUp(Need)
    BY <1>3, <2>1, <2>2, RoundingGrows
  <2>4. AlignUp(Len(words)) \in Nat
    BY <1>3, <2>2, RoundedUp
  <2>. QED
    BY <2>1, <2>3, <2>4, RingAssumption DEF RingAssumption
<1>6. Backlog' = n
  <2>1. Appended(n)
    BY <1>1, <1>3, <1>4, <1>5, CommitAppends
  <2>2. Backlog' = Backlog + n
    BY <1>1, <1>5, <2>1, Appends
  <2>. QED
    BY <1>5, <2>2
<1>7. ASSUME NEW i \in 1 .. n, Unread'[i][1] = "fence" PROVE Unread'[i][2] = sync_seq'
  <2>1. Backlog + AlignUp(Len(words)) < Size /\ i \in 1 .. AlignUp(Len(words))
    BY <1>5
  <2>2. Unread'[Backlog + i] = IF i <= Len(words) THEN words[i] ELSE Nop
    BY <1>1, <1>3, <1>4, <2>1, CommittedWords
  <2>3. Unread'[i] = IF i <= Len(words) THEN words[i] ELSE Nop
    BY <2>2
  <2>4. i <= Len(Layout)
    BY <1>3, <1>7, <2>3 DEF Nop
  <2>. QED
    BY <1>3, <1>4, <2>3, <2>4
<1>. QED
  BY <1>6, <1>7 DEF LastOnly

\* Signalled fences stay signalled while nothing is read or emitted.
LEMMA StaysDone ==
  ASSUME RingInv, Done, UNCHANGED <<cell, sync_seq>>, last_seq' \in {last_seq, Polled}
  PROVE  Done'
<1>1. cell \in Nat /\ last_seq \in Nat /\ sync_seq \in Nat /\ cell <= sync_seq
  BY UnreadTypes
<1>. QED
  BY <1>1 DEF Done, Polled

\* A step that leaves ring, phase and flags alone.
LEMMA StaysSpent ==
  ASSUME RingInv, SpentInv,
         UNCHANGED <<Unread, Backlog, cell, sync_seq, phase, rs4xx, data, saved, ready>>,
         last_seq' \in {last_seq, Polled}, hung => hung',
         pc' = "drain" => pc = "drain" /\ target' = target,
         pc' = "test" <=> pc = "test",
         pc' # "idle" => pc # "idle" \/ (phase = "restore" /\ data # <<>>)
                           \/ (phase \in {"test", "resume"} /\ ready) \/ phase = "run"
  PROVE  SpentInv'
<1>1. Done => Done'
  BY StaysDone
<1>2. (LastOnly => LastOnly') /\ (Replayed => Replayed')
  BY DEF LastOnly, Replayed
<1>. QED
  BY <1>1, <1>2 DEF SpentInv

\* The IB test of a reset or of a resume fails.
LEMMA TestFailedSpent ==
  ASSUME SpentInv, TestFailed, phase \in {"test", "resume"}, ready,
         UNCHANGED <<Unread, Backlog, sync_seq, rs4xx, saved>>
  PROVE  SpentInv'
<1>1. CASE rs4xx
  <2>1. phase' = "dead" /\ pc' = "idle"
    BY <1>1 DEF TestFailed, Dead
  <2>. QED
    BY <2>1 DEF SpentInv
<1>2. CASE ~rs4xx
  <2>1. phase' = "run" /\ pc' = "idle" /\ ~ready' /\ Done'
    BY <1>2 DEF TestFailed, ForceCompletion, Done
  <2>2. saved \/ LastOnly
    BY DEF SpentInv, LastOnly
  <2>3. Replayed' \/ LastOnly'
    BY <1>2, <2>2 DEF Replayed, LastOnly
  <2>. QED
    BY <2>1, <2>3 DEF SpentInv
<1>. QED
  BY <1>1, <1>2

\* Steps of the command processor.
LEMMA FetchSpent ==
  ASSUME RingInv, RingInv', SpentInv, Fetch
  PROVE  SpentInv'
<1>1. Backlog > 0 /\ ~hung
  BY FetchTakes DEF RingInv, Fetch, Running
<1>2. phase \in {"run", "restore", "test", "suspend", "resume"} /\ Backlog # 0
  <2>1. Backlog \in Nat
    BY UnreadTypes
  <2>. QED
    BY <1>1, <2>1 DEF Fetch, Running
<1>3. UNCHANGED <<phase, ready, hung, rs4xx, saved, data, sync_seq, pc, target>>
  BY DEF Fetch, holder
<1>4. LastOnly => LastOnly' /\ (Done => Done')
  BY FetchLast
<1>5. Replayed => Replayed'
  BY <1>3 DEF Replayed
<1>. QED
  BY <1>1, <1>2, <1>3, <1>4, <1>5 DEF SpentInv

\* Every step keeps what the flags say.
LEMMA SpentSteps ==
  ASSUME QueueInv, RingInv', SpentInv, Next
  PROVE  SpentInv'
<1>1. RingInv /\ TypeOK /\ HolderAllowed
  BY DEF QueueInv, RingInv
<1>2. ASSUME UNCHANGED <<ring, wptr, rptr>> PROVE UNCHANGED <<Unread, Backlog>>
  BY <1>2 DEF Unread, Backlog, At
<1>3. CASE Fetch
  BY <1>1, <1>3, FetchSpent
<1>4. CASE Hang \/ Process \/ CheckLockup \/ AskReset
  <2>1. /\ UNCHANGED <<ring, wptr, rptr, cell, sync_seq, phase, rs4xx, data, saved, ready>>
        /\ UNCHANGED <<pc, target>> /\ last_seq' \in {last_seq, Polled} /\ (hung => hung')
    BY <1>4 DEF Hang, Process, Poll, CheckLockup, AskReset, gpu, fences, holder
  <2>. QED
    BY <1>1, <1>2, <2>1, StaysSpent
<1>5. CASE ClientLock \/ RestoreLock \/ TestLock
  <2>1. /\ UNCHANGED <<ring, wptr, rptr, cell, sync_seq, phase, rs4xx, data, saved, ready>>
        /\ last_seq' = last_seq /\ hung' = hung /\ pc = "idle" /\ pc' = "full"
        /\ \/ phase = "restore" /\ data # <<>>
           \/ phase \in {"test", "resume"} /\ ready
           \/ phase = "run"
    BY <1>5 DEF ClientLock, RestoreLock, TestLock, Lock, gpu, fences
  <2>. QED
    BY <1>1, <1>2, <2>1, StaysSpent
<1>6. CASE Allocated \/ WaitNext \/ WaitDone
  <2>1. /\ UNCHANGED <<ring, wptr, rptr, cell, sync_seq, phase, rs4xx, data, saved, ready>>
        /\ last_seq' \in {last_seq, Polled} /\ hung' = hung
        /\ pc \in {"full", "wait"} /\ pc' \in {"full", "wait", "write"}
    BY <1>6 DEF Allocated, WaitNext, WaitDone, Poll, gpu, fences
  <2>. QED
    BY <1>1, <1>2, <2>1, StaysSpent
<1>7. CASE NothingToWaitFor \/ WaitDeadlock
  <2>1. /\ Refused /\ UNCHANGED <<ring, wptr, rptr, hung, sync_seq, last_seq, rs4xx, saved>>
        /\ pc \in {"full", "wait"}
    BY <1>7 DEF NothingToWaitFor, WaitDeadlock, gpu
  <2>2. CASE who = "client"
    <3>1. UNCHANGED <<cell, phase, ready, data>> /\ pc' = "idle"
      BY <2>1, <2>2 DEF Refused
    <3>. QED
      BY <1>1, <1>2, <2>1, <3>1, StaysSpent
  <2>3. CASE who = "restore"
    <3>1. RestoreFailed /\ phase = "restore" /\ saved
      BY <1>1, <2>1, <2>3 DEF Refused, HolderAllowed, SpentInv
    <3>2. CASE rs4xx
      <4>1. phase' = "dead" /\ pc' = "idle"
        BY <3>1, <3>2 DEF RestoreFailed, Dead
      <4>. QED
        BY <4>1 DEF SpentInv
    <3>3. CASE ~rs4xx
      <4>1. phase' = "test" /\ pc' = "idle" /\ ready' = ready /\ hung' = hung /\ saved' = saved
            /\ rs4xx' = rs4xx
        BY <2>1, <3>1, <3>3 DEF RestoreFailed
      <4>. QED
        BY <3>1, <3>3, <4>1 DEF SpentInv, Replayed
    <3>. QED
      BY <3>2, <3>3
  <2>4. CASE who = "test"
    <3>1. TestFailed /\ phase \in {"test", "resume"} /\ ready
      BY <1>1, <2>1, <2>4 DEF Refused, HolderAllowed, SpentInv
    <3>. QED
      BY <1>2, <2>1, <3>1, TestFailedSpent
  <2>. QED
    BY <1>1, <2>2, <2>3, <2>4 DEF TypeOK
<1>8. CASE Schedule
  <2>1. /\ UNCHANGED <<phase, ready, hung, rs4xx, saved, data>> /\ pc = "write"
        /\ IF who = "test" THEN pc' = "test" ELSE pc' = "idle"
    BY <1>8 DEF Schedule, gpu
  <2>2. CASE who = "test"
    <3>1. phase \in {"test", "resume"} /\ ready
      BY <1>1, <2>1, <2>2 DEF HolderAllowed, SpentInv
    <3>2. (phase = "test" /\ saved) \/ LastOnly'
      BY <1>8, <2>1, <3>1, ScheduleLast DEF SpentInv
    <3>. QED
      BY <2>1, <2>2, <3>1, <3>2 DEF SpentInv
  <2>3. CASE who # "test"
    <3>1. phase = "run" /\ ready
      BY <1>1, <1>8, <2>1, <2>3 DEF HolderAllowed, Schedule
    <3>. QED
      BY <2>1, <2>3, <3>1 DEF SpentInv
  <2>. QED
    BY <2>2, <2>3
<1>9. CASE Undo
  <2>1. phase' = "run" /\ ready' /\ pc' = "idle"
    BY <1>1, <1>9 DEF HolderAllowed, Undo
  <2>. QED
    BY <2>1 DEF SpentInv
<1>10. CASE BeginReset \/ (\E copied \in BOOLEAN : Backup(copied))
  <2>1. /\ pc = "idle" /\ pc' = pc /\ phase' \in {"reset", "asic"} /\ ~ready'
        /\ phase' = "asic" => saved' \/ data' = <<>>
    BY <1>1, <1>10 DEF BeginReset, Backup, holder, HolderAllowed, SpentInv
  <2>. QED
    BY <2>1 DEF SpentInv
<1>11. CASE RestoreNothing
  <2>1. /\ UNCHANGED <<ring, wptr, rptr, ready, hung>> /\ pc' = "idle" /\ phase' = "test"
        /\ phase = "restore" /\ Done'
    BY <1>11 DEF RestoreNothing, ForceCompletion, Done, gpu, holder
  <2>. QED
    BY <1>2, <2>1 DEF SpentInv
<1>12. CASE ResetFails
  <2>1. CASE rs4xx
    <3>1. phase' = "dead" /\ pc' = "idle"
      BY <1>12, <2>1 DEF ResetFails, Dead
    <3>. QED
      BY <3>1 DEF SpentInv
  <2>2. CASE ~rs4xx
    <3>1. phase' = "run" /\ pc' = "idle" /\ hung' /\ Done'
      BY <1>1, <1>12, <2>2 DEF ResetFails, ForceCompletion, Done, HolderAllowed
    <3>. QED
      BY <3>1 DEF SpentInv
  <2>. QED
    BY <2>1, <2>2
<1>13. CASE RestartFails
  <2>1. CASE rs4xx
    <3>1. phase' = "dead" /\ pc' = "idle"
      BY <1>13, <2>1 DEF RestartFails, Dead
    <3>. QED
      BY <3>1 DEF SpentInv
  <2>2. CASE ~rs4xx
    <3>1. /\ UNCHANGED <<pc, data, ready, saved, rs4xx, cell, last_seq, sync_seq>>
          /\ hung' /\ pc = "idle" /\ ~ready
          /\ \/ phase = "asic" /\ phase' = "restore"
             \/ phase = "off" /\ phase' = "resume"
      BY <1>1, <1>13, <2>2 DEF RestartFails, HolderAllowed, SpentInv, fences
    <3>2. Done => Done'
      BY <3>1 DEF Done
    <3>. QED
      BY <2>2, <3>1, <3>2 DEF SpentInv
  <2>. QED
    BY <2>1, <2>2
<1>14. CASE Restart
  <2>1. /\ pc' = "idle" /\ ready' /\ wptr' = Start /\ rptr' = Start
        /\ saved' = saved /\ data' = data
        /\ \/ phase = "asic" /\ phase' = "restore"
           \/ phase' = "resume"
    BY <1>1, <1>14 DEF Restart, HolderAllowed, holder
  <2>2. Backlog' = 0
    <3>1. Start - Start = 0
      BY StartInside, RingAssumption DEF RingAssumption
    <3>2. 0 % Size = 0
      BY RingAssumption DEF RingAssumption
    <3>. QED
      BY <2>1, <3>1, <3>2 DEF Backlog, At
  <2>. QED
    BY <2>1, <2>2 DEF SpentInv
<1>15. CASE Restore
  <2>1. /\ phase' = "test" /\ pc' = "idle" /\ UNCHANGED <<rs4xx, ready, saved, hung>>
        /\ phase = "restore" /\ saved
    BY <1>1, <1>15 DEF Restore, HolderAllowed, gpu, SpentInv
  <2>. QED
    BY <2>1 DEF SpentInv, Replayed
<1>16. CASE SkipTest
  <2>1. /\ phase \in {"test", "resume"} /\ ~ready /\ phase' = "run" /\ pc' = "idle"
        /\ UNCHANGED <<ready, rs4xx, saved, hung, cell, last_seq, sync_seq>>
    BY <1>16 DEF SkipTest, TestPassed, gpu, fences
  <2>2. (Done => Done') /\ (Replayed => Replayed')
    BY <2>1 DEF Done, Replayed
  <2>. QED
    BY <2>1, <2>2 DEF SpentInv
<1>17. CASE TestDone
  <2>1. phase' = "run" /\ pc' = "idle" /\ ready'
    BY <1>1, <1>17 DEF TestDone, TestPassed, HolderAllowed, SpentInv
  <2>. QED
    BY <2>1 DEF SpentInv
<1>18. CASE TestFails
  <2>1. /\ TestFailed /\ UNCHANGED <<ring, wptr, rptr, sync_seq, rs4xx, saved>>
        /\ phase \in {"test", "resume"} /\ ready
    BY <1>1, <1>18 DEF TestFails, gpu, HolderAllowed, SpentInv
  <2>. QED
    BY <1>2, <2>1, TestFailedSpent
<1>19. CASE Suspend
  <2>1. phase' = "suspend" /\ target' = sync_seq' /\ pc' = "drain"
    BY <1>19 DEF Suspend, fences
  <2>. QED
    BY <2>1 DEF SpentInv
<1>20. CASE DrainDone
  <2>1. target = sync_seq
    BY <1>20 DEF DrainDone, SpentInv
  <2>2. Done'
    <3>1. cell \in Nat /\ last_seq \in Nat /\ sync_seq \in Nat
          /\ cell <= sync_seq /\ last_seq <= sync_seq
      BY <1>1, UnreadTypes
    <3>. QED
      BY <1>20, <2>1, <3>1 DEF DrainDone, Poll, Polled, Done
  <2>3. phase' = "off" /\ pc' = "idle" /\ ~ready'
    BY <1>20 DEF DrainDone
  <2>. QED
    BY <2>2, <2>3 DEF SpentInv
<1>21. CASE DrainDeadlock
  <2>1. phase' \in {"off", "dead"} /\ pc' = "idle" /\ (phase' = "off" => Done' /\ ~ready')
    BY <1>21 DEF DrainDeadlock, Dead, ForceCompletion, Done
  <2>. QED
    BY <2>1 DEF SpentInv
<1>. QED
  BY <1>3, <1>4, <1>5, <1>6, <1>7, <1>8, <1>9, <1>10, <1>11, <1>12, <1>13, <1>14, <1>15, <1>16,
     <1>17, <1>18, <1>19, <1>20, <1>21
  DEF Next, Wait, Test, Drain

\* The invariant of the flags.
LEMMA SpentInvariance == Spec => []SpentInv
<1>1. Init => SpentInv
  BY DEF Init, SpentInv
<1>2. QueueInv /\ RingInv' /\ SpentInv /\ [Next]_vars => SpentInv'
  <2>. SUFFICES ASSUME QueueInv, RingInv', SpentInv, [Next]_vars PROVE SpentInv'
    OBVIOUS
  <2>1. CASE Next
    BY <2>1, SpentSteps
  <2>2. CASE UNCHANGED vars
    <3>1. UNCHANGED <<Backlog, Unread>>
      BY <2>2 DEF vars, gpu, Backlog, Unread, At
    <3>. QED
      BY <2>2, <3>1 DEF vars, gpu, fences, holder, SpentInv, Done, Replayed, LastOnly
  <2>. QED
    BY <2>1, <2>2
<1>. QED
  BY <1>1, <1>2, RingInvariance, QueueInvariance, PTL DEF Spec

-----------------------------------------------------------------------------
(* What a backup copies *)

\* How far behind the read pointer the last resume point may get: as far as the save of
\* the next job, or the first one after the start block.
Slack(s) == LET between == JobSize - Resume
                first == Start + s - 1
            IN IF between > first THEN between ELSE first

\* The s-th word of a job is its save. What it saves lies between the IB and the fence, in
\* the fetch it is written in, and a request exceeds a job by what the resume point lags.
Replayable(s) ==
  /\ s \in DOMAIN Layout /\ \A i \in DOMAIN Layout : Layout[i] = "save" <=> i = s
  /\ Resume >= 1 /\ s - 1 + Resume < Align
  /\ \A i \in DOMAIN Layout :
       /\ Layout[i] = "ib" => s < i /\ i < s + Resume
       /\ Layout[i] = "fence" => s + Resume <= i
       /\ Layout[i] # "stray"
  /\ JobSize + Slack(s) <= AlignUp(Request)

\* In what follows w[k] is the word k places before the write pointer p, u is the backlog
\* and c the number of words from the resume point on.

\* The resume point will move on before it gets too far behind.
SaveFollows(s, w, c, u) ==
  c + s - 1 <= Slack(s) \/ \E m \in 1 .. u : w[m][1] = "save" /\ c - m <= Slack(s)

\* A save among the last u words stores a place after it with no fence in between.
SavesLead(s, w, p, u) ==
  \A k \in 1 .. u : w[k][1] = "save" =>
    /\ w[k][3] = At(p - k) + Resume /\ w[k][3] < Size /\ Resume < k
    /\ \A m \in (k - Resume + 1) .. (k - 1) : w[m][1] \notin {"fence", "save"}
    /\ SaveFollows(s, w, k - Resume, k - 1)

\* An IB among the last u words is before the resume point or has its save before it.
IbsFollow(w, u, c) ==
  \A k \in 1 .. u : w[k][1] = "ib" =>
    c < k \/ \E m \in (k + 1) .. u : m < k + Resume /\ w[m][1] = "save"

\* No word among the last u is from outside the ring.
Clean(w, u) == \A k \in 1 .. u : w[k][1] # "stray"

\* The last u words as clients write them.
Regular(s, w, p, u, c) == SavesLead(s, w, p, u) /\ IbsFollow(w, u, c) /\ Clean(w, u)

\* The words that have been read from the resume point on can be read again, and those
\* before it that have not been read can be left out.
Tracked(s, w, p, u, c) ==
  /\ \A k \in (u + 1) .. c : w[k][1] \notin {"ib", "save", "stray"}
  /\ \A k \in (c + 1) .. u : w[k][1] \notin {"fence", "save"}
  /\ SaveFollows(s, w, c, u) /\ Regular(s, w, p, u, c)

\* A word is read that is no save.
LEMMA ReadOther ==
  ASSUME NEW s \in Nat, NEW w, NEW p, NEW u \in Nat \ {0}, NEW c \in Nat,
         Tracked(s, w, p, u, c), w[u][1] # "save"
  PROVE  Tracked(s, w, p, u - 1, c)
<1>1. SavesLead(s, w, p, u) /\ IbsFollow(w, u, c) /\ Clean(w, u)
  BY DEF Tracked, Regular
<1>2. ASSUME NEW k \in u .. c PROVE w[k][1] \notin {"ib", "save", "stray"}
  <2>1. CASE k = u
    <3>1. w[u][1] # "stray"
      BY <1>1 DEF Clean
    <3>2. w[u][1] # "ib"
      <4>1. ~(c < u) /\ ~(\E m \in (u + 1) .. u : m < u + Resume /\ w[m][1] = "save")
        BY <1>2, <2>1
      <4>. QED
        BY <1>1, <4>1 DEF IbsFollow
    <3>. QED
      BY <2>1, <3>1, <3>2
  <2>2. CASE k # u
    <3>1. k \in (u + 1) .. c
      BY <2>2
    <3>. QED
      BY <3>1 DEF Tracked
  <2>. QED
    BY <2>1, <2>2
<1>3. \A k \in (c + 1) .. (u - 1) : w[k][1] \notin {"fence", "save"}
  BY DEF Tracked
<1>4. SaveFollows(s, w, c, u - 1)
  <2>1. SaveFollows(s, w, c, u)
    BY DEF Tracked
  <2>2. ASSUME NEW m \in 1 .. u, w[m][1] = "save" PROVE m \in 1 .. (u - 1)
    BY <2>2
  <2>. QED
    BY <2>1, <2>2 DEF SaveFollows
<1>5. SavesLead(s, w, p, u - 1) /\ Clean(w, u - 1)
  <2>1. \A k \in 1 .. (u - 1) : k \in 1 .. u
    OBVIOUS
  <2>. QED
    BY <1>1, <2>1 DEF SavesLead, Clean
<1>6. IbsFollow(w, u - 1, c)
  <2>1. SUFFICES ASSUME NEW k \in 1 .. (u - 1), w[k][1] = "ib", ~(c < k)
                 PROVE  \E m \in (k + 1) .. (u - 1) : m < k + Resume /\ w[m][1] = "save"
    BY DEF IbsFollow
  <2>2. PICK m \in (k + 1) .. u : m < k + Resume /\ w[m][1] = "save"
    <3>1. k \in 1 .. u
      OBVIOUS
    <3>. QED
      BY <1>1, <2>1, <3>1 DEF IbsFollow
  <2>3. m \in (k + 1) .. (u - 1)
    BY <2>2
  <2>. QED
    BY <2>2, <2>3
<1>7. \A k \in (u - 1 + 1) .. c : w[k][1] \notin {"ib", "save", "stray"}
  BY <1>2
<1>. QED
  BY <1>3, <1>4, <1>5, <1>6, <1>7 DEF Tracked, Regular

\* A save is read: the resume point moves to what it stores.
LEMMA ReadSave ==
  ASSUME Resume \in Nat \ {0}, NEW s \in Nat, NEW w, NEW p, NEW u \in Nat \ {0}, NEW c \in Nat,
         Regular(s, w, p, u, c), w[u][1] = "save", u <= c
  PROVE  Tracked(s, w, p, u - 1, u - Resume)
<1>1. SavesLead(s, w, p, u) /\ IbsFollow(w, u, c) /\ Clean(w, u)
  BY DEF Regular
<1>2. /\ Resume < u /\ SaveFollows(s, w, u - Resume, u - 1)
      /\ \A m \in (u - Resume + 1) .. (u - 1) : w[m][1] \notin {"fence", "save"}
  BY <1>1 DEF SavesLead
<1>3. \A k \in (u - 1 + 1) .. (u - Resume) : w[k][1] \notin {"ib", "save", "stray"}
  OBVIOUS
<1>4. SavesLead(s, w, p, u - 1) /\ Clean(w, u - 1)
  <2>1. \A k \in 1 .. (u - 1) : k \in 1 .. u
    OBVIOUS
  <2>. QED
    BY <1>1, <2>1 DEF SavesLead, Clean
<1>5. IbsFollow(w, u - 1, u - Resume)
  <2>1. SUFFICES ASSUME NEW k \in 1 .. (u - 1), w[k][1] = "ib", ~(u - Resume < k)
                 PROVE  \E m \in (k + 1) .. (u - 1) : m < k + Resume /\ w[m][1] = "save"
    BY DEF IbsFollow
  <2>2. PICK m \in (k + 1) .. u : m < k + Resume /\ w[m][1] = "save"
    <3>1. k \in 1 .. u /\ ~(c < k)
      OBVIOUS
    <3>. QED
      BY <1>1, <2>1, <3>1 DEF IbsFollow
  <2>3. m \in (k + 1) .. (u - 1)
    BY <2>1, <2>2
  <2>. QED
    BY <2>2, <2>3
<1>. QED
  BY <1>2, <1>3, <1>4, <1>5 DEF Tracked, Regular

\* A job of n words, its save d places before the end, that nothing else has been written
\* after.
NewJob(s, w, p, n, d) ==
  /\ \A k \in 1 .. n : w[k][1] = "save" <=> k = d
  /\ SavesLead(s, w, p, n) /\ Clean(w, n)
  /\ \A k \in 1 .. n : w[k][1] = "ib" => k < d /\ d < k + Resume

\* The words of before, n places further back: those up to the l-th are still there.
Shifted(w, p, v, q, n, l) ==
  \A k \in 1 .. l : v[k + n] = w[k] /\ At(q - (k + n)) = At(p - k)

\* The next save is as near as it was, or it is that of the new job.
LEMMA SaveShifts ==
  ASSUME NEW s \in Nat, s >= 1, NEW w, NEW p, NEW v, NEW q, NEW n \in Nat, NEW l \in Nat,
         Slack(s) \in Int,
         Shifted(w, p, v, q, n, l), NewJob(s, v, q, n, n - s + 1), s <= n,
         NEW c \in Int, NEW u \in Nat, u <= l, SaveFollows(s, w, c, u)
  PROVE  SaveFollows(s, v, c + n, u + n)
<1>1. CASE c + s - 1 <= Slack(s)
  <2>1. n - s + 1 \in 1 .. n /\ n - s + 1 \in 1 .. (u + n)
    OBVIOUS
  <2>2. v[n - s + 1][1] = "save"
    BY <2>1 DEF NewJob
  <2>3. (c + n) - (n - s + 1) <= Slack(s)
    BY <1>1
  <2>. QED
    BY <2>1, <2>2, <2>3 DEF SaveFollows
<1>2. CASE \E m \in 1 .. u : w[m][1] = "save" /\ c - m <= Slack(s)
  <2>1. PICK m \in 1 .. u : w[m][1] = "save" /\ c - m <= Slack(s)
    BY <1>2
  <2>2. m + n \in 1 .. (u + n) /\ m \in 1 .. l /\ (c + n) - (m + n) <= Slack(s)
    BY <2>1
  <2>3. v[m + n][1] = "save"
    BY <2>1, <2>2 DEF Shifted
  <2>. QED
    BY <2>2, <2>3 DEF SaveFollows
<1>. QED
  BY <1>1, <1>2 DEF SaveFollows

\* A new job after a tracked backlog: it is still tracked.
LEMMA TrackedJob ==
  ASSUME Resume \in Nat, NEW s \in Nat, s >= 1, NEW w, NEW p, NEW v, NEW q, NEW n \in Nat,
         NEW l \in Nat, Slack(s) \in Int,
         Shifted(w, p, v, q, n, l), NewJob(s, v, q, n, n - s + 1), s <= n,
         NEW c \in Nat, NEW u \in Nat, u <= l, c <= l, Tracked(s, w, p, u, c)
  PROVE  Tracked(s, v, q, u + n, c + n)
<1>1. SavesLead(s, w, p, u) /\ IbsFollow(w, u, c) /\ Clean(w, u)
  BY DEF Tracked, Regular
<1>2. \A k \in (n + 1) .. (l + n) : k - n \in 1 .. l /\ v[k] = w[k - n]
                                    /\ At(q - k) = At(p - (k - n))
  <2>1. SUFFICES ASSUME NEW k \in (n + 1) .. (l + n)
                 PROVE  k - n \in 1 .. l /\ v[k] = w[k - n] /\ At(q - k) = At(p - (k - n))
    OBVIOUS
  <2>2. k - n \in 1 .. l /\ (k - n) + n = k
    OBVIOUS
  <2>. QED
    BY <2>2 DEF Shifted
<1>3. ASSUME NEW k \in (u + n + 1) .. (c + n) PROVE v[k][1] \notin {"ib", "save", "stray"}
  <2>1. k \in (n + 1) .. (l + n) /\ k - n \in (u + 1) .. c
    OBVIOUS
  <2>. QED
    BY <1>2, <2>1 DEF Tracked
<1>4. ASSUME NEW k \in (c + n + 1) .. (u + n) PROVE v[k][1] \notin {"fence", "save"}
  <2>1. k \in (n + 1) .. (l + n) /\ k - n \in (c + 1) .. u
    OBVIOUS
  <2>. QED
    BY <1>2, <2>1 DEF Tracked
<1>5. SaveFollows(s, v, c + n, u + n)
  <2>1. c \in Int /\ SaveFollows(s, w, c, u)
    BY DEF Tracked
  <2>. QED
    BY <2>1, SaveShifts
<1>6. ASSUME NEW k \in 1 .. (u + n), v[k][1] = "save"
      PROVE  /\ v[k][3] = At(q - k) + Resume /\ v[k][3] < Size /\ Resume < k
             /\ \A m \in (k - Resume + 1) .. (k - 1) : v[m][1] \notin {"fence", "save"}
             /\ SaveFollows(s, v, k - Resume, k - 1)
  <2>1. CASE k <= n
    <3>1. k \in 1 .. n
      BY <2>1
    <3>. QED
      BY <1>6, <3>1 DEF NewJob, SavesLead
  <2>2. CASE k > n
    <3>1. k \in (n + 1) .. (l + n) /\ k - n \in 1 .. u
      BY <2>2
    <3>2. w[k - n][1] = "save"
      BY <1>2, <1>6, <3>1
    <3>3. /\ w[k - n][3] = At(p - (k - n)) + Resume /\ w[k - n][3] < Size /\ Resume < k - n
          /\ \A m \in (k - n - Resume + 1) .. (k - n - 1) : w[m][1] \notin {"fence", "save"}
          /\ SaveFollows(s, w, k - n - Resume, k - n - 1)
      BY <1>1, <3>1, <3>2 DEF SavesLead
    <3>4. v[k][3] = At(q - k) + Resume /\ v[k][3] < Size /\ Resume < k
      BY <1>2, <3>1, <3>3
    <3>5. ASSUME NEW m \in (k - Resume + 1) .. (k - 1)
          PROVE  v[m][1] \notin {"fence", "save"}
      <4>1. m \in (n + 1) .. (l + n) /\ m - n \in (k - n - Resume + 1) .. (k - n - 1)
        BY <3>1, <3>3
      <4>. QED
        BY <1>2, <3>3, <4>1
    <3>6. SaveFollows(s, v, (k - n - Resume) + n, (k - n - 1) + n)
      <4>1. k - n - Resume \in Int /\ k - n - 1 \in Nat /\ k - n - 1 <= l
        BY <3>1
      <4>. QED
        BY <3>3, <4>1, SaveShifts
    <3>7. (k - n - Resume) + n = k - Resume /\ (k - n - 1) + n = k - 1
      OBVIOUS
    <3>. QED
      BY <3>4, <3>5, <3>6, <3>7
  <2>. QED
    BY <2>1, <2>2
<1>7. SavesLead(s, v, q, u + n)
  BY <1>6 DEF SavesLead
<1>8. IbsFollow(v, u + n, c + n)
  <2>1. SUFFICES ASSUME NEW k \in 1 .. (u + n), v[k][1] = "ib", ~(c + n < k)
                 PROVE  \E m \in (k + 1) .. (u + n) : m < k + Resume /\ v[m][1] = "save"
    BY DEF IbsFollow
  <2>2. CASE k <= n
    <3>1. k \in 1 .. n /\ n - s + 1 \in 1 .. n
      BY <2>2
    <3>2. k < n - s + 1 /\ n - s + 1 < k + Resume /\ v[n - s + 1][1] = "save"
      BY <2>1, <3>1 DEF NewJob
    <3>3. n - s + 1 \in (k + 1) .. (u + n)
      BY <3>1, <3>2
    <3>. QED
      BY <3>2, <3>3
  <2>3. CASE k > n
    <3>1. k \in (n + 1) .. (l + n) /\ k - n \in 1 .. u /\ ~(c < k - n)
      BY <2>1, <2>3
    <3>2. w[k - n][1] = "ib"
      BY <1>2, <2>1, <3>1
    <3>3. PICK m \in (k - n + 1) .. u : m < k - n + Resume /\ w[m][1] = "save"
      BY <1>1, <3>1, <3>2 DEF IbsFollow
    <3>4. m + n \in (k + 1) .. (u + n) /\ m + n < k + Resume /\ m \in 1 .. l
      BY <3>1, <3>3
    <3>5. v[m + n][1] = "save"
      BY <3>3, <3>4 DEF Shifted
    <3>. QED
      BY <3>4, <3>5
  <2>. QED
    BY <2>2, <2>3
<1>9. Clean(v, u + n)
  <2>1. SUFFICES ASSUME NEW k \in 1 .. (u + n) PROVE v[k][1] # "stray"
    BY DEF Clean
  <2>2. CASE k <= n
    <3>1. k \in 1 .. n
      BY <2>2
    <3>. QED
      BY <3>1 DEF NewJob, Clean
  <2>3. CASE k > n
    <3>1. k \in (n + 1) .. (l + n) /\ k - n \in 1 .. u
      BY <2>3
    <3>. QED
      BY <1>1, <1>2, <3>1 DEF Clean
  <2>. QED
    BY <2>2, <2>3
<1>. QED
  BY <1>3, <1>4, <1>5, <1>7, <1>8, <1>9 DEF Tracked, Regular

\* The words before the write pointer, the last one first.
Back == [k \in 1 .. (Size - 1) |-> ring[At(wptr - k)]]

\* The words from the resume point to the write pointer: what a backup copies.
Copied == At(wptr - rptr_save)

\* The i-th word from a position on, counted back from the write pointer.
LEMMA CountedBack ==
  ASSUME TypeOK, NEW x \in 0 .. (Size - 1), NEW i \in 1 .. At(wptr - x)
  PROVE  /\ At(wptr - x) \in 0 .. (Size - 1) /\ At(wptr - x) - i + 1 \in 1 .. (Size - 1)
         /\ At(x + i - 1) = At(wptr - (At(wptr - x) - i + 1))
         /\ At(x + i - 1) \in 0 .. (Size - 1)
         /\ ring[At(x + i - 1)] = Back[At(wptr - x) - i + 1]
<1>1. Size \in Nat \ {0} /\ wptr \in 0 .. (Size - 1)
  BY RingAssumption DEF RingAssumption, TypeOK
<1>2. PICK d : d = At(wptr - x)
  OBVIOUS
<1>3. d = IF wptr < x THEN wptr - x + Size ELSE wptr - x
  <2>1. wptr - x \in (-Size) .. (2 * Size - 1)
    BY <1>1
  <2>. QED
    BY <1>1, <1>2, <2>1, AtNear
<1>4. d \in 0 .. (Size - 1) /\ i \in 1 .. d /\ d - i + 1 \in 1 .. (Size - 1)
  BY <1>1, <1>2, <1>3
<1>5. At(x + i - 1) = IF x + i - 1 < Size THEN x + i - 1 ELSE x + i - 1 - Size
  <2>1. x + i - 1 \in (-Size) .. (2 * Size - 1) /\ x + i - 1 >= 0
    BY <1>1, <1>4
  <2>. QED
    BY <1>1, <2>1, AtNear
<1>6. PICK y \in Int : y = wptr - (d - i + 1)
  <2>1. wptr - (d - i + 1) \in Int
    BY <1>1, <1>4
  <2>. QED
    BY <2>1
<1>7. At(y) = IF y < 0 THEN y + Size ELSE y
  <2>1. y \in (-Size) .. (2 * Size - 1) /\ y < Size
    BY <1>1, <1>4, <1>6
  <2>. QED
    BY <1>1, <2>1, AtNear
<1>8. At(x + i - 1) = At(y)
  BY <1>1, <1>3, <1>4, <1>5, <1>6, <1>7
<1>9. At(x + i - 1) \in 0 .. (Size - 1)
  BY <1>1, <1>4, <1>5
<1>10. ring[At(x + i - 1)] = Back[d - i + 1]
  BY <1>4, <1>6, <1>8 DEF Back
<1>. QED
  BY <1>2, <1>4, <1>6, <1>8, <1>9, <1>10

\* The words to read, counted back.
LEMMA UnreadBack ==
  ASSUME TypeOK, NEW i \in 1 .. Backlog
  PROVE  /\ Backlog - i + 1 \in 1 .. (Size - 1)
         /\ Unread[i] = Back[Backlog - i + 1]
<1>1. rptr \in 0 .. (Size - 1)
  BY DEF TypeOK
<1>2. i \in 1 .. At(wptr - rptr)
  BY DEF Backlog
<1>3. At(wptr - rptr) - i + 1 \in 1 .. (Size - 1)
      /\ ring[At(rptr + i - 1)] = Back[At(wptr - rptr) - i + 1]
  BY <1>1, <1>2, CountedBack
<1>. QED
  BY <1>3, UnreadWords DEF Backlog

\* Appending words moves those before further back.
LEMMA BackShifts ==
  ASSUME TypeOK, TypeOK', NEW n \in Nat, n < Size, Appended(n)
  PROVE  \A k \in 1 .. (Size - 1 - n) :
           Back'[k + n] = Back[k] /\ At(wptr' - (k + n)) = At(wptr - k)
<1>1. Size \in Nat \ {0} /\ wptr \in 0 .. (Size - 1)
  BY RingAssumption DEF RingAssumption, TypeOK
<1>2. PICK q \in 0 .. (Size - 1) : q = wptr'
  BY DEF TypeOK
<1>3. q = IF wptr + n < Size THEN wptr + n ELSE wptr + n - Size
  <2>1. wptr + n \in (-Size) .. (2 * Size - 1) /\ wptr + n >= 0
    BY <1>1
  <2>. QED
    BY <1>1, <1>2, <2>1, AtNear DEF Appended
<1>. SUFFICES ASSUME NEW k \in 1 .. (Size - 1 - n)
              PROVE  Back'[k + n] = Back[k] /\ At(q - (k + n)) = At(wptr - k)
  BY <1>2
<1>4. At(q - (k + n)) = IF q < k + n THEN q - (k + n) + Size ELSE q - (k + n)
  <2>1. q - (k + n) \in (-Size) .. (2 * Size - 1) /\ q - (k + n) < Size
    BY <1>1
  <2>. QED
    BY <1>1, <2>1, AtNear
<1>5. At(wptr - k) = IF wptr < k THEN wptr - k + Size ELSE wptr - k
  <2>1. wptr - k \in (-Size) .. (2 * Size - 1) /\ wptr - k < Size
    BY <1>1
  <2>. QED
    BY <1>1, <2>1, AtNear
<1>6. At(q - (k + n)) = At(wptr - k)
  BY <1>1, <1>3, <1>4, <1>5
<1>7. PICK p \in 0 .. (Size - 1) : p = At(wptr - k)
  BY <1>1, <1>5
<1>8. At(p - wptr) >= n
  <2>1. p - wptr \in (-Size) .. (2 * Size - 1)
    BY <1>1
  <2>2. At(p - wptr) = IF p < wptr THEN p - wptr + Size ELSE p - wptr
    BY <1>1, <2>1, AtNear
  <2>. QED
    BY <1>1, <1>5, <1>7, <2>2
<1>9. ring'[p] = ring[p]
  BY <1>8 DEF Appended
<1>10. Back'[k + n] = ring'[At(q - (k + n))]
  <2>1. k + n \in 1 .. (Size - 1)
    BY <1>1
  <2>2. Back' = [m \in 1 .. (Size - 1) |-> ring'[At(q - m)]]
    BY <1>2 DEF Back, At
  <2>. QED
    BY <2>1, <2>2
<1>11. Back[k] = ring[p]
  <2>1. k \in 1 .. (Size - 1)
    BY <1>1
  <2>. QED
    BY <1>7, <2>1 DEF Back
<1>. QED
  BY <1>6, <1>7, <1>9, <1>10, <1>11

\* And makes the copy longer.
LEMMA CopiedGrows ==
  ASSUME TypeOK, NEW n \in Nat, Appended(n), rptr_save' = rptr_save, rptr_save < Size,
         Copied + n < Size
  PROVE  Copied' = Copied + n
<1>1. Size \in Nat \ {0} /\ wptr \in 0 .. (Size - 1) /\ rptr_save \in 0 .. (Size - 1)
  BY RingAssumption DEF RingAssumption, TypeOK
<1>2. Copied = IF wptr < rptr_save THEN wptr - rptr_save + Size ELSE wptr - rptr_save
  <2>1. wptr - rptr_save \in (-Size) .. (2 * Size - 1) /\ wptr - rptr_save < Size
    BY <1>1
  <2>. QED
    BY <1>1, <2>1, AtNear DEF Copied
<1>3. PICK q : q = wptr'
  OBVIOUS
<1>4. n < Size
  BY <1>1, <1>2
<1>5. q = IF wptr + n < Size THEN wptr + n ELSE wptr + n - Size
  <2>1. wptr + n \in (-Size) .. (2 * Size - 1) /\ wptr + n >= 0
    BY <1>1, <1>4
  <2>. QED
    BY <1>1, <1>3, <2>1, AtNear DEF Appended
<1>6. At(q - rptr_save) = IF q < rptr_save THEN q - rptr_save + Size ELSE q - rptr_save
  <2>1. q - rptr_save \in (-Size) .. (2 * Size - 1) /\ q - rptr_save < Size
    BY <1>1, <1>4, <1>5
  <2>. QED
    BY <1>1, <1>4, <1>5, <2>1, AtNear
<1>7. Copied' = At(q - rptr_save)
  BY <1>3 DEF Copied, At
<1>. QED
  BY <1>1, <1>2, <1>4, <1>5, <1>6, <1>7

\* The place of the save of the last job written.
SavePlace(s) == JobSize - s + 1

\* What a replay needs of the ring: the resume point and all that is read after it.
Tracks(s) == rptr_save < Size /\ Tracked(s, Back, wptr, Backlog, Copied)

\* The IB test of a restart stores the first resume point that counts.
Testing(s) ==
  /\ Back[SavePlace(s)][1] = "save" /\ SavesLead(s, Back, wptr, SavePlace(s))
  /\ IbsFollow(Back, SavePlace(s), Size) /\ Clean(Back, SavePlace(s))

\* A device that runs can replay its ring; one whose ring a reset has stopped can, or has
\* nothing to replay, or has replayed and lost it.
BackupInv(s) ==
  /\ phase = "run" /\ ready => Tracks(s)
  /\ phase = "reset" => Tracks(s) \/ Replayed \/ Done
  /\ pc = "test" => IF Backlog >= SavePlace(s) THEN Testing(s) ELSE Tracks(s)

\* What the next state has to satisfy.
LEMMA TracksNext ==
  ASSUME NEW s, NEW w, NEW p, NEW u, NEW c, w = Back', p = wptr', u = Backlog', c = Copied',
         rptr_save' < Size, Tracked(s, w, p, u, c)
  PROVE  Tracks(s)'
BY DEF Tracks, Tracked, Regular, SavesLead, IbsFollow, Clean, SaveFollows, Slack, JobSize,
       AlignUp, At

\* The same of a test that has not come to its save.
LEMMA TestingNext ==
  ASSUME NEW s, NEW w, NEW p, NEW d, w = Back', p = wptr', d = SavePlace(s),
         w[d][1] = "save", SavesLead(s, w, p, d), IbsFollow(w, d, Size), Clean(w, d)
  PROVE  Testing(s)' /\ SavePlace(s)' = d
<1>1. SavePlace(s)' = d
  BY DEF SavePlace, JobSize, AlignUp
<1>. QED
  BY <1>1 DEF Testing, SavesLead, IbsFollow, Clean, SaveFollows, Slack, JobSize, AlignUp, At

\* The numbers of a job that can be replayed.
LEMMA ReplayableSizes ==
  ASSUME NEW s, Replayable(s)
  PROVE  /\ s \in Nat /\ s >= 1 /\ s <= Len(Layout) /\ JobSize \in Nat /\ Len(Layout) <= JobSize
         /\ Slack(s) \in Int /\ Resume \in Nat \ {0} /\ s - 1 + Resume < JobSize
         /\ s - 1 + Resume < Align /\ Align <= JobSize /\ JobSize - Resume <= Slack(s)
         /\ SavePlace(s) \in 1 .. JobSize /\ Resume < SavePlace(s)
         /\ Start + s - 1 <= Slack(s)
<1>1. /\ s \in DOMAIN Layout /\ Resume \in Nat \ {0} /\ s - 1 + Resume < Align
      /\ Align \in Nat \ {0} /\ Start \in Nat /\ Len(Layout) \in Nat
  BY RingAssumption DEF Replayable, RingAssumption
<1>2. JobSize \in Nat /\ s \in Nat /\ s >= 1 /\ s <= Len(Layout) /\ Len(Layout) <= JobSize
  BY <1>1, JobSizes
<1>3. Align <= JobSize
  <2>1. JobSize % Align = 0
    BY <1>1, RoundedUp DEF JobSize
  <2>2. SUFFICES ASSUME JobSize < Align PROVE FALSE
    BY <1>1, <1>2
  <2>3. JobSize \in 0 .. (Align - 1) /\ 0 \in Int
    BY <1>1, <1>2, <2>2
  <2>4. (Align * 0 + JobSize) % Align = JobSize
    BY <1>1, <2>3, Remainder
  <2>5. Align * 0 + JobSize = JobSize
    BY <1>1, <1>2
  <2>. QED
    BY <1>2, <2>1, <2>4, <2>5
<1>4. /\ Slack(s) \in Int /\ JobSize - Resume <= Slack(s) /\ Start + s - 1 <= Slack(s)
  <2>1. PICK a \in Int : a = JobSize - Resume
    BY <1>1, <1>2
  <2>2. PICK b \in Int : b = Start + s - 1
    BY <1>1, <1>2
  <2>3. Slack(s) = IF a > b THEN a ELSE b
    BY <2>1, <2>2 DEF Slack
  <2>. QED
    BY <2>1, <2>2, <2>3
<1>. QED
  BY <1>1, <1>2, <1>3, <1>4 DEF SavePlace

\* Only the words up to the backlog and the copy count.
LEMMA TrackedSame ==
  ASSUME Resume \in Nat, NEW s \in Nat, NEW w, NEW p, NEW u \in Nat, NEW c \in Nat, NEW v,
         \A k \in 1 .. u : v[k] = w[k], \A k \in 1 .. c : v[k] = w[k], Tracked(s, w, p, u, c)
  PROVE  Tracked(s, v, p, u, c)
<1>1. SavesLead(s, w, p, u) /\ IbsFollow(w, u, c) /\ Clean(w, u)
  BY DEF Tracked, Regular
<1>2. ASSUME NEW d \in Int, NEW b \in Nat, b <= u, SaveFollows(s, w, d, b)
      PROVE  SaveFollows(s, v, d, b)
  <2>1. \A m \in 1 .. b : v[m] = w[m]
    BY <1>2
  <2>. QED
    BY <1>2, <2>1 DEF SaveFollows
<1>3. ASSUME NEW k \in 1 .. u, v[k][1] = "save"
      PROVE  /\ v[k][3] = At(p - k) + Resume /\ v[k][3] < Size /\ Resume < k
             /\ \A m \in (k - Resume + 1) .. (k - 1) : v[m][1] \notin {"fence", "save"}
             /\ SaveFollows(s, v, k - Resume, k - 1)
  <2>1. /\ w[k][3] = At(p - k) + Resume /\ w[k][3] < Size /\ Resume < k /\ v[k] = w[k]
        /\ \A m \in (k - Resume + 1) .. (k - 1) : w[m][1] \notin {"fence", "save"}
        /\ SaveFollows(s, w, k - Resume, k - 1)
    BY <1>1, <1>3 DEF SavesLead
  <2>2. \A m \in (k - Resume + 1) .. (k - 1) : m \in 1 .. u
    BY <2>1
  <2>3. k - Resume \in Int /\ k - 1 \in Nat /\ k - 1 <= u
    OBVIOUS
  <2>. QED
    BY <1>2, <2>1, <2>2, <2>3
<1>4. SavesLead(s, v, p, u)
  BY <1>3 DEF SavesLead
<1>5. IbsFollow(v, u, c)
  <2>1. SUFFICES ASSUME NEW k \in 1 .. u, v[k][1] = "ib", ~(c < k)
                 PROVE  \E m \in (k + 1) .. u : m < k + Resume /\ v[m][1] = "save"
    BY DEF IbsFollow
  <2>2. PICK m \in (k + 1) .. u : m < k + Resume /\ w[m][1] = "save"
    BY <1>1, <2>1 DEF IbsFollow
  <2>3. m \in 1 .. u
    BY <2>2
  <2>. QED
    BY <2>2, <2>3
<1>6. Clean(v, u)
  BY <1>1 DEF Clean
<1>7. \A k \in (u + 1) .. c : v[k][1] \notin {"ib", "save", "stray"}
  <2>1. \A k \in (u + 1) .. c : k \in 1 .. c
    OBVIOUS
  <2>. QED
    BY <2>1 DEF Tracked
<1>8. \A k \in (c + 1) .. u : v[k][1] \notin {"fence", "save"}
  <2>1. \A k \in (c + 1) .. u : k \in 1 .. u
    OBVIOUS
  <2>. QED
    BY <2>1 DEF Tracked
<1>9. SaveFollows(s, v, c, u)
  <2>1. SaveFollows(s, w, c, u) /\ c \in Int
    BY DEF Tracked
  <2>. QED
    BY <1>2, <2>1
<1>. QED
  BY <1>4, <1>5, <1>6, <1>7, <1>8, <1>9 DEF Tracked, Regular

\* The types of the numbers.
LEMMA TrackTypes ==
  ASSUME TypeOK
  PROVE  Backlog \in 0 .. (Size - 1) /\ Copied \in 0 .. (Size - 1) /\ Size \in Nat \ {0}
<1>1. Size \in Nat \ {0} /\ wptr \in Int /\ rptr_save \in Int /\ wptr - rptr_save \in Int
  BY RingAssumption DEF RingAssumption, TypeOK
<1>. QED
  BY <1>1, Distances, Masked DEF Copied

\* After a multiple of the fetch size a whole fetch is left in the ring.
LEMMA AlignedBelow ==
  ASSUME NEW w \in 0 .. (Size - 1), w % Align = 0
  PROVE  w + Align <= Size
<1>1. Align \in Nat \ {0} /\ Size \in Nat \ {0} /\ Size % Align = 0
  BY RingAssumption DEF RingAssumption
<1>2. PICK a \in Int : w = Align * a
  <2>1. w = Align * (w \div Align) + (w % Align) /\ w \div Align \in Int
    BY <1>1, Quotient
  <2>. QED
    BY <1>1, <2>1
<1>3. PICK b \in Int : Size = Align * b
  <2>1. Size = Align * (Size \div Align) + (Size % Align) /\ Size \div Align \in Int
    BY <1>1, Quotient
  <2>. QED
    BY <1>1, <2>1
<1>4. a < b
  <2>1. SUFFICES ASSUME a >= b PROVE FALSE
    OBVIOUS
  <2>2. Align * a >= Align * b
    BY <1>1, <2>1
  <2>. QED
    BY <1>1, <1>2, <1>3, <2>2
<1>5. Align * (a + 1) <= Align * b /\ Align * (a + 1) = Align * a + Align
  BY <1>1, <1>4
<1>. QED
  BY <1>1, <1>2, <1>3, <1>5

\* Words counted back from where a write of n words ends are counted on from where it starts.
LEMMA CountedFrom ==
  ASSUME NEW w \in 0 .. (Size - 1), NEW n \in 0 .. (Size - 1), NEW k \in 1 .. n
  PROVE  /\ At(At(w + n) - k) = At(w + n - k)
         /\ At(At(w + n) - k) \in 0 .. (Size - 1)
         /\ At(At(At(w + n) - k) - w) = n - k
<1>1. /\ Size \in Nat \ {0} /\ w \in Nat /\ n \in Nat /\ k \in Nat
      /\ w + n \in (-Size) .. (2 * Size - 1)
  BY RingAssumption DEF RingAssumption
<1>2. At(w + n) \in 0 .. (Size - 1)
  BY <1>1, AtNear
<1>3. PICK q \in 0 .. (Size - 1) : q = At(w + n)
  BY <1>2
<1>4. q = IF w + n < Size THEN w + n ELSE w + n - Size
  <2>1. w + n \in (-Size) .. (2 * Size - 1) /\ w + n >= 0
    BY <1>1
  <2>. QED
    BY <1>1, <1>3, <2>1, AtNear
<1>5. At(q - k) = IF q < k THEN q - k + Size ELSE q - k
  <2>1. q - k \in (-Size) .. (2 * Size - 1) /\ q - k < Size
    BY <1>1
  <2>. QED
    BY <1>1, <2>1, AtNear
<1>6. At(w + n - k) = IF w + n - k < Size THEN w + n - k ELSE w + n - k - Size
  <2>1. w + n - k \in (-Size) .. (2 * Size - 1) /\ w + n - k >= 0
    BY <1>1
  <2>. QED
    BY <1>1, <2>1, AtNear
<1>7. At(q - k) = At(w + n - k)
  <2>1. CASE w + n < Size
    <3>1. q = w + n /\ ~(q < k)
      BY <1>1, <1>4, <2>1
    <3>2. At(q - k) = w + n - k
      BY <1>1, <1>5, <3>1
    <3>. QED
      BY <1>1, <1>6, <2>1, <3>2
  <2>2. CASE w + n >= Size
    <3>1. q = w + n - Size
      BY <1>1, <1>4, <2>2
    <3>2. CASE q < k
      <4>1. At(q - k) = w + n - k /\ w + n - k < Size
        BY <1>1, <1>5, <3>1, <3>2
      <4>. QED
        BY <1>6, <4>1
    <3>3. CASE ~(q < k)
      <4>1. At(q - k) = w + n - k - Size /\ ~(w + n - k < Size)
        BY <1>1, <1>5, <3>1, <3>3
      <4>. QED
        BY <1>6, <4>1
    <3>. QED
      BY <3>2, <3>3
  <2>. QED
    BY <1>1, <2>1, <2>2
<1>8. PICK p \in 0 .. (Size - 1) : p = At(q - k)
  BY <1>1, <1>5
<1>9. At(p - w) = n - k
  <2>1. p - w \in (-Size) .. (2 * Size - 1)
    BY <1>1
  <2>2. At(p - w) = IF p < w THEN p - w + Size ELSE p - w
    BY <1>1, <2>1, AtNear
  <2>3. p = IF w + n - k < Size THEN w + n - k ELSE w + n - k - Size
    BY <1>6, <1>7, <1>8
  <2>4. CASE w + n - k < Size
    <3>1. p = w + n - k /\ ~(p < w)
      BY <1>1, <2>3, <2>4
    <3>. QED
      BY <1>1, <2>2, <3>1
  <2>5. CASE w + n - k >= Size
    <3>1. p = w + n - k - Size /\ p < w
      BY <1>1, <2>3, <2>5
    <3>. QED
      BY <1>1, <2>2, <3>1
  <2>. QED
    BY <1>1, <2>4, <2>5
<1>. QED
  BY <1>3, <1>7, <1>8, <1>9

\* The words a committed job leaves before the write pointer.
LEMMA NewWords ==
  ASSUME TypeOK, TypeOK', WptrAligned, NEW words \in Seq(Word), Commit(words),
         NEW n \in Nat, n = AlignUp(Len(words)), n < Size,
         NEW k \in 1 .. n
  PROVE  /\ Back'[k] = IF n - k + 1 <= Len(words) THEN words[n - k + 1] ELSE Nop
         /\ At(wptr' - k) = At(wptr + n - k)
<1>1. Size \in Nat \ {0} /\ wptr \in 0 .. (Size - 1)
  BY RingAssumption DEF RingAssumption, TypeOK
<1>2. wptr' = At(wptr + n)
  <2>1. PICK l \in Nat : l = Len(words)
    OBVIOUS
  <2>2. PICK m : m = (-(wptr + l)) % Align
    OBVIOUS
  <2>3. l + m = n /\ m \in Nat
    <3>1. m \in Nat
      BY <1>1, <2>1, <2>2, Padding, RingAssumption DEF RingAssumption
    <3>2. l + ((-(wptr + l)) % Align) = AlignUp(l)
      BY <1>1, Pads DEF WptrAligned
    <3>. QED
      BY <2>1, <2>2, <3>1, <3>2
  <2>4. PICK nops : nops = [i \in 1 .. m |-> Nop]
    OBVIOUS
  <2>5. nops \in Seq(Word) /\ Len(nops) = m
    BY <2>3, <2>4 DEF Nop, Word, Kind
  <2>6. wptr' = At(wptr + Len(words \o nops))
    BY <2>1, <2>2, <2>4 DEF Commit
  <2>7. Len(words \o nops) = Len(words) + Len(nops)
    BY <2>5
  <2>. QED
    BY <2>1, <2>3, <2>5, <2>6, <2>7
<1>3. PICK q \in 0 .. (Size - 1) : q = wptr'
  BY DEF TypeOK
<1>4. q = At(wptr + n) /\ n \in 0 .. (Size - 1)
  BY <1>1, <1>2, <1>3
<1>5. /\ At(q - k) = At(wptr + n - k)
      /\ At(q - k) \in 0 .. (Size - 1)
      /\ At(At(q - k) - wptr) = n - k
  BY <1>1, <1>4, CountedFrom
<1>6. PICK p \in 0 .. (Size - 1) : p = At(q - k)
  BY <1>5
<1>7. At(p - wptr) = n - k
  BY <1>5, <1>6
<1>8. ring'[p] = IF n - k + 1 <= Len(words) THEN words[n - k + 1] ELSE Nop
  <2>1. n - k + 1 \in 1 .. AlignUp(Len(words)) /\ At(p - wptr) = (n - k + 1) - 1
    BY <1>1, <1>7
  <2>. QED
    BY <2>1, CommittedAt
<1>9. Back'[k] = ring'[p]
  <2>1. k \in 1 .. (Size - 1)
    BY <1>1
  <2>2. Back' = [m \in 1 .. (Size - 1) |-> ring'[At(q - m)]]
    BY <1>3 DEF Back, At
  <2>. QED
    BY <1>6, <2>1, <2>2
<1>. QED
  BY <1>3, <1>5, <1>6, <1>8, <1>9

\* A job is written: its save stores a place of this job, before its fence.
LEMMA NewJobs ==
  ASSUME QueueInv, RingInv', Schedule, NEW s, Replayable(s), JobSize < Size
  PROVE  NewJob(s, Back', wptr', JobSize, SavePlace(s))
<1>1. TypeOK /\ TypeOK' /\ WptrAligned
  BY DEF QueueInv, RingInv
<1>2. PICK n \in Nat : n = JobSize
  BY ReplayableSizes
<1>3. PICK d : d = SavePlace(s)
  OBVIOUS
<1>4. /\ s \in Nat /\ s >= 1 /\ s <= Len(Layout) /\ Len(Layout) <= n /\ Len(Layout) \in Nat
      /\ Resume \in Nat \ {0} /\ s - 1 + Resume < Align /\ Align <= n /\ Align \in Nat
      /\ d = n - s + 1 /\ d \in 1 .. n /\ Resume < d /\ n - Resume <= Slack(s)
      /\ Size \in Nat \ {0} /\ wptr \in 0 .. (Size - 1) /\ sync_seq \in Nat
  <2>1. Len(Layout) \in Nat /\ Align \in Nat /\ Size \in Nat \ {0}
    BY RingAssumption DEF RingAssumption
  <2>2. wptr \in 0 .. (Size - 1) /\ sync_seq \in Nat
    BY <1>1 DEF TypeOK
  <2>3. d = n - s + 1
    BY <1>2, <1>3 DEF SavePlace
  <2>. QED
    BY <1>2, <1>3, <2>1, <2>2, <2>3, ReplayableSizes
<1>5. PICK words : words = JobWords(sync_seq + 1)
  OBVIOUS
<1>6. words \in Seq(Word) /\ Len(words) = Len(Layout)
  <2>1. sync_seq + 1 \in Nat
    BY <1>4
  <2>2. words \in Seq(Word)
    BY <1>1, <1>5, <2>1, JobNames
  <2>3. Len(words) = Len(Layout)
    BY <1>5, RingAssumption DEF JobWords, RingAssumption
  <2>. QED
    BY <2>2, <2>3
<1>7. Commit(words)
  BY <1>5 DEF Schedule
<1>8. PICK w : w = Back'
  OBVIOUS
<1>9. PICK q : q = wptr'
  OBVIOUS
<1>10. ASSUME NEW k \in 1 .. n
       PROVE  /\ w[k] = IF n - k + 1 <= Len(Layout) THEN words[n - k + 1] ELSE Nop
              /\ At(q - k) = At(wptr + n - k)
  <2>1. n = AlignUp(Len(words)) /\ n < Size
    BY <1>2, <1>6 DEF JobSize
  <2>. QED
    BY <1>1, <1>6, <1>7, <1>8, <1>9, <2>1, NewWords
<1>11. ASSUME NEW k \in 1 .. n
       PROVE  w[k][1] = IF n - k + 1 <= Len(Layout) THEN Layout[n - k + 1] ELSE "nop"
  <2>1. \A i \in 1 .. Len(Layout) : words[i][1] = Layout[i]
    BY <1>5, RingAssumption DEF JobWords, RingAssumption
  <2>2. CASE n - k + 1 <= Len(Layout)
    <3>1. n - k + 1 \in 1 .. Len(Layout) /\ w[k] = words[n - k + 1]
      BY <1>4, <1>10, <2>2
    <3>. QED
      BY <2>1, <2>2, <3>1
  <2>3. CASE ~(n - k + 1 <= Len(Layout))
    <3>1. w[k] = Nop
      BY <1>10, <2>3
    <3>. QED
      BY <2>3, <3>1 DEF Nop
  <2>. QED
    BY <2>2, <2>3
<1>12. ASSUME NEW k \in 1 .. n
       PROVE  /\ w[k][1] = "save" <=> k = d
              /\ w[k][1] # "stray"
              /\ w[k][1] = "ib" => k < d /\ d < k + Resume
              /\ w[k][1] = "fence" => k <= d - Resume
  <2>1. PICK i \in 1 .. n : i = n - k + 1
    <3>1. n - k + 1 \in 1 .. n
      OBVIOUS
    <3>. QED
      BY <3>1
  <2>2. w[k][1] = IF i <= Len(Layout) THEN Layout[i] ELSE "nop"
    BY <1>11, <2>1
  <2>3. CASE i <= Len(Layout)
    <3>1. i \in DOMAIN Layout
      BY <1>4, <2>3, RingAssumption DEF RingAssumption
    <3>2. /\ Layout[i] = "save" <=> i = s
          /\ Layout[i] = "ib" => s < i /\ i < s + Resume
          /\ Layout[i] = "fence" => s + Resume <= i
          /\ Layout[i] # "stray"
      BY <3>1 DEF Replayable
    <3>3. w[k][1] = Layout[i]
      BY <2>2, <2>3
    <3>4. /\ i = s <=> k = d
          /\ s < i /\ i < s + Resume => k < d /\ d < k + Resume
          /\ s + Resume <= i => k <= d - Resume
      BY <1>4, <2>1
    <3>. QED
      BY <3>2, <3>3, <3>4
  <2>4. CASE ~(i <= Len(Layout))
    <3>1. w[k][1] = "nop" /\ k # d
      BY <1>4, <2>1, <2>2, <2>4
    <3>. QED
      BY <3>1
  <2>. QED
    BY <2>3, <2>4
<1>13. \A k \in 1 .. n : w[k][1] = "save" <=> k = d
  BY <1>12
<1>14. Clean(w, n)
  BY <1>12 DEF Clean
<1>15. \A k \in 1 .. n : w[k][1] = "ib" => k < d /\ d < k + Resume
  BY <1>12
<1>16. SavesLead(s, w, q, n)
  <2>1. wptr + s - 1 + Resume < Size
    <3>1. wptr + Align <= Size
      BY <1>1, <1>4, AlignedBelow DEF WptrAligned
    <3>. QED
      BY <1>4, <3>1
  <2>2. At(q - d) = wptr + s - 1
    <3>1. At(q - d) = At(wptr + n - d)
      BY <1>4, <1>10
    <3>2. wptr + n - d = wptr + s - 1 /\ wptr + s - 1 \in (-Size) .. (2 * Size - 1)
          /\ wptr + s - 1 >= 0 /\ wptr + s - 1 < Size
      BY <1>4, <2>1
    <3>3. At(wptr + s - 1) = wptr + s - 1
      BY <3>2, AtNear
    <3>. QED
      BY <3>1, <3>2, <3>3
  <2>3. w[d][3] = wptr + s - 1 + Resume
    <3>1. w[d] = words[s]
      BY <1>4, <1>10
    <3>2. s \in DOMAIN Layout /\ Layout[s] = "save"
      BY DEF Replayable
    <3>3. words[s][3] = wptr + s - 1 + Resume
      BY <1>5, <3>2 DEF JobWords
    <3>. QED
      BY <3>1, <3>3
  <2>4. ASSUME NEW m \in (d - Resume + 1) .. (d - 1) PROVE w[m][1] \notin {"fence", "save"}
    <3>1. m \in 1 .. n /\ m # d /\ ~(m <= d - Resume)
      BY <1>4
    <3>. QED
      BY <1>12, <3>1
  <2>5. SaveFollows(s, w, d - Resume, d - 1)
    <3>1. (d - Resume) + s - 1 <= Slack(s)
      BY <1>4
    <3>. QED
      BY <3>1 DEF SaveFollows
  <2>. QED
    BY <1>4, <1>13, <2>1, <2>2, <2>3, <2>4, <2>5 DEF SavesLead
<1>17. NewJob(s, w, q, n, d)
  BY <1>13, <1>14, <1>15, <1>16 DEF NewJob
<1>. QED
  BY <1>2, <1>3, <1>8, <1>9, <1>17

\* A job that has been allocated fits behind the backlog and behind the copy.
LEMMA RoomForCopy ==
  ASSUME QueueInv, pc = "write", who \in {"client", "test"}, NEW s, Replayable(s)
  PROVE  /\ Backlog + JobSize < Size
         /\ Tracks(s) => Copied + JobSize < Size
<1>1. /\ Backlog \in Nat /\ Lag \in Nat /\ AlignUp(Need) \in Nat
      /\ Backlog + Lag + AlignUp(Need) < Size
  BY RoomToWrite
<1>2. Need = Request
  BY DEF Need
<1>3. TypeOK
  BY DEF QueueInv, RingInv
<1>4. /\ s \in Nat /\ s >= 1 /\ JobSize \in Nat /\ Slack(s) \in Int /\ Start + s - 1 <= Slack(s)
      /\ Copied \in Nat /\ Size \in Nat /\ Start \in Nat
  BY <1>3, ReplayableSizes, TrackTypes, RingAssumption DEF RingAssumption
<1>5. JobSize + Slack(s) <= AlignUp(Request)
  BY DEF Replayable
<1>6. ASSUME Tracks(s) PROVE Copied <= Backlog + Slack(s)
  <2>1. SaveFollows(s, Back, Copied, Backlog)
    BY <1>6 DEF Tracks, Tracked
  <2>. QED
    BY <1>1, <1>4, <2>1 DEF SaveFollows
<1>7. 0 <= Slack(s)
  BY <1>4
<1>. QED
  BY <1>1, <1>2, <1>4, <1>5, <1>6, <1>7

\* A job after a ring that can be replayed.
LEMMA ScheduleTracks ==
  ASSUME QueueInv, RingInv', Schedule, NEW s, Replayable(s), Tracks(s)
  PROVE  Tracks(s)'
<1>1. TypeOK /\ TypeOK' /\ WptrAligned
  BY DEF QueueInv, RingInv
<1>2. PICK n \in Nat : n = JobSize
  BY ReplayableSizes
<1>3. PICK u \in Nat : u = Backlog
  BY <1>1, TrackTypes
<1>4. PICK c \in Nat : c = Copied
  BY <1>1, TrackTypes
<1>5. u + n < Size /\ c + n < Size /\ Size \in Nat
  BY <1>2, <1>3, <1>4, RoomForCopy, RingAssumption DEF Schedule, RingAssumption
<1>6. PICK words : words = JobWords(sync_seq + 1)
  OBVIOUS
<1>7. words \in Seq(Word) /\ AlignUp(Len(words)) = n
  <2>1. sync_seq + 1 \in Nat
    BY <1>1 DEF TypeOK
  <2>2. words \in Seq(Word)
    BY <1>1, <1>6, <2>1, JobNames
  <2>3. Len(words) = Len(Layout)
    BY <1>6, RingAssumption DEF JobWords, RingAssumption
  <2>. QED
    BY <1>2, <2>2, <2>3 DEF JobSize
<1>8. Commit(words) /\ rptr' = rptr /\ rptr_save' = rptr_save
  BY <1>6 DEF Schedule, gpu
<1>9. Appended(n)
  <2>1. n < Size
    BY <1>3, <1>5
  <2>. QED
    BY <1>1, <1>7, <1>8, <2>1, CommitAppends
<1>10. Backlog' = u + n
  BY <1>1, <1>3, <1>5, <1>9, Appends
<1>11. Copied' = c + n
  BY <1>1, <1>4, <1>5, <1>8, <1>9, CopiedGrows DEF Tracks
<1>12. PICK v : v = Back'
  OBVIOUS
<1>13. PICK q : q = wptr'
  OBVIOUS
<1>14. PICK l \in Nat : l = Size - 1 - n
  <2>1. Size - 1 - n \in Nat
    BY <1>5
  <2>. QED
    BY <2>1
<1>15. Shifted(Back, wptr, v, q, n, l)
  <2>1. n < Size
    BY <1>3, <1>5
  <2>. QED
    BY <1>1, <1>9, <1>12, <1>13, <1>14, <2>1, BackShifts DEF Shifted
<1>16. NewJob(s, v, q, n, n - s + 1)
  <2>1. JobSize < Size /\ SavePlace(s) = n - s + 1
    BY <1>2, <1>3, <1>5 DEF SavePlace
  <2>. QED
    BY <1>2, <1>12, <1>13, <2>1, NewJobs
<1>17. Tracked(s, Back, wptr, u, c)
  BY <1>3, <1>4 DEF Tracks
<1>18. Tracked(s, v, q, u + n, c + n)
  <2>1. /\ Resume \in Nat /\ s \in Nat /\ s >= 1 /\ Slack(s) \in Int /\ s <= n
        /\ u <= l /\ c <= l
    BY <1>2, <1>5, <1>14, ReplayableSizes
  <2>. QED
    BY <1>15, <1>16, <1>17, <2>1, TrackedJob
<1>19. rptr_save' < Size
  BY <1>8 DEF Tracks
<1>. QED
  BY <1>10, <1>11, <1>12, <1>13, <1>18, <1>19, TracksNext

\* The IB test of a ring that has been restarted.
LEMMA ScheduleTests ==
  ASSUME QueueInv, RingInv', Schedule, NEW s, Replayable(s)
  PROVE  Testing(s)' /\ Backlog' >= SavePlace(s)' /\ Backlog' \in Int
<1>1. TypeOK /\ TypeOK' /\ WptrAligned
  BY DEF QueueInv, RingInv
<1>2. PICK n \in Nat : n = JobSize
  BY ReplayableSizes
<1>3. PICK u \in Nat : u = Backlog
  BY <1>1, TrackTypes
<1>4. u + n < Size /\ Size \in Nat
  BY <1>2, <1>3, RoomForCopy, RingAssumption DEF Schedule, RingAssumption
<1>5. PICK words : words = JobWords(sync_seq + 1)
  OBVIOUS
<1>6. words \in Seq(Word) /\ AlignUp(Len(words)) = n
  <2>1. sync_seq + 1 \in Nat
    BY <1>1 DEF TypeOK
  <2>2. words \in Seq(Word)
    BY <1>1, <1>5, <2>1, JobNames
  <2>3. Len(words) = Len(Layout)
    BY <1>5, RingAssumption DEF JobWords, RingAssumption
  <2>. QED
    BY <1>2, <2>2, <2>3 DEF JobSize
<1>7. Commit(words) /\ rptr' = rptr
  BY <1>5 DEF Schedule, gpu
<1>8. Backlog' = u + n
  <2>1. n < Size
    BY <1>4
  <2>2. Appended(n)
    BY <1>1, <1>6, <1>7, <2>1, CommitAppends
  <2>. QED
    BY <1>1, <1>3, <1>4, <2>2, Appends
<1>9. PICK v : v = Back'
  OBVIOUS
<1>10. PICK q : q = wptr'
  OBVIOUS
<1>11. PICK d : d = SavePlace(s)
  OBVIOUS
<1>12. d \in 1 .. n /\ s \in Nat
  BY <1>2, <1>11, ReplayableSizes
<1>13. NewJob(s, v, q, n, d)
  <2>1. JobSize < Size
    BY <1>2, <1>4
  <2>. QED
    BY <1>2, <1>9, <1>10, <1>11, <2>1, NewJobs
<1>14. v[d][1] = "save"
  BY <1>12, <1>13 DEF NewJob
<1>15. SavesLead(s, v, q, d) /\ Clean(v, d)
  <2>1. \A k \in 1 .. d : k \in 1 .. n
    BY <1>12
  <2>. QED
    BY <1>13, <2>1 DEF NewJob, SavesLead, Clean
<1>16. IbsFollow(v, d, Size)
  <2>1. SUFFICES ASSUME NEW k \in 1 .. d, v[k][1] = "ib"
                 PROVE  \E m \in (k + 1) .. d : m < k + Resume /\ v[m][1] = "save"
    BY DEF IbsFollow
  <2>2. k \in 1 .. n
    BY <1>12
  <2>3. k < d /\ d < k + Resume
    BY <1>13, <2>1, <2>2 DEF NewJob
  <2>4. d \in (k + 1) .. d
    BY <1>12, <2>3
  <2>. QED
    BY <1>14, <2>3, <2>4
<1>17. Testing(s)' /\ SavePlace(s)' = d
  BY <1>9, <1>10, <1>11, <1>14, <1>15, <1>16, TestingNext
<1>. QED
  BY <1>8, <1>12, <1>17

\* The command processor reads the word that is furthest back.
LEMMA FetchBack ==
  ASSUME TypeOK, TypeOK', Fetch
  PROVE  /\ Backlog \in 1 .. (Size - 1) /\ Backlog' = Backlog - 1
         /\ Back' = Back /\ wptr' = wptr /\ ring[rptr] = Back[Backlog]
         /\ rptr = At(wptr - Backlog)
         /\ Back[Backlog][1] # "save" => rptr_save' = rptr_save
         /\ Back[Backlog][1] = "save" => rptr_save' = Back[Backlog][3]
<1>1. Backlog > 0 /\ Backlog' = Backlog - 1
  BY FetchTakes
<1>2. Size \in Nat \ {0} /\ Backlog \in 1 .. (Size - 1) /\ rptr \in 0 .. (Size - 1)
  <2>1. rptr \in 0 .. (Size - 1)
    BY DEF TypeOK
  <2>. QED
    BY <1>1, <2>1, TrackTypes
<1>3. wptr' = wptr /\ Back' = Back
  BY DEF Fetch, Back, At
<1>4. ring[At(rptr + 1 - 1)] = Back[Backlog] /\ At(rptr + 1 - 1) = At(wptr - Backlog)
  <2>1. PICK b \in Nat : b = Backlog
    BY <1>2
  <2>2. 1 \in 1 .. At(wptr - rptr) /\ At(wptr - rptr) = b
    BY <1>2, <2>1 DEF Backlog
  <2>3. /\ ring[At(rptr + 1 - 1)] = Back[b - 1 + 1]
        /\ At(rptr + 1 - 1) = At(wptr - (b - 1 + 1))
    BY <1>2, <2>2, CountedBack
  <2>4. b - 1 + 1 = b
    OBVIOUS
  <2>. QED
    BY <2>1, <2>3, <2>4
<1>5. At(rptr + 1 - 1) = rptr
  <2>1. rptr + 1 - 1 = rptr
    BY <1>2
  <2>2. At(rptr) = rptr
    BY <1>2 DEF At
  <2>. QED
    BY <2>1, <2>2
<1>6. ring[rptr] = Back[Backlog] /\ rptr = At(wptr - Backlog)
  BY <1>4, <1>5
<1>. QED
  BY <1>1, <1>2, <1>3, <1>6 DEF Fetch

\* The resume point that a save moves it to.
LEMMA SavedPlace ==
  ASSUME TypeOK, TypeOK', Fetch, Resume \in Nat, rptr_save' = At(wptr - Backlog) + Resume,
         rptr_save' < Size, Resume < Backlog
  PROVE  Copied' = Backlog - Resume
<1>1. /\ Size \in Nat \ {0} /\ wptr \in 0 .. (Size - 1) /\ rptr \in 0 .. (Size - 1)
      /\ Backlog \in 1 .. (Size - 1) /\ wptr' = wptr /\ rptr = At(wptr - Backlog)
  BY FetchBack, TrackTypes DEF TypeOK
<1>2. PICK r \in Nat : r = rptr_save'
  BY DEF TypeOK
<1>3. r = rptr + Resume /\ r < Size
  BY <1>1, <1>2
<1>4. Copied' = At(wptr - r)
  BY <1>1, <1>2 DEF Copied, At
<1>5. At(wptr - r) = IF wptr < r THEN wptr - r + Size ELSE wptr - r
  <2>1. wptr - r \in (-Size) .. (2 * Size - 1) /\ wptr - r < Size
    BY <1>1, <1>3
  <2>. QED
    BY <1>1, <2>1, AtNear
<1>6. /\ wptr >= rptr => Backlog = wptr - rptr
      /\ wptr < rptr => Backlog = wptr - rptr + Size
  BY Distances
<1>. QED
  BY <1>1, <1>3, <1>4, <1>5, <1>6

\* Reading a word of a ring that can be replayed.
LEMMA FetchTracks ==
  ASSUME RingInv, RingInv', Fetch, NEW s, Replayable(s), Tracks(s)
  PROVE  Tracks(s)'
<1>1. TypeOK /\ TypeOK' /\ s \in Nat /\ Resume \in Nat \ {0}
  BY ReplayableSizes DEF RingInv
<1>2. PICK u \in Nat \ {0} : u = Backlog
  BY <1>1, FetchBack
<1>3. PICK c \in Nat : c = Copied
  BY <1>1, TrackTypes
<1>4. Tracked(s, Back, wptr, u, c) /\ rptr_save < Size
  BY <1>2, <1>3 DEF Tracks
<1>5. /\ Backlog' = u - 1 /\ Back' = Back /\ wptr' = wptr
      /\ Back[u][1] # "save" => rptr_save' = rptr_save
      /\ Back[u][1] = "save" => rptr_save' = Back[u][3]
  BY <1>1, <1>2, FetchBack
<1>6. CASE Back[u][1] # "save"
  <2>1. Tracked(s, Back, wptr, u - 1, c)
    BY <1>1, <1>4, <1>6, ReadOther
  <2>2. Copied' = c
    BY <1>3, <1>5, <1>6 DEF Copied, At
  <2>3. rptr_save' < Size
    BY <1>4, <1>5, <1>6
  <2>. QED
    BY <1>5, <2>1, <2>2, <2>3, TracksNext
<1>7. CASE Back[u][1] = "save"
  <2>1. u <= c
    <3>1. ~(u \in (c + 1) .. u)
      BY <1>4, <1>7 DEF Tracked
    <3>. QED
      BY <3>1
  <2>2. Regular(s, Back, wptr, u, c)
    BY <1>4 DEF Tracked
  <2>3. Tracked(s, Back, wptr, u - 1, u - Resume)
    BY <1>1, <1>7, <2>1, <2>2, ReadSave
  <2>4. Back[u][3] = At(wptr - u) + Resume /\ Back[u][3] < Size /\ Resume < u
    BY <1>7, <2>2 DEF Regular, SavesLead
  <2>5. Copied' = u - Resume /\ rptr_save' < Size
    <3>1. rptr_save' = At(wptr - Backlog) + Resume /\ rptr_save' < Size /\ Resume < Backlog
      BY <1>2, <1>5, <1>7, <2>4
    <3>2. Copied' = Backlog - Resume
      BY <1>1, <3>1, SavedPlace
    <3>. QED
      BY <1>2, <3>1, <3>2
  <2>. QED
    BY <1>5, <2>3, <2>5, TracksNext
<1>. QED
  BY <1>6, <1>7

\* Reading a word of a ring whose test has not come to its save, or comes to it.
LEMMA FetchTests ==
  ASSUME RingInv, RingInv', Fetch, NEW s, Replayable(s), Testing(s), Backlog >= SavePlace(s)
  PROVE  IF Backlog' >= SavePlace(s)' THEN Testing(s)' ELSE Tracks(s)'
<1>1. /\ TypeOK /\ TypeOK' /\ s \in Nat /\ Resume \in Nat \ {0} /\ JobSize \in Nat
      /\ Size \in Nat
  BY ReplayableSizes, RingAssumption DEF RingInv, RingAssumption
<1>2. PICK d \in Nat \ {0} : d = SavePlace(s)
  BY <1>1, ReplayableSizes
<1>3. PICK u \in Nat \ {0} : u = Backlog /\ u >= d /\ u < Size
  BY <1>1, <1>2, FetchBack
<1>4. /\ Backlog' = u - 1 /\ Back' = Back /\ wptr' = wptr
      /\ Back[u][1] = "save" => rptr_save' = Back[u][3]
  BY <1>1, <1>3, FetchBack
<1>5. /\ Back[d][1] = "save" /\ SavesLead(s, Back, wptr, d)
      /\ IbsFollow(Back, d, Size) /\ Clean(Back, d)
  BY <1>2 DEF Testing
<1>6. Testing(s)' /\ SavePlace(s)' = d
  BY <1>2, <1>4, <1>5, TestingNext
<1>7. CASE u > d
  BY <1>3, <1>4, <1>6, <1>7
<1>8. CASE u = d
  <2>1. Regular(s, Back, wptr, u, Size)
    BY <1>5, <1>8 DEF Regular
  <2>2. Tracked(s, Back, wptr, u - 1, u - Resume)
    BY <1>1, <1>3, <1>5, <1>8, <2>1, ReadSave
  <2>3. Back[u][3] = At(wptr - u) + Resume /\ Back[u][3] < Size /\ Resume < u
    BY <1>5, <1>8 DEF SavesLead
  <2>4. rptr_save' = At(wptr - Backlog) + Resume /\ rptr_save' < Size /\ Resume < Backlog
    BY <1>3, <1>4, <1>5, <1>8, <2>3
  <2>5. Copied' = u - Resume
    BY <1>1, <1>3, <2>4, SavedPlace
  <2>6. Tracks(s)'
    BY <1>4, <2>2, <2>4, <2>5, TracksNext
  <2>7. ~(Backlog' >= SavePlace(s)')
    BY <1>3, <1>4, <1>6, <1>8
  <2>. QED
    BY <2>6, <2>7
<1>. QED
  BY <1>3, <1>7, <1>8

\* What is written at the write pointer is furthest back.
LEMMA BackStays ==
  ASSUME TypeOK, NEW n \in Nat, wptr' = wptr,
         \A p \in 0 .. (Size - 1) : At(p - wptr) >= n => ring'[p] = ring[p],
         NEW k \in 1 .. (Size - 1), k <= Size - n
  PROVE  Back'[k] = Back[k]
<1>1. Size \in Nat \ {0} /\ wptr \in 0 .. (Size - 1)
  BY RingAssumption DEF RingAssumption, TypeOK
<1>2. At(wptr - k) = IF wptr < k THEN wptr - k + Size ELSE wptr - k
  <2>1. wptr - k \in (-Size) .. (2 * Size - 1) /\ wptr - k < Size
    BY <1>1
  <2>. QED
    BY <1>1, <2>1, AtNear
<1>3. PICK p \in 0 .. (Size - 1) : p = At(wptr - k)
  BY <1>1, <1>2
<1>4. At(p - wptr) >= n
  <2>1. p - wptr \in (-Size) .. (2 * Size - 1)
    BY <1>1
  <2>2. At(p - wptr) = IF p < wptr THEN p - wptr + Size ELSE p - wptr
    BY <1>1, <2>1, AtNear
  <2>. QED
    BY <1>1, <1>2, <1>3, <2>2
<1>5. Back = [m \in 1 .. (Size - 1) |-> ring[At(wptr - m)]]
      /\ Back' = [m \in 1 .. (Size - 1) |-> ring'[At(wptr - m)]]
  BY DEF Back, At
<1>. QED
  BY <1>3, <1>4, <1>5

\* What radeon_ring_undo leaves in the buffer is not copied.
LEMMA UndoTracks ==
  ASSUME QueueInv, RingInv', Undo, NEW s, Replayable(s), Tracks(s)
  PROVE  Tracks(s)'
<1>1. TypeOK /\ UNCHANGED <<wptr, rptr, rptr_save>>
  BY DEF QueueInv, RingInv, Undo, gpu
<1>2. PICK n \in Nat : n = Len(Layout)
  BY RingAssumption DEF RingAssumption
<1>3. PICK u \in Nat : u = Backlog
  BY <1>1, TrackTypes
<1>4. PICK c \in Nat : c = Copied
  BY <1>1, TrackTypes
<1>5. u + n < Size /\ c + n < Size /\ Size \in Nat /\ n >= 1
  <2>1. u + JobSize < Size /\ c + JobSize < Size
    BY <1>3, <1>4, RoomForCopy DEF Undo
  <2>2. JobSize \in Nat /\ n <= JobSize /\ n >= 1
    BY <1>2, ReplayableSizes
  <2>. QED
    BY <1>3, <1>4, <2>1, <2>2, RingAssumption DEF RingAssumption
<1>6. ASSUME NEW p \in 0 .. (Size - 1), At(p - wptr) >= n PROVE ring'[p] = ring[p]
  <2>1. PICK words : words = JobWords(sync_seq + 1)
    OBVIOUS
  <2>2. DOMAIN words = 1 .. n
    BY <1>2, <2>1, RingAssumption DEF JobWords, RingAssumption
  <2>3. At(p - wptr) \in 0 .. (Size - 1)
    <3>1. p - wptr \in Int
      BY <1>1, RingAssumption DEF TypeOK, RingAssumption
    <3>. QED
      BY <3>1, Masked
  <2>4. At(p - wptr) + 1 \notin DOMAIN Unfenced(words)
    BY <1>6, <2>2, <2>3 DEF Unfenced
  <2>5. ring' = Written(Unfenced(words)) /\ p \in DOMAIN ring
    BY <1>1, <2>1 DEF Undo, TypeOK
  <2>. QED
    BY <2>4, <2>5 DEF Written
<1>7. PICK v : v = Back'
  OBVIOUS
<1>8. ASSUME NEW k \in 1 .. (Size - 1), k <= u \/ k <= c PROVE v[k] = Back[k]
  <2>1. k <= Size - n
    BY <1>5, <1>8
  <2>. QED
    BY <1>1, <1>6, <1>7, <2>1, BackStays
<1>9. Tracked(s, v, wptr, u, c)
  <2>1. (\A k \in 1 .. u : v[k] = Back[k]) /\ (\A k \in 1 .. c : v[k] = Back[k])
    BY <1>5, <1>8
  <2>2. Tracked(s, Back, wptr, u, c)
    BY <1>3, <1>4 DEF Tracks
  <2>3. s \in Nat /\ Resume \in Nat
    BY ReplayableSizes
  <2>. QED
    BY <2>1, <2>2, <2>3, TrackedSame
<1>10. Backlog' = u /\ Copied' = c /\ wptr' = wptr
  BY <1>1, <1>3, <1>4 DEF Backlog, Copied, At
<1>11. rptr_save' < Size
  BY <1>1 DEF Tracks
<1>. QED
  BY <1>7, <1>9, <1>10, <1>11, TracksNext

\* A step that leaves the ring alone.
LEMMA QuietTracks ==
  ASSUME UNCHANGED <<ring, wptr, rptr, rptr_save>>, NEW s
  PROVE  /\ Tracks(s) => Tracks(s)'
         /\ Testing(s) => Testing(s)'
         /\ SavePlace(s)' = SavePlace(s) /\ Backlog' = Backlog
<1>1. Back' = Back /\ Backlog' = Backlog /\ Copied' = Copied
  BY DEF Back, Backlog, Copied, At
<1>2. Tracks(s) => Tracks(s)'
  BY <1>1, TracksNext DEF Tracks
<1>3. SavePlace(s)' = SavePlace(s)
  BY DEF SavePlace, JobSize, AlignUp
<1>4. Testing(s) => Testing(s)'
  <2>1. PICK d : d = SavePlace(s)
    OBVIOUS
  <2>. QED
    BY <1>1, <2>1, TestingNext DEF Testing
<1>. QED
  BY <1>1, <1>2, <1>3, <1>4

\* A step that leaves ring and phase alone.
LEMMA StaysTracked ==
  ASSUME RingInv, NEW s, BackupInv(s), UNCHANGED <<ring, wptr, rptr, rptr_save>>,
         UNCHANGED <<cell, sync_seq, phase, ready, rs4xx, saved>>,
         last_seq' \in {last_seq, Polled}, pc' = "test" => pc = "test"
  PROVE  BackupInv(s)'
<1>1. /\ Tracks(s) => Tracks(s)'
      /\ Testing(s) => Testing(s)'
      /\ SavePlace(s)' = SavePlace(s) /\ Backlog' = Backlog
  BY QuietTracks
<1>2. Done => Done'
  BY StaysDone
<1>. QED
  BY <1>1, <1>2 DEF BackupInv, Replayed

\* A step after which no ring runs, none is to be copied and none is tested.
LEMMA NotTracked ==
  ASSUME NEW s, pc' # "test", phase' = "run" => ~ready', phase' # "reset"
  PROVE  BackupInv(s)'
BY DEF BackupInv

\* A signalled test has been read past its save.
LEMMA TestTracks ==
  ASSUME RingInv, NEW s, Replayable(s), JobsAhead, BackupInv(s), TestDone
  PROVE  Tracks(s)
<1>1. /\ Backlog \in Nat /\ cell \in Nat /\ last_seq \in Nat /\ sync_seq \in Nat
  BY UnreadTypes
<1>2. target = sync_seq /\ Ahead(0, SavePlace(s)) /\ Polled >= target
  <2>1. s \in DOMAIN Layout /\ \A i \in DOMAIN Layout : Layout[i] = "fence" => s + Resume <= i
    BY DEF Replayable
  <2>2. /\ s \in 1 .. Len(Layout) /\ DOMAIN Layout = 1 .. Len(Layout) /\ Len(Layout) \in Nat
        /\ Resume \in Nat
    BY <2>1, RingAssumption DEF RingAssumption
  <2>3. FirstFence(s)
    BY <2>1, <2>2 DEF FirstFence
  <2>4. FencesAhead(SavePlace(s), JobSize + SavePlace(s))
    BY <2>1, <2>3 DEF JobsAhead, SavePlace
  <2>. QED
    BY <2>4 DEF FencesAhead, TestDone
<1>3. ~(cell < sync_seq /\ last_seq < sync_seq)
  BY <1>1, <1>2 DEF Polled
<1>4. ~(Backlog >= SavePlace(s))
  BY <1>1, <1>2, <1>3 DEF Ahead
<1>. QED
  BY <1>4 DEF BackupInv, TestDone

\* Every step keeps the ring as a replay needs it.
LEMMA BackupSteps ==
  ASSUME QueueInv, RingInv', SpentInv, NEW s, Replayable(s), JobsAhead, BackupInv(s), Next
  PROVE  BackupInv(s)'
<1>1. RingInv /\ TypeOK /\ HolderAllowed
  BY DEF QueueInv, RingInv
<1>2. CASE Fetch
  <2>1. /\ UNCHANGED <<phase, ready, pc>> /\ phase # "reset"
    BY <1>2 DEF Fetch, Running, holder
  <2>2. Tracks(s) => Tracks(s)'
    BY <1>1, <1>2, FetchTracks
  <2>3. CASE pc = "test"
    <3>1. CASE Backlog >= SavePlace(s)
      <4>1. IF Backlog' >= SavePlace(s)' THEN Testing(s)' ELSE Tracks(s)'
        BY <1>1, <1>2, <2>3, <3>1, FetchTests DEF BackupInv
      <4>2. phase # "run"
        BY <1>1, <2>3 DEF HolderAllowed
      <4>. QED
        BY <2>1, <4>1, <4>2 DEF BackupInv
    <3>2. CASE ~(Backlog >= SavePlace(s))
      <4>1. Tracks(s)'
        BY <2>2, <2>3, <3>2 DEF BackupInv
      <4>2. ~(Backlog' >= SavePlace(s)')
        <5>1. SavePlace(s)' = SavePlace(s) /\ SavePlace(s) \in Nat
          BY ReplayableSizes DEF SavePlace, JobSize, AlignUp
        <5>2. Backlog' = Backlog - 1 /\ Backlog \in Nat
          BY <1>1, <1>2, FetchTakes, UnreadTypes DEF RingInv
        <5>. QED
          BY <3>2, <5>1, <5>2
      <4>. QED
        BY <2>1, <4>1, <4>2 DEF BackupInv
    <3>. QED
      BY <3>1, <3>2
  <2>4. CASE pc # "test"
    BY <2>1, <2>2, <2>4 DEF BackupInv
  <2>. QED
    BY <2>3, <2>4
<1>3. CASE Hang \/ Process \/ CheckLockup \/ AskReset
  <2>1. /\ UNCHANGED <<ring, wptr, rptr, rptr_save, cell, sync_seq, phase, ready, pc>>
        /\ UNCHANGED <<rs4xx, saved>> /\ last_seq' \in {last_seq, Polled}
    BY <1>3 DEF Hang, Process, Poll, CheckLockup, AskReset, gpu, fences, holder
  <2>. QED
    BY <1>1, <2>1, StaysTracked
<1>4. CASE ClientLock \/ RestoreLock \/ TestLock \/ Allocated \/ WaitNext \/ WaitDone
  <2>1. /\ UNCHANGED <<ring, wptr, rptr, rptr_save, cell, sync_seq, phase, ready>>
        /\ UNCHANGED <<rs4xx, saved>> /\ last_seq' \in {last_seq, Polled} /\ pc' # "test"
    BY <1>4 DEF ClientLock, RestoreLock, TestLock, Lock, Allocated, WaitNext, WaitDone, Poll,
                gpu, fences
  <2>. QED
    BY <1>1, <2>1, StaysTracked
<1>5. CASE NothingToWaitFor \/ WaitDeadlock
  <2>1. /\ Refused /\ UNCHANGED <<ring, wptr, rptr, rptr_save, sync_seq, last_seq>>
        /\ UNCHANGED <<rs4xx, saved>>
    BY <1>5 DEF NothingToWaitFor, WaitDeadlock, gpu
  <2>2. CASE who = "client"
    <3>1. UNCHANGED <<cell, phase, ready>> /\ pc' # "test"
      BY <2>1, <2>2 DEF Refused
    <3>. QED
      BY <1>1, <2>1, <3>1, StaysTracked
  <2>3. CASE who # "client"
    <3>1. pc' # "test" /\ phase' \in {"dead", "run", "test"} /\ (phase' = "run" => ~ready')
      BY <1>1, <2>1, <2>3 DEF Refused, RestoreFailed, TestFailed, Dead, TypeOK
    <3>. QED
      BY <3>1, NotTracked
  <2>. QED
    BY <2>2, <2>3
<1>6. CASE Schedule
  <2>1. UNCHANGED <<phase, ready>> /\ pc = "write"
    BY <1>6 DEF Schedule
  <2>2. CASE who = "test"
    <3>1. phase \in {"test", "resume"}
      BY <1>1, <2>1, <2>2 DEF HolderAllowed
    <3>2. Testing(s)' /\ Backlog' >= SavePlace(s)'
      BY <1>6, ScheduleTests
    <3>. QED
      BY <2>1, <3>1, <3>2 DEF BackupInv
  <2>3. CASE who # "test"
    <3>1. who = "client" /\ phase = "run" /\ ready /\ pc' = "idle"
      BY <1>1, <1>6, <2>1, <2>3 DEF HolderAllowed, Schedule
    <3>2. Tracks(s)'
      BY <1>6, <3>1, ScheduleTracks DEF BackupInv
    <3>. QED
      BY <2>1, <3>1, <3>2 DEF BackupInv
  <2>. QED
    BY <2>2, <2>3
<1>7. CASE Undo
  <2>1. phase = "run" /\ ready /\ UNCHANGED <<phase, ready>> /\ pc' = "idle"
    BY <1>1, <1>7 DEF HolderAllowed, Undo
  <2>2. Tracks(s)'
    BY <1>7, <2>1, UndoTracks DEF BackupInv
  <2>. QED
    BY <2>1, <2>2 DEF BackupInv
<1>8. CASE BeginReset
  <2>1. /\ UNCHANGED <<ring, wptr, rptr, rptr_save, cell, sync_seq, last_seq, rs4xx, saved>>
        /\ phase = "run" /\ phase' = "reset" /\ pc' # "test"
    BY <1>8 DEF BeginReset, gpu, fences, holder
  <2>2. Tracks(s) => Tracks(s)'
    BY <2>1, QuietTracks
  <2>3. Tracks(s) \/ Replayed \/ Done
    BY <2>1 DEF BackupInv, SpentInv
  <2>4. (Replayed => Replayed') /\ (Done => Done')
    BY <2>1 DEF Replayed, Done
  <2>. QED
    BY <2>1, <2>2, <2>3, <2>4 DEF BackupInv
<1>9. CASE (\E copied \in BOOLEAN : Backup(copied)) \/ RestoreNothing
  <2>1. pc' # "test" /\ phase' \in {"asic", "test"}
    BY <1>1, <1>9 DEF Backup, RestoreNothing, holder, HolderAllowed
  <2>. QED
    BY <2>1, NotTracked
<1>10. CASE ResetFails \/ RestartFails \/ Restart \/ Restore
  <2>1. /\ pc' = "idle" /\ phase' \in {"dead", "run", "restore", "resume", "test"}
        /\ phase' = "run" => ~ready'
    BY <1>1, <1>10 DEF ResetFails, RestartFails, Restart, Restore, Dead, holder,
                       HolderAllowed, SpentInv
  <2>. QED
    BY <2>1, NotTracked
<1>11. CASE SkipTest \/ TestFails
  <2>1. pc' = "idle" /\ phase' \in {"dead", "run"} /\ ~ready'
    BY <1>11 DEF SkipTest, TestFails, TestPassed, TestFailed, Dead
  <2>. QED
    BY <2>1, NotTracked
<1>12. CASE TestDone
  <2>1. /\ UNCHANGED <<ring, wptr, rptr, rptr_save>> /\ pc' = "idle" /\ phase' = "run"
    BY <1>12 DEF TestDone, TestPassed, gpu
  <2>2. Tracks(s)
    BY <1>1, <1>12, TestTracks
  <2>3. Tracks(s)'
    BY <2>1, <2>2, QuietTracks
  <2>. QED
    BY <2>1, <2>3 DEF BackupInv
<1>13. CASE Suspend \/ Drain
  <2>1. pc' \in {"drain", "idle"} /\ phase' \in {"suspend", "off", "dead"}
    BY <1>13 DEF Suspend, Drain, DrainDone, DrainDeadlock, Dead
  <2>. QED
    BY <2>1, NotTracked
<1>. QED
  BY <1>2, <1>3, <1>4, <1>5, <1>6, <1>7, <1>8, <1>9, <1>10, <1>11, <1>12, <1>13
  DEF Next, Wait, Test

\* The ring as the probe left it: the start block is between the resume point and the write
\* pointer, and can be read again.
LEMMA InitTracks ==
  ASSUME Init, NEW s, Replayable(s)
  PROVE  Tracks(s)
<1>1. TypeOK
  BY InitInv DEF RingInv
<1>2. /\ wptr = Start /\ rptr = Start /\ rptr_save = 0 /\ Start \in 0 .. (Size - 1)
      /\ Size \in Nat \ {0}
  BY StartInside, RingAssumption DEF Init, RingAssumption
<1>3. Backlog = 0
  BY <1>1, <1>2, Distances
<1>4. Copied = Start
  <2>1. Start - 0 \in (-Size) .. (2 * Size - 1) /\ Start - 0 = Start /\ Start >= 0
    BY <1>2
  <2>. QED
    BY <1>2, <2>1, AtNear DEF Copied
<1>5. ASSUME NEW k \in 1 .. Start PROVE Back[k][1] = "start"
  <2>1. At(wptr - k) = Start - k
    <3>1. Start - k \in (-Size) .. (2 * Size - 1) /\ Start - k >= 0 /\ Start - k < Size
      BY <1>2
    <3>. QED
      BY <1>2, <3>1, AtNear
  <2>2. Start - k \in 0 .. (Size - 1) /\ Start - k < Start /\ k \in 1 .. (Size - 1)
    BY <1>2
  <2>3. Back[k] = ring[Start - k]
    BY <2>1, <2>2 DEF Back
  <2>4. ring[Start - k] = <<"start", 0, 0>>
    BY <2>2 DEF Init
  <2>. QED
    BY <2>3, <2>4
<1>6. SaveFollows(s, Back, Start, 0)
  BY ReplayableSizes DEF SaveFollows
<1>7. Regular(s, Back, wptr, 0, Start)
  BY DEF Regular, SavesLead, IbsFollow, Clean
<1>8. Tracked(s, Back, wptr, 0, Start)
  <2>1. \A k \in (0 + 1) .. Start : Back[k][1] \notin {"ib", "save", "stray"}
    BY <1>5
  <2>2. \A k \in (Start + 1) .. 0 : Back[k][1] \notin {"fence", "save"}
    BY <1>2
  <2>. QED
    BY <1>6, <1>7, <2>1, <2>2 DEF Tracked
<1>. QED
  BY <1>2, <1>3, <1>4, <1>8 DEF Tracks

\* Whichever word of a job is its save.
AllBackups == \A s \in DOMAIN Layout : Replayable(s) => BackupInv(s)

\* The invariant behind the backup.
LEMMA BackupInvariance == Spec => []AllBackups
<1>1. Init => AllBackups
  <2>. SUFFICES ASSUME Init, NEW s \in DOMAIN Layout, Replayable(s) PROVE BackupInv(s)
    BY DEF AllBackups
  <2>1. Tracks(s) /\ phase = "run" /\ pc = "idle"
    BY InitTracks DEF Init
  <2>. QED
    BY <2>1 DEF BackupInv
<1>2. QueueInv /\ RingInv' /\ SpentInv /\ JobsAhead /\ AllBackups /\ [Next]_vars
      => AllBackups'
  <2>. SUFFICES ASSUME QueueInv, RingInv', SpentInv, JobsAhead, AllBackups, [Next]_vars,
                       NEW s \in DOMAIN Layout, Replayable(s)
                PROVE  BackupInv(s)'
    BY DEF AllBackups, Replayable, JobSize, Slack, AlignUp
  <2>1. BackupInv(s)
    BY DEF AllBackups
  <2>2. CASE Next
    BY <2>1, <2>2, BackupSteps
  <2>3. CASE UNCHANGED vars
    <3>1. /\ RingInv /\ UNCHANGED <<ring, wptr, rptr, rptr_save, cell, sync_seq, phase, ready>>
          /\ UNCHANGED <<rs4xx, saved, pc>> /\ last_seq' \in {last_seq, Polled}
      BY <2>3 DEF vars, gpu, fences, holder, QueueInv
    <3>. QED
      BY <2>1, <3>1, StaysTracked
  <2>. QED
    BY <2>2, <2>3
<1>. QED
  BY <1>1, <1>2, RingInvariance, QueueInvariance, AheadInvariance, SpentInvariance, PTL
  DEF Spec

\* Two sequences whose words are counted back from the same place.
LEMMA SameEnd ==
  ASSUME NEW S, NEW a \in Seq(S), NEW b \in Seq(S), NEW w, Len(a) <= Len(b),
         \A i \in 1 .. Len(a) : a[i] = w[Len(a) - i + 1],
         \A i \in 1 .. Len(b) : b[i] = w[Len(b) - i + 1]
  PROVE  IsSuffix(a, b)
<1>1. PICK m \in Nat : m = Len(a)
  OBVIOUS
<1>2. PICK n \in Nat : n = Len(b)
  OBVIOUS
<1>3. /\ Reverse(a) = [i \in 1 .. m |-> a[(m - i) + 1]]
      /\ Reverse(b) = [i \in 1 .. n |-> b[(n - i) + 1]]
  BY <1>1, <1>2 DEF Reverse
<1>4. ASSUME NEW i \in 1 .. m PROVE Reverse(a)[i] = Reverse(b)[i]
  <2>1. i \in 1 .. n /\ (m - i) + 1 \in 1 .. m /\ (n - i) + 1 \in 1 .. n
    BY <1>1, <1>2
  <2>2. m - ((m - i) + 1) + 1 = i /\ n - ((n - i) + 1) + 1 = i
    BY <1>1, <1>2
  <2>3. a[(m - i) + 1] = w[i] /\ b[(n - i) + 1] = w[i]
    BY <1>1, <1>2, <2>1, <2>2
  <2>. QED
    BY <1>3, <2>1, <2>3
<1>5. PICK ra \in Seq(S) : ra = Reverse(a) /\ Len(ra) = m
  <2>1. \A i \in 1 .. m : a[(m - i) + 1] \in S
    BY <1>1
  <2>2. Reverse(a) \in Seq(S) /\ Len(Reverse(a)) = m
    BY <1>1, <1>3, <2>1
  <2>. QED
    BY <2>2
<1>6. PICK rb \in Seq(S) : rb = Reverse(b) /\ Len(rb) = n
  <2>1. \A i \in 1 .. n : b[(n - i) + 1] \in S
    BY <1>2
  <2>2. Reverse(b) \in Seq(S) /\ Len(Reverse(b)) = n
    BY <1>2, <1>3, <2>1
  <2>. QED
    BY <2>2
<1>7. m <= n
  BY <1>1, <1>2
<1>8. SubSeq(ra, 1, m) \in Seq(S) /\ Len(SubSeq(ra, 1, m)) = m
      /\ \A i \in 1 .. m : SubSeq(ra, 1, m)[i] = ra[i]
  BY <1>5
<1>9. SubSeq(rb, 1, m) \in Seq(S) /\ Len(SubSeq(rb, 1, m)) = m
      /\ \A i \in 1 .. m : SubSeq(rb, 1, m)[i] = rb[i]
  BY <1>6, <1>7
<1>10. SubSeq(ra, 1, m) = SubSeq(rb, 1, m)
  BY <1>4, <1>5, <1>6, <1>8, <1>9
<1>. QED
  BY <1>5, <1>6, <1>7, <1>10 DEF IsSuffix, IsPrefix

\* What a backup copies of a ring that can be replayed, where it copies anything: the words
\* from the resume point on.
LEMMA BackupTakes ==
  ASSUME TypeOK, rptr_save < Size, NEW copied \in BOOLEAN, Backup(copied), data' # <<>>
  PROVE  /\ data' \in Seq(Word) /\ Len(data') = Copied
         /\ \A i \in 1 .. Copied : data'[i] = Back[Copied - i + 1]
<1>1. Size \in Nat \ {0} /\ wptr \in 0 .. (Size - 1) /\ rptr_save \in 0 .. (Size - 1)
  BY RingAssumption DEF RingAssumption, TypeOK
<1>2. At(wptr + Size - rptr_save) = Copied
  <2>1. PICK y \in (-Size) .. (Size - 1) : y = wptr - rptr_save
    <3>1. wptr - rptr_save \in (-Size) .. (Size - 1)
      BY <1>1
    <3>. QED
      BY <3>1
  <2>2. y \in (-Size) .. (2 * Size - 1) /\ y + Size \in (-Size) .. (2 * Size - 1)
    BY <1>1
  <2>3. At(y) = IF y < 0 THEN y + Size ELSE y
    BY <1>1, <2>1, <2>2, AtNear
  <2>4. At(y + Size) = IF y + Size < Size THEN y + Size ELSE y + Size - Size
    BY <1>1, <2>1, <2>2, AtNear
  <2>5. At(y + Size) = At(y)
    BY <1>1, <2>1, <2>3, <2>4
  <2>6. wptr + Size - rptr_save = y + Size
    BY <1>1, <2>1
  <2>. QED
    BY <2>1, <2>5, <2>6 DEF Copied
<1>3. PICK c \in Nat : c = Copied
  BY TrackTypes
<1>4. data' = [i \in 1 .. c |-> IF i = 1 /\ rptr_save >= Size THEN Stray
                                ELSE ring[At(rptr_save + i - 1)]]
  BY <1>2, <1>3 DEF Backup
<1>5. ASSUME NEW i \in 1 .. c
      PROVE  /\ data'[i] = Back[c - i + 1] /\ ring[At(rptr_save + i - 1)] \in Word
             /\ data'[i] = ring[At(rptr_save + i - 1)]
  <2>1. data'[i] = ring[At(rptr_save + i - 1)]
    BY <1>1, <1>4
  <2>2. i \in 1 .. At(wptr - rptr_save)
    BY <1>3 DEF Copied
  <2>3. /\ ring[At(rptr_save + i - 1)] = Back[At(wptr - rptr_save) - i + 1]
        /\ At(rptr_save + i - 1) \in 0 .. (Size - 1)
    BY <1>1, <2>2, CountedBack
  <2>4. At(wptr - rptr_save) = c
    BY <1>3 DEF Copied
  <2>5. ring[At(rptr_save + i - 1)] \in Word
    BY <2>3 DEF TypeOK
  <2>. QED
    BY <2>1, <2>3, <2>4, <2>5
<1>6. data' = [i \in 1 .. c |-> ring[At(rptr_save + i - 1)]]
  BY <1>1, <1>4
<1>7. data' \in Seq(Word) /\ Len(data') = c
  BY <1>5, <1>6
<1>. QED
  BY <1>3, <1>5, <1>7

\* It is what has not been read.
LEMMA BackupCopies ==
  ASSUME TypeOK, NEW s, Tracks(s), NEW copied \in BOOLEAN, Backup(copied), data' # <<>>
  PROVE  CopiesTheUnprocessed
<1>1. PICK b \in Nat : b = Backlog
  BY TrackTypes
<1>2. PICK c \in Nat : c = Copied
  BY TrackTypes
<1>3. PICK d \in Seq(Word) : d = data' /\ Len(d) = c
  BY <1>2, BackupTakes DEF Tracks
<1>4. \A i \in 1 .. c : d[i] = Back[c - i + 1]
  BY <1>2, <1>3, BackupTakes DEF Tracks
<1>5. PICK v \in Seq(Word) : v = Unread /\ Len(v) = b
  BY <1>1, UnreadWords
<1>6. \A i \in 1 .. b : v[i] = Back[b - i + 1]
  BY <1>1, <1>5, UnreadBack
<1>7. /\ \A k \in (b + 1) .. c : Back[k][1] \notin {"ib", "save", "stray"}
      /\ \A k \in (c + 1) .. b : Back[k][1] \notin {"fence", "save"}
  BY <1>1, <1>2 DEF Tracks, Tracked
<1>8. CASE c - b >= 0
  <2>1. IsSuffix(v, d)
    <3>1. /\ Len(v) <= Len(d)
          /\ \A i \in 1 .. Len(v) : v[i] = Back[Len(v) - i + 1]
          /\ \A i \in 1 .. Len(d) : d[i] = Back[Len(d) - i + 1]
      BY <1>3, <1>4, <1>5, <1>6, <1>8
    <3>. QED
      BY <3>1, SameEnd
  <2>2. ASSUME NEW i \in 1 .. (c - b) PROVE d[i][1] \notin {"ib", "save", "stray"}
    <3>1. c - i + 1 \in (b + 1) .. c /\ i \in 1 .. c
      BY <1>8
    <3>. QED
      BY <1>4, <1>7, <3>1
  <2>3. Len(data') - Len(Unread) = c - b
    BY <1>3, <1>5
  <2>. QED
    BY <1>3, <1>5, <1>8, <2>1, <2>2, <2>3 DEF CopiesTheUnprocessed
<1>9. CASE ~(c - b >= 0)
  <2>1. IsSuffix(d, v)
    <3>1. /\ Len(d) <= Len(v)
          /\ \A i \in 1 .. Len(v) : v[i] = Back[Len(v) - i + 1]
          /\ \A i \in 1 .. Len(d) : d[i] = Back[Len(d) - i + 1]
      BY <1>3, <1>4, <1>5, <1>6, <1>9
    <3>. QED
      BY <3>1, SameEnd
  <2>2. ASSUME NEW i \in 1 .. (-(c - b)) PROVE v[i][1] \notin {"fence", "save"}
    <3>1. b - i + 1 \in (c + 1) .. b /\ i \in 1 .. b
      BY <1>9
    <3>. QED
      BY <1>6, <1>7, <3>1
  <2>3. Len(data') - Len(Unread) = c - b
    BY <1>3, <1>5
  <2>. QED
    BY <1>3, <1>5, <1>9, <2>1, <2>2, <2>3 DEF CopiesTheUnprocessed
<1>. QED
  BY <1>8, <1>9

\* Only the backup ends the phase in which a reset has stopped the ring.
LEMMA OnlyBackup ==
  ASSUME TypeOK, Next, phase = "reset", phase' = "asic"
  PROVE  \E copied \in BOOLEAN : Backup(copied)
<1>1. phase' # phase
  OBVIOUS
<1>2. ~(Fetch \/ Hang \/ Process \/ CheckLockup \/ AskReset)
  BY <1>1 DEF Fetch, Hang, Process, CheckLockup, AskReset
<1>3. ~(ClientLock \/ RestoreLock \/ TestLock \/ Allocated \/ WaitNext \/ WaitDone)
  BY <1>1 DEF ClientLock, RestoreLock, TestLock, Lock, Allocated, WaitNext, WaitDone
<1>4. ~(Schedule \/ Undo)
  BY <1>1 DEF Schedule, Undo
<1>5. ~(NothingToWaitFor \/ WaitDeadlock)
  <2>1. SUFFICES ASSUME Refused PROVE FALSE
    BY DEF NothingToWaitFor, WaitDeadlock
  <2>2. phase' \in {phase, "dead", "test", "run"}
    BY <2>1 DEF Refused, RestoreFailed, TestFailed, Dead, TypeOK
  <2>. QED
    BY <2>2
<1>6. ~(BeginReset \/ ResetFails \/ Restart \/ RestartFails \/ RestoreNothing \/ Restore)
  BY DEF BeginReset, ResetFails, Restart, RestartFails, RestoreNothing, Restore
<1>7. ~(SkipTest \/ TestDone \/ TestFails)
  BY DEF SkipTest, TestDone, TestFails, TestPassed, TestFailed, Dead
<1>8. ~(Suspend \/ Drain)
  BY DEF Suspend, Drain, DrainDone, DrainDeadlock, Dead
<1>. QED
  BY <1>2, <1>3, <1>4, <1>5, <1>6, <1>7, <1>8 DEF Next, Wait, Test

\* Whatever was scheduled, undone, read, reset, suspended or lost before, a reset copies the
\* commands that have not been read, from the resume point of the last save on: it skips no
\* fence and repeats no IB, in every ring whose jobs have one save and pad their requests
\* by what the resume point lags. (Nothing is said of a ring lost after a replay.)
THEOREM BackupHolds ==
  ASSUME NEW s \in DOMAIN Layout, Replayable(s)
  PROVE  Spec => BackupIsUnprocessed
<1>1. TypeOK /\ AllBackups /\ [Next]_vars
      => [phase = "reset" /\ phase' = "asic" /\ data' # <<>> /\ (rs4xx \/ ~saved)
            => CopiesTheUnprocessed]_vars
  <2>. SUFFICES ASSUME TypeOK, AllBackups, [Next]_vars,
                       phase = "reset", phase' = "asic", data' # <<>>, rs4xx \/ ~saved
                PROVE  CopiesTheUnprocessed
    OBVIOUS
  <2>1. PICK copied \in BOOLEAN : Backup(copied)
    <3>1. Next
      BY DEF vars
    <3>. QED
      BY <3>1, OnlyBackup
  <2>2. ~Done
    <3>1. last_seq' # sync_seq
      BY <2>1 DEF Backup
    <3>2. last_seq' = Polled /\ cell \in 0 .. sync_seq /\ last_seq \in 0 .. sync_seq
          /\ sync_seq \in Nat
      BY <2>1 DEF Backup, Poll, TypeOK
    <3>. QED
      BY <3>1, <3>2 DEF Done, Polled
  <2>3. BackupInv(s)
    BY DEF AllBackups
  <2>4. Tracks(s)
    BY <2>2, <2>3 DEF BackupInv, Replayed
  <2>. QED
    BY <2>1, <2>4, BackupCopies
<1>. QED
  BY <1>1, RingTypes, BackupInvariance, PTL DEF Spec, BackupIsUnprocessed
=============================================================================
